# A verification project for the MyHOME integration

TLA+ models of the `custom_components/myhome` Home Assistant integration: what
its gateway handler and its covers do with the commands of Home Assistant and
the frames of an OpenWebNet gateway, how a shutter is calibrated by the panel and
by the options dialog, and how what was measured is stored, model-checked with
TLC on small instances and, where it matters most, proved with TLAPS for every
value of the constants.

Paths below are relative to `src/custom_components/myhome/` unless they start
with `docs/` or `panel_src/`.

## 1. Inventory

| Component | State it keeps | Operations | Hard part |
|---|---|---|---|
| Command path (`gateway.py`) | two-deque queue, sending workers, their command sessions, counters | `send`, `send_status_request`, `sending_loop`, `_deliver`, `_discard_queued`, `close_listener` | every command settled once through retry, TTL, refusal, cancellation; a stop must overtake other devices and never its own |
| Event session (`gateway.py`) | monitor session, watchdog ages, backoff, published availability | `listening_loop`, `_check_idle`, `_set_connected`, `_handle_auth_failure` | telling a quiet monitor from a dead one with two sessions; backoff; terminal authentication failure |
| Sessions (`own_session.py`) | one TCP connection each | open, write, read until the ACK | half-open sockets |
| Dispatcher and throttle (`gateway.py`) | next forwarding instant per meter | dispatch, energy throttle | OR rule between interval and delta |
| Basic cover (`cover.py`) | movement clock, timers, deliveries, echo window | commands, `handle_event`, deadlines, delivery callbacks | a clock that is re-based while its timer is already firing |
| Cover calibration runs (`cover.py`) | per-gateway lock, run in flight, `_calib_settled` | `async_calib_home`, `_start`, `_run_fraction`, `_stop`, the service `cover_calibration_run` | a run that is cancelled or fails must still stop the motor, and a reload must wait for that |
| Calibration store and panel writes (`calibration_store.py`, `panel_write.py`) | profiles, cover records, order, one undo slot, saves on their way to the disk | assign, reorder, edit, rename, delete, forget, undo, the dialog's own writes | several saves per command; two writers; a reload or a crash between two saves; undo after another write |
| Calibration session (`calibration_session.py`, `websocket_api.py`) | screen, plan, what was measured, the movement queued and the one under way, lease and press timers | begin, act, submit, stop, save, cancel, leave, expire | answers accepted while a stop, a write or an end is being awaited; a wall switch; a client that vanishes in mid-run |
| Options flow (`calibration_flow.py`, `config_flow.py`) | conversation, run task, idle watchdog | the guided steps, the management screens | the same conversation as the panel's, written a second time; flow removed with a run in flight |
| Entry lifecycle (`__init__.py`) | `hass.data`, background tasks | setup, unload, reload | a failure half way through setup |
| Discovery (`discovery.py`) | one timed run | start, frame, stop, timeout | completion exactly once |
| Sensors (`sensor.py`, `binary_sensor.py`) | keep-alive, motion timeout | frames and timers | timer against frame |
| Other entities, validator, schemas, panel reads | - | single-step copies and pure functions | - |
| Panel client (`panel_src/src`) | store, session mirror, WebSocket | events, calls, reconnect | events out of order with answers |

How they interact. The covers (and every other entity) call `send()`; the
handler answers through `on_delivered` / `on_dropped`. Frames the gateway
mirrors on the monitor session reach the entities through the dispatcher. The
event session's watchdog sends its probe through the command path and learns of
its ACK from `_on_command_result`; either session can find the password
rejected and stops both. `close_listener()` cancels everything. The panel and
the options flow drive calibration runs of a cover and write the store, which
signals the covers to adopt a new travel model.

What makes each part correct is listed, hazard by hazard and line by line, in
the `hazards` of `PROJECT.json`.

## 2. Modules

### 2.1 `CommandContract` and `CommandPath`

`CommandContract` is the promise to a caller of `send()`: a command is taken,
merged or refused, and a taken one is answered once, as delivered by an attempt
whose copy reached the bus, or as dropped. `CommandPath` is the code; one step
is what a coroutine does between two awaits.

| Model | Code |
|---|---|
| `stops`, `queue` | `_CommandQueue._stops`, `._queue` |
| `calls`, `settled` | the callbacks that ran, `_QueuedCommand.settled` |
| `pc[w]`, `item[w]`, `attempt[w]`, `session[w]` | where `sending_loop` / `_deliver` of worker `w` is suspended, the command it holds, the attempt, its command session (`halfopen`: closed by the gateway without a word) |
| `adopted[w]`, `leaked` | whether `sending_loop`'s own variable holds the session `_deliver` opened; a session nobody will close |
| `closing`, `stopping` | the stage of `close_listener()`, `_stop_command_workers` |
| `bus`, `rank`, `ticket`, `merged` | history: copies the bus received, the order of acceptance, coalesced requests |
| `Send(c)` | `send` / `send_status_request` up to their return |
| `Dequeue`, `DequeueExpired`, `Opened`, `Write`, `Answered`, `RetryAttempt`, `LastAttemptFails`, `UnexpectedError`, `WakeFromBackoff`, `CommandAuthFailure`, `Cancelled` | the segments and exits of `sending_loop` and `_deliver` |
| `EventAuthFailure`, `CloseListener`, `CloseFinish` | the event session's verdict, `close_listener()` before and after its gather |

Abstractions: no clock (a queued command may be over its TTL at any dequeue, an
idle timeout or a transport error may happen whenever the code could meet one);
NACK and ACK are one outcome because the code reports both as delivered; the
answer that is read belongs to the frame just written (OWNd's reader).

### 2.2 `EventSession`

`listening_loop`, `_check_idle` and the availability they publish. Time is
discrete: `Tick` advances the current await, and ages replace the monotonic
timestamps, stopping at the threshold they are compared with. The command path
appears only through what the loop sees of it: a probe that is queued or
refused, an acknowledged status request, a rejected password. The history
variables `quiet`, `tries` and `spent` measure silence and connection attempts.
### 2.3 `CoverMotion`

The estimate of one basic cover without slats, with what surrounds it. The
record `cover` holds the entity's fields; a function that rewrites them
(`_start_movement`, `_finish_movement`, `_apply_stop_delivery`, ...) is an
operator from record to record, and an action is one callback or service call.

| Model | Code |
|---|---|
| `moving`, `from`, `target`, `end`, `pos` | `_moving`, `_move_start_position`, `_target_position`, `_end_position`, `_attr_current_cover_position` |
| `clock` | now minus `_move_started_at`: negative inside `start_delay` |
| `timer`, `fired` | ticks to `_stop_timer`; deadlines handed to the loop and not run, whose generation is `current` or `stale` |
| `awaited`, `stop` | `_move_delivery` (by the number of its frame), `_pending_stop` with the age of its queueing; `rebased` stands for the comparison of `_move_started_at` with the one it was planned against |
| `ownAt`, `ownCommand`, `stoppedDir`, `ownFreeRun`, `afterRestart`, `recheck` | the echo window |
| `written`, `started` | `_move_delivered_at`, `_motor_started_at` |
| `OpenOrClose`, `SetPosition`, `StopCover` | the services; a refused one changes nothing and has no action |
| `TimerFires`, `DeadlineOutdated`, `DeadlineTooEarly`, `DeadlineFreeRun`, `DeadlineStops`, `DeadlineStopRefused` | `async_call_later` and each exit of `_async_movement_deadline` |
| `Report`, `Drop`, `DropWritten` | `on_delivered` / `on_dropped`, in the order `CommandPath` gives the frames of one device |
| `Relay`, `MotorStarts`, `MotorStops`, `HitsEndStop`, `KeypadMoves`, `KeypadStops`, `StatusAnswer` | what reaches `handle_event`, by who caused it |

The motor, the gateway and the keypad are not under `src/`; they behave as the
comments of `cover.py` report of the reference installation: a direction frame
halts a motor that runs the other way, which starts `MinStart` to `MaxStart`
after the write; a stop takes `stop_latency` and cancels a start that was not
made yet; the gateway repeats a direction frame (as "stopped" and as the
direction) before `MirrorWindow`, and the interrupted direction within
`EchoWindow` of a stop; any frame of the actuator may be missed. Commands come in any order,
including reversals; `exact` remembers whether each movement was asked for at rest and
stopped once.

Abstractions: a tick is the unit of time and of travel, so the travel is linear
(the roll law and the slats are left out, and with them `_normalise`); "frame
seen" and "frame sent by the actuator" are one instant; `DEADLINE_SLACK_SEC` is
zero because ticks are exact; a stop is handed over without suspending, as
`send` does, so `_stop_in_flight` is never seen set. `exact` and `slip` are
history: whether something has happened that no estimate could know of, and how
far apart the estimate and the motor may be by the jitter of its starts.


Ages saturate so that the state space stays finite while a frame waits: the clock
of a run and the age of a stop at `Horizon` (by then every position computed from
them is clamped at an end stop), the age of a frame of our own at `Memory` (by then
both of its windows are closed). `Horizon` and `Memory` are computed from the
constants; the bounds proper are `MaxFrames` and `MaxPresses`.

### 2.4 `CalibrationStore` and `PanelWrite`

`CalibrationStore` is the stored calibrations as a value: `profiles`, `covers`
(records) and `order`, the operators that change them (`Apply` of one step), the
difference an undo keeps (`Diff`, `Restore`) and the precedence by which a cover's
travel model is resolved from the record, the profile it follows and the file
(`Resolve`). `PanelWrite` says who writes and when.

| Model | Code |
|---|---|
| `stores`, `gen`, `cached`, `file` | the `CalibrationStore` objects somebody still holds, which one the entry has, whether it is in `hass.data`, the file under `.storage` |
| `job["panel"]`, `job["dialog"]` | the command inside `async_write` and the write inside the dialog, each awaiting the save of the step it has just made; `behind` is the lock of `Store.async_save` |
| `undo` | the slot of "Annulla": the difference and, as history, what it must lead back to |
| `loaded`, `runsOn` | the config entry, and the model each cover adopted from the store |
| `measuring`, `dialog` | the guided calibration that holds a cover; what the dialog has changed and the reload that is due for it |
| `Assign` ... `ProfileDelete`, `Undo`, `SessionSave` | the commands of `panel_write.py`, as sequences of store steps |
| `Run` | from one await to the next: the next step that changes anything, or the end of the command with `_remember` and the signal |
| `SaveDone`, `SaveFails` | `Store.async_save` returns; a failed write is logged and answered as if it had been made |
| `DialogAssign` ... `DialogSave`, `DialogCloses` | the same store written by `calibration_flow.py` without the lock and without the signal, and the reload it asks for when it closes |
| `Unload`, `Setup`, `Restart` | the entry, and Home Assistant itself |

A cover has one travel key, so only the origin of that key is modelled and not the
precedence key by key; a number is a member of a small set; scaling a profile to a
cover's height is an uninterpreted pair of the two. A difference keeps what it put
back, so `UndoIsExact` compares whole stores. `theirs` is history: the records whose last
writer is the dialog, inside the panel's latest command. `UndoIsExact` leaves them out, and
`UndoSparesTheDialog`, which the code breaks, says what is promised of them.

### 2.5 `CalibrationRuns`

The primitives a calibration drives a basic cover with, for the covers of one
gateway and the two clients that use them: a conversation, whose job and whose stop
are two tasks (`Guide`, `Stopper`), and the service, a task per cover.

| Model | Code |
|---|---|
| `entity[c]` | the fields of the cover a run reads: `_moving`, `_pending_stop`, `_move_delivery`, `_direction_delivery`, `_stop_delivered_at`, the model in force and the one of the run |
| `line[c]` | the frames of the cover in the command path, with the task that waits for each report |
| `motor[c]` | external: what the motor does |
| `lock` | `calibration_lock`, with its waiters in order |
| `talk` | the covers whose `calibration_session` a conversation holds |
| `task[t]` | the primitive and where its coroutine is suspended: the lock, the homing, the delivery of the frame, the echo, the sleep of the run, the report of the stop, the tidy-up |
| `settled[c]` | `_calib_settled` |
| `reload` | `_async_reload_after_the_tidying_up` of the dialog: waiting for a cover, or done (the gateway is closed) |
| `GuideRuns`, `ServiceCalled`, `Woken`, `Drive` | the entry of a primitive, at once or when the lock wakes it |
| `HomeDone`, `ServiceHomed`, `DeliveryKnown`, `EchoHeard`, `RunElapsed`, `Stopped` | its awaits, as they return |
| `NotDelivered`, `NoEcho`, `CloseDialog`, `Abort`, `TidyUp` | its failures and its cancellation, and the stop they owe |
| `OpenTalk`, `CloseTalk`, `DialogExpires` | the conversation takes the cover and gives it back; the dialog's idle watchdog, which stops a free run it leaves behind |
| `Keypad`, `Dashboard` | somebody else |
| `writing`, `WriteBegins` | a write of the panel past `_refuse_if_busy` (`WRITING_DATA_KEY`), which awaits the store and its saves |
| `ApplyCalibration` | its end: the signal reaches the cover and `async_apply_calibration` swaps the model, without asking whether somebody calibrates by now |
| `Reload`, `ReloadAnyway` | the wait for `_calib_settled` returned, or timed out |

Neither a primitive nor the service looks at a write under way, so a run may begin
between the two steps of one. `Newest` is the model in force or, with such a write, the
one to come; a task keeps the one it began with. A write is about one cover, and may fail
or change nothing.

Time is left out: a timer may expire whenever it is armed, except that the estimate
of a free run does not end while the motor is on that very run. `CoverMotion` has the
clocks, `CommandPath` the queue; here a frame is written or dropped and both ends
are told.

### 2.6 `Conversation`, `DialogConversation`, `PanelConversation`, `TwoConversations`

The guided calibration exists twice: the options dialog (`calibration_flow.py`) and
the panel's session (`calibration_session.py`) each implement the same screens.
`Conversation` holds what they share (the plans, the order of the tape readings,
what can have been measured); `DialogConversation` and `PanelConversation` are the
two implementations, as functions from one conversation (a record) to the next: one
operator per screen's handler, the plan and its pointer, the stages, the answers and
the forms, and what a movement that is over leads to. Numbers are abstracted to the
verdict the code's arithmetic gives of them. `TwoConversations` gives both the same
answers and compares them.

The two differ in some places on purpose, and these are left out of the comparison:
the check of path B runs upwards in the panel and downwards in the dialog; the
panel leaves out a homing when it has just put the shutter there (`DialogHomesAlone`
lets the dialog make it alone); the record of path A is written in another shape; a
model that cannot be built is a screen in the panel and an error of the form in the
dialog.

### 2.7 `CalibrationSession`

The panel's session around `PanelConversation`: a verb runs up to its first await in
one step, and what follows the await is another.

| Model | Code |
|---|---|
| `t` | `_step`, `_plan`, `_index`, `_at`, `_measured`, `_result`, `_movement`, `_press`, ... ; `t.queued` is `_queued` |
| `job` | what `_pump` is running: `stopping` (the stop a "not right" asks for first), `called` (the primitive is entered), `moving` (its frame is out), `aborted` (its frame was withdrawn by a stop); `overtaken` stands for the comparison of `_generation` with the one taken when it was queued |
| `awaiting` | which verbs are suspended, and on what: the stop, the two writes of a save, the stop before an end |
| `outcome` | why the session ended |
| `motor`, `place` | external: the shutter |
| `late`, `LateFrame` | external: the frame of a homing that came back before it was written |
| `astray` | history: the last homing came back with the shutter not, or not yet, at its end stop |
| `written` | which of the two writes of a save were made |
| `AsyncAct`, `AsyncSubmit`, `AsyncStop`, `AsyncSave`, `AsyncCancel`, `Leave`, `AsyncUnload` | the verbs and the unload of the entry |
| `PumpTakes`, `FirstStopReturns`, `FrameWritten`, `JobReturns` | the task |
| `AsyncPressExpired`, `AsyncLeaseExpired` | the timers |
| `SwitchMoves`, `SwitchStops`, `MotorArrives` | the wall switch and the end stops, through `_state_moving` and `_state_stopped` |

What the code decides and a reader may not expect, and the model keeps: a homing comes
back as done however its movement ended (`cover.py:2879-2886`), so `JobReturns` lets it
come back from anywhere: stopped or reversed at the wall switch half way, still under
way when the time bound is over, with its frame dropped, or with its frame still to be
written (`late`, which the worker writes before any later frame, or drops). The session
records the end stop all the same (`_settle_home`), and `_state_changed` interrupts for
a stop only when the lift-off is awaited. A homing that comes back before its frame is
written or the motor at rest counts as one of the `Touches`. `astray` remembers a homing
that had not arrived, for the two properties that except it; nothing the session does
depends on it, except that the cover may no longer show such a movement, so that an end
need not write a stop for it. A movement of
the wall switch in the direction of the session's own, before the frame of that one
is out, is taken for it (`ours`); the task goes on to the next queued movement
without a pause; a second save is refused, every other verb is accepted while the
first is written; a press that came too late leaves `_press` and `_movement` as they
were; "repeat" makes the next homing even if the session knows where it is. An index
past the end of a plan, which only the stop race of section 3 reaches, raises in
`_enter` and is a step without effect here.

The users are truthful: who presses "stopped" does so with the shutter at that end
stop. `Hasty = FALSE` keeps answers out while a stop is being awaited, because with
them the race that `session_stop_race` shows breaks most other properties too. The
revision a verb must name, the ownership of a session by one of several clients, the
reservation of the gateway after the end and an entity that disappears are left out.

## 3. Runs

| Run | What it asks | Bounds and why they are enough |
|---|---|---|
| `command_path_one_worker` | exactly one report, nothing forgotten, order on the bus, stop priority, refinement of the contract, every accepted command eventually reported | 2 covers, a movement and the stop of one and a movement of the other, one worker (the default), a queue of 3, 2 attempts (the code's value). A stop overtaking, waiting behind its own device and being retried all need exactly these three commands. Its queue is never full: a refusal by the full queue is met by the next run, and `NothingForgotten` through one is covered by its theorem |
| `command_path_two_workers` | coalesced requests and accounting with a full queue and two sessions in flight | 3 commands, 2 workers, a queue of one place, so that the second send meets a full queue; workers are symmetric |
| `command_path_leak` | violation: a worker cancelled with a session it has just opened leaves it open | 2 commands, 1 worker |
| `event_session` | bounded silence, honest availability, backoff, no churn; a stopped handler goes offline, a gateway that stays up is always reached again | a poll of two ticks and windows of three, so that every window ends between two polls and each rounding shows; the bound `MaxQuiet` is tight: with one less TLC finds a counterexample |
| `cover` | the estimate ends where the motor does, echoes change nothing, no report is waited for in vain; one thing ends every run, and every movement shown comes to an end | 2 frames and 1 press are the least that make a movement and its stop, a reversal, a replaced movement and two stops, each delivered late, dropped, refused or written and reported dropped; a travel, a start delay and a re-check of 2 ticks, everything else of one tick, so that a report may be late, a motor starts earlier than configured, and the hypotheses of section 4 hold. The shutter starts closed and known to be: the model is its own mirror image (TLC finds the same number of states from either end), so that an open one adds nothing, half way it stands after a stop. The theorems hold for every start; `EveryRunEnds`, which has none, was also checked with the position unknown and from half way (694000 to 894000 states, no error), at a cost in minutes. The theorems need no bound: a third frame changes nothing that they do not cover |
| `panel_write` | the undo is exact but for what the dialog wrote inside its command, nobody follows a profile that is not there, the store is on the disk, the covers run on the store | three covers (one in the file with a profile, one with its own key), two profile names, any 3 of: 2 commands, 1 write of the dialog, 1 fault. One command is up to three saves, so a second writer, a reload or a crash fits between any two of them |
| `panel_undo` | violation: the undo takes a write of the dialog back | as `panel_write`: one command, one write of the dialog |
| `calib_runs` | an aborted run is stopped, one driver at a time, no write begins beside a measured run, an unsettled cover is busy, every run ends | `bound` is one of three: one cover with both clients, every primitive, one lost frame and one act of somebody else; one cover with one timed run and two writes of the panel, so that one is under way when the run begins and the next meets it; or two covers that share the lock, 3 commands and no fault, so that the first client's run, the wait of the second and the next command of the first meet |
| `two_clients` | the dialog and the panel stay the same conversation and save the same record | every path; the conversation is finite by itself (a repeated reading is forgotten first) |
| `session` | what the session believes of the shutter, where its runs start, what its review is built from, nothing given up is driven, an abandoned session ends | the first calibration (the longest plan, with every kind of stage; the check of a profile and the correction are walked by `two_clients`, and three of the five properties are proved for every path); one touch at any moment: of the wall switch, of the stop, or a homing that comes back too early; answers not during a pending stop. The first two properties except what follows a homing that had not arrived (`astray`) |
| `session_torn_save` | violation: a save of a first calibration is not whole | the first calibration, no touch |
| `session_stop_race` | violation: a movement is driven behind the screen that says the step was interrupted | a correction, one stop |

`CHECK_DEADLOCK FALSE` is said where the system stops: a closed handler with a
finite set of commands, a session that has ended, a calibration whose bounds are
used up, a store nobody writes any more. The event session always has a step (the
gateway may go up and down), and so does a cover (time passes), so there deadlock
is checked.

Fairness. `PathFairness` asks weak fairness of each worker: asyncio resumes
every task, and every await of a worker is bounded by a timeout. No send, loss or
shutdown is required to happen. `SessionFairness` adds that a connection which
is again and again possible is sometimes made (strong fairness of `Opened`),
without which no loop could promise to come back, and that TCP keepalive, which
`own_session.py` switches on, finds a dead peer in the end.
`MotionFairness` says that time passes, that a timer which is due fires and its
coroutine runs, that the command path settles each frame (`EventuallyReported`
of `CommandPath`) and that the motor obeys within its bounds. Commands, the
keypad and the answer to a re-check are under no fairness. `RunsFairness` asks the
same of every task of a calibration, of the frames and the motor, and that the
reload stops waiting, by the event or by its timeout; nobody has to ask for anything.
`Fairness` of the session: the task runs, the stops and writes it awaits come back,
the motor arrives at its end stop, and the lease runs out once the user is away for
good (a user who is there renews it); the press timer is under no fairness, because
the lease is enough.

### What the violations show

* `ClosesEverySession` (`gateway.py:1138`): `_deliver` opens a session and
  returns it; a worker cancelled in between (or stopped by an unexpected error)
  closes only the session in its own variable, so the new one stays open on a
  gateway that counts its sessions.
* `SaveIsWhole` (`calibration_session.py:2714`): `async_save` writes the profile of a
  first calibration, then builds the record from `_result`. A cancel, an expired
  lease or a "refine" accepted while the first write is on its way clears `_result`,
  the record is never written, and a profile nobody follows stays in the store.
* `InterruptedIsAtRest` (`calibration_session.py:1165`): `async_stop` gives up what is
  queued and then awaits its stop with the old screen still shown and the revision
  unchanged. A "repeat" accepted in that window queues a new movement under the new
  generation; the stop's tail then shows `problem_interrupted`, and the shutter moves
  behind it. What follows from there: two movements under way at once, a movement
  of the wall switch that goes unnoticed, a plan pointer past its end.
* `UndoSparesTheDialog` (`panel_write.py:1020`): `async_write` remembers the difference of
  two readings of the store around a command that awaits its saves. What the dialog
  writes in between is in that difference; its save has withdrawn the undo that was
  there before, not the one that is about to be remembered. The Annulla then offered puts
  the dialog's record back as it was, which `calibration_store.py:158` calls a silent data
  loss. In the trace a batch assigns a window, the dialog deletes a profile while the batch
  is being saved, and the undo of the batch brings the profile back.

### Observed, and not kept as a run

Traces met while modelling that contradict a comment or a document in a smaller way,
or that follow from a decision the code documents elsewhere.

* A frame written twice and answered never is reported dropped although both copies
  may have been executed (`gateway.py:1135` says it never reached the bus).
* A password rejected on the command session while the monitor is being opened is
  followed by `connected` until the loop looks at its flag (`gateway.py:1303`,
  against `docs/architecture.md:201` and `:277`).
* The actuator's "stopped" may overtake the report of our stop; the movement ends,
  no echo window is opened, and the gateway's late copy of the movement starts a run
  nobody asked for (`cover.py:1991`, against the docstring at `cover.py:2114`).
* With a second command in the queue the relay of the first one is taken for a
  keypad press and replaces the commanded run (`cover.py:3362`).
* A run that is continued inside `start_delay` starts its clock at once and is up to
  `start_delay` ahead (`cover.py:2079`); a "stopped" that answers a re-check inside the
  window of the next command is ignored as its echo (`cover.py:2240`).
* After a save was lost the slot of undo survives the reload, and its difference is put
  back onto the store as the file has it (`panel_write.py:964`): a follower can be
  restored whose profile is not there. Such an undo counts as a stale choice (`crossed`).
* A cancelled run counts as settled when its tidy-up stop is queued, not when it is
  written, so the reload that waited for it may close the gateway on the stop
  (`cover.py:3157`, against `config_flow.py:619`). `AbortedRunsAreStopped` asks for
  the stop to be sent.
* A homing ends as if it had arrived however its movement ended (`cover.py:2879-2886`):
  stopped half way at the wall switch, its frame dropped or not written yet, the time
  bound over. The panel's session then believes in the end stop with the shutter
  somewhere else (`calibration_session.py:2270`; `_state_changed` interrupts for a stop
  only when the lift-off is awaited, 2507), and a later homing is left out for it.
  `cover.py:2829` says "wait until it is really there", and
  `calibration_session.py:2034-2036` that the end stop is forgotten by any command from
  outside, "so it is never a belief about a shutter somebody else has touched". Without
  `astray` in `KnowsWhereItIs` TLC finds the homing whose frame is still queued, and with
  that one barred a homing under way, a stop at the wall switch, and the return.
* A write of the panel that is awaiting its saves when a calibration begins lands in the
  middle of it: only the write looks whether somebody calibrates, and only before its
  awaits (`panel_write.py:1009`), while `async_start` and `async_calibration_run` do not
  look at `WRITING_DATA_KEY`. A measured run is then given another model on its way
  (`cover.py:1244`, against its docstring at `cover.py:1262`). `OneModelPerRun` excepts
  the write that was under way when the run began, and no other.
* A calibration cancelled while its direction frame is still queued writes no stop
  (`cover.py:3125`): the frame is delivered later and the shutter runs to its end stop.
  A dashboard command that is refused forgets the run's frame, with the same result.

## 4. Proofs

| Theorem | Statement | Argument |
|---|---|---|
| `CommandPathProofs!PathTypeCorrect` | `PathSpec => []PathTypeOK` | `PathTypeOK` is inductive |
| `CommandPathProofs!ReportedOnce` | `PathSpec => []ExactlyOneReport` | inductive with the types: every report goes through `Settle`, which looks at the flag that it sets |
| `CommandPathProofs!DeliveredMeansOnBus` | `PathSpec => []DeliveredReachedBus` | strengthened with the place of the worker: a worker waiting for an answer on an open session has its copy on the bus |
| `CommandPathQueueProofs!NoneForgotten` | `PathSpec => []NothingForgotten` | `PlacesInv`: every command has one place |
| `CommandPathQueueProofs!StopsKeepPriority` | `PathSpec => []StopPriority` | the ways in which a step moves the deques (`QueueMoves`) |
| `CommandPathQueueProofs!OneWorkerKeepsOrder` | one worker: `PathSpec => []SameDeviceInOrder` | `SortedInv`: the deques are sorted per device; `BusInv`: what was written comes before what is to be written |
| `CommandPathQueueProofs!MergedRequestsAreFresh` | `PathSpec => []MergedRequestIsFresh` | `FreshInv`: no worker waits for the answer to a copy that is older than the request |
| `CommandPathQueueProofs!CountersAreRight` | `PathSpec => []Accounting` | `CountInv`: the set of the settled commands is finite and is what the counters count |
| `CommandPathRefinement!PathImplementsContract` | `PathSpec => RefinesContract` | step simulation under `RefinementInv` |
| `EventSessionProofs!SessionTypeCorrect` | `SessionSpec => []SessionTypeOK` | split into a Boolean and a numeric half |
| `EventSessionProofs!SilenceBounded` | `SessionSpec => []MonitorSilenceBounded` | strengthened with a bound on `quiet` per phase of the watchdog |
| `EventSessionProofs!WatchdogDoesNotChurn` | `SessionSpec => NoChurn` | from the same invariant |
| `EventSessionProofs!AvailabilityIsHonest` | `SessionSpec => []AvailabilityHonest` | inductive with a conjunct on `stop` |
| `EventSessionProofs!FailuresSlowDown` | `SessionSpec => []BackoffHonoured` | `BackoffInv`: the next sleep is no shorter than the n-th of the row, and the time spent covers the sleeps before the n-th attempt |
| `CoverMotionProofs!RunsEndOnce` | `MotionSpec => []OneThingEndsARun` | `Sound`, the property read as a predicate of one record, is kept by every operator of the module |
| `CoverMotionProofs!NoReportIsMissed` | `MotionSpec => []WaitsForLiveFrames` | every frame in `Waiting(cover)` has a number below `nextId` and a place in the path; a report removes both at once |
| `CoverMotionProofs!MotionTypeCorrect` | `MotionSpec => []MotionTypeOK` | `RangesInv`, over `MotionInv`: the range of every field (`Ranged`), the positions clamped by `Travel`, the clock between the start delay and the horizon, ages natural numbers |
| `CoverMotionProofs!EchoesAreHarmless` | `Timed`: `MotionSpec => EchoesChangeNothing` | `EchoInv`, over `MotionInv` and `RangesInv`: the phases that the cover, the command path, the motor and the gateway's copies of the last frame go through together while the estimate is exact |
| `CoverMotionProofs!TheEstimateIsTheMotors` | `Timed`, `Prompt`: `MotionSpec => []EstimateFollowsTheMotor` | `FollowInv`, over the three invariants above: in each of these phases the clock, the shaft and `slip` stand in one relation |
| `CalibrationRunsProofs!RunsTypeCorrect` | `RunsSpec => []RunsTypeOK` | `RunsTypes`, and `LineInv`: the frame an entity waits for is in the command path |
| `CalibrationRunsProofs!OneRunAtATime` | `RunsSpec => []OneDriver` | `DriverInv`: who is past the lock holds it |
| `CalibrationRunsProofs!WaitsForARun` | `RunsSpec => []UnsettledIsBusy` | `BusyInv`, over `DriverInv` |
| `CalibrationRunsProofs!MeasuredOnOneModel` | `RunsSpec => []OneModelPerRun` | `PlannedInv`: whoever is past the lock began with the newest model, in force or on its way (`Newest`); only the beginning of a write moves that, and `RefusedAsBusy` refuses it |
| `CalibrationRunsProofs!CutShortRunsAreStopped` | `RunsSpec => []AbortedRunsAreStopped` | `SendInv`, `MeasuredInv`, `OwedInv`: what a run knows of its frame is true, and who owes a stop is about to send it |
| `PanelWriteProofs!MemoryIsOnDisk` | `PanelSpec => []StoreIsOnDisk` | `DiskInv`: the last of the saves on their way holds what is in memory |
| `PanelWriteProofs!CoversFollowTheStore` | `PanelSpec => []CoversRunOnTheStore` | `CoversInv`: the covers run on the store as it was when the command began |
| `PanelWriteProofs!UndoTakesBackAll` | `PanelSpec => []UndoIsExact` | `StoresInv` and `UndoInv`: the slot is the difference of two tidy stores, the second of which is the one in memory |
| `PanelWriteProofs!NobodyIsLeftFollowing` | `PanelSpec => []FollowersStayDefined` | `FollowInv`: what is left of the one command under way fits its store |
| `CalibrationSessionProofs!OnlyWhatWasAskedHolds` | `Spec => OnlyWhatWasAsked` | an action property, from `SessionInv`: whatever may still be called for was asked |
| `CalibrationSessionProofs!KnowsWhereItStands` | no `Hasty`: `Spec => []KnowsWhereItIs` | `WhereInv`: an end stop is believed in only while the shutter rests there, or after a homing that had not arrived |
| `CalibrationSessionProofs!RunsStartFromTheirEnd` | no `Hasty`: `Spec => []StartsFromItsEnd` | `WhereInv`: a run is queued only at the end stop it leaves, with the same exception |

The invariant of the command path is `TypesInv /\ PlacesInv`. `NothingForgotten` is
not inductive: an unsettled command that a worker delivers stays in the hands of that
worker only if no second worker holds it and it does not wait in a deque as well, so
`PlacesInv` says that a command has one place (`Apart`, `CommandsPlaced`,
`WorkersPlaced`). The other theorems of the queue stand on it. `OneWorkerKeepsOrder`
has the hypothesis that there is one worker, which `_CommandQueue`'s docstring makes:
for two workers `BusInv` fails, as one of them can overtake the frame that the other is
delivering.
`MergedRequestsAreFresh` needs to know that the copy a worker waits for was written
after the request was coalesced (`Serves`), or a delivery could settle the only request
that stands for it. `CountersAreRight` does not assume that there are finitely many
commands: that finitely many are settled is part of the invariant. In the refinement
a command's fate is a function of its reports, its coalescing and its rank (`FateOf`);
a step that settles nothing and writes nothing is a stutter, a `CloseListener` that
discards the whole queue one step of the contract that drops all of it.

The invariants of the calibration runs stand on two classifications of the steps:
`RunStep` (a step moves no run, or one of them: it waits, starts, returns, goes on or is
over) and `LineStep` (a step leaves the command path, queues one frame, or decides the
oldest of a cover). From the first, `DriverInv`, `BusyInv` and `PlannedInv` are short.
From the second, `LineInv`: an entity that waits for its direction frame has it in the
path, as the last direction frame there, or a later one of the same direction could be
taken for it. `AbortedRunsAreStopped` relates the flag `owed` to what the tasks have
heard, and `owed` is set from what the task knows of its frame and what the entity
knows of it; `FrameInv` and `SentInv` say that the two agree until somebody else
commands the cover (`shared`), which needs that of one run at most one direction frame
is in the path.

The invariants of `PanelWrite` are layered in the same way. `MemoryInv` says which
store object a job has in its hands and gives the classification `StepKinds` (a command
of the panel, a write of the dialog, a save that ends, the store read again, the entry
going down, a restart, or nothing of the kind). `DiskInv` is about saves only and needs
nothing of their contents. For the other two theorems every step that a command plans
is described (`StepOK`, one lemma per command up to `PlannedKinds`), and every writer of
`CalibrationStore` is shown to leave a store that is tidy (`ApplyOK`). That rests on
lemmas about lists: what `Picked` returns is a list that takes every place once, and
`NormalisedOrder` removes repeats and leaves a list without repeats as it is. They are
inductions over the length of a list, done by taking the least place where the claim
fails (`Least`, from the well-foundedness of the natural numbers), because the library's
induction theorems cannot be used. `UndoIsExact` then is `DiffIs`: what `Diff` remembers
of two tidy stores is enough for `Restore` to make the first out of the second; an undo
of an untidy order would normalise it. `FollowersStayDefined` is not inductive: a command
of several steps is sound only because a name is written before it is followed and
removed after the last follower left it. `Fit` says so of the steps that are still to
come, relative to the store as it is, and `FitTail` carries it over a step, also when
steps that change nothing are skipped. The hypothesis `~crossed` is needed: the dialog
may remove the name that a command under way is about to assign.

The cover's invariant is `MotionInv == Sound(cover) /\ PathInv /\ ActuatorInv /\
WaitsInv`. `OneThingEndsARun` alone is not inductive: a report for a frame that is
awaited *and* is the stop would leave a movement with nothing to end it, so `Sound`
adds that the two are different frames and that only a movement waits for one.
`WaitsForLiveFrames` needs the numbers to be below `nextId`, or a fresh frame could
be confused with one already waited for. The lemmas come in three layers: what each
operator of `CoverMotion` does to a sound record (`StartSound`, `ContinueSound`,
`MoveDeliveredSound`, `HandleSound`, ...), what queueing, writing and dropping do
to the path, and one lemma per group of actions. The record's fields are described
one by one (`Shaped`) because neither SMT nor Zenon proves membership of a record
set after several updates.

`MotionTypeCorrect` adds the ranges (`Ranged`, one "XStays" lemma per operator).

`EchoesChangeNothing` is about one step, the arrival of a copy, and no field of the
record says that a copy may still come. `EchoInv == Tame /\ (exact => Phases)` says it.
`Phases` has a part for each thing a copy could meet: what stands in the queue
(`LineIsSound`), what is on the wire (`WireIsSound`), what the motor does (`MotorIsSound`),
a question about the actuator's state (`RecheckIsSound`), and the copies themselves:
`RelayIsSound` says that a copy lives in one of two phases only, `RepeatsMove(k, a)`, a
movement written `a` ago whose motor has not started, and `RepeatsStop(k, s)`, a stop
written `s` ago, before or after its report. In both, `handle_event` either takes the copy
for an echo or finds nothing to change. For every operator a lemma ("XDoes") says what it
does to each field, and for every action a lemma ("XKeepsPhases", `RelayIsHarmless`) which
phase the step leads to. TLC checked `EchoInv` as an invariant before it was proved.

The theorem has a hypothesis on the constants,

    Timed == MirrorWindow <= MinStart   /\ MirrorWindow <= StartDelay
          /\ MirrorWindow <= EchoWindow /\ EchoWindow <= RecheckDelay

which says of the code: the gateway repeats a frame within 0.15 s (`cover.py`, 235),
before the motor, which needs about 0.57 s, and before the start delay, 0.5 s by default
(`const.py`, 439); the window of our own frames is 1.5 s (`cover.py`, 182) and the
re-check comes after 2.0 s (192). The constants of `MCCover.cfg` satisfy it. It cannot be
dropped: `validate.py` lets `start_delay` be configured as 0, and there, or with a
re-check inside the window, TLC finds `EchoesChangeNothing` violated: a stop is dropped
while its movement is still being repeated, the answer to a status request uses up the
window or ends the run, and the late copy counts as a new press.

`EstimateFollowsTheMotor` compares the position with the motor's shaft only where
everything rests, and is far from inductive: the last step before that rest is a timer, a
report or an end stop, and each of them writes a position computed from the clock.
`FollowInv == Bounds /\ (exact => Follows)`, over `EchoInv`, says what holds before.
`Bounds` is the promptness of the gateway and the motor, as `Tick` enforces it. `Follows`
has one part for the frames (`Waits`), two for the deadline (a run leads somewhere,
`Aims`; its timer is what remains of it, `Punctual`), two for the stop that is out
(`Planned`: the position it will freeze is the one its clock will have reached; `StopAge`),
and a relation of clock and shaft for each phase:

| Phase | Relation |
|---|---|
| `AtRest` | the position is the shutter's, up to `slip`; the end stop a lone motor is bound for; or where a motor that is stopping will halt (`Final`) |
| `Unwritten` | the shutter is where the run starts, as nothing was written yet |
| `Starts` | the jitter of this start is still unused in `slip`, and the clock is the age of the start less the start delay |
| `Tracks` | in the direction of the run the shaft is at most `slip` behind the clock, and at most `slip` ahead of it, from the start of the run on |
| `Halted` | the motor ran against the end stop, which the clock reaches within `slip` |
| `StopsRun` | the position the report of the stop will freeze (`Freeze`) is that of `Final` |

The clock is read as the coming report will set it (`Clock`), so that the report of a
frame changes the fields and not the relation. The lemmas again come per operator
("XGoes": what happens to the fields the estimate is made of) and per action ("XFollows"),
and those of travel say that positions are monotone in the time, `Full` at most apart, and
shift with it. TLC checked `FollowInv` first, on several sets of constants: the parts that
were wrong were found there and not in a proof.

The theorem has a second hypothesis,

    Prompt == MaxLag + StopLatency <= StartDelay
           /\ (StopLatency <= 1 \/ StartDelay <= MinStart)
           /\ StopLatency < RecheckDelay /\ MaxLag < RecheckDelay

which says of the code: a write is answered in about 0.1 s (`cover.py`, 227) and the motor
obeys a stop within 0.1 s (`const.py`, 438), both together before the start delay of
0.5 s (439); the motor needs 0.57 s to start (`cover.py`, 196), which is more than the
start delay; and the re-check comes after 2.0 s (192). It is a statement about the
installation and not one the code enforces: both delays can be configured, and the path
waits much longer than that for an answer. It cannot simply be dropped. With a lag, a stop
latency, a start delay and a motor start of one tick each TLC finds the property violated:
the deadline of a short run comes before its frame is answered, is put off, and the stop
leaves a stop latency too late. With a re-check after one tick and a stop latency of one it
finds it violated as well: the actuator is asked while it is still stopping, says that it
moves, its "stopped" is missed, and the estimate starts a run that nobody makes. For the
second line and the bound on the lag in the third TLC found no such behaviour; the proof
uses them.

`BackoffHonoured` speaks of two recursive functions: the row of sleeps (`BackoffAt`) and
its sum (`Slept`). TLA+ defines such a function by a choice, so that there is one has to
be shown before its equation can be used, and the library's theorem for that takes an
operator as a parameter. It is done by hand instead: the rows of a finite length agree
where they overlap (`RowsAgree`) and exist (`RowsExist`), both by the least length
at which that fails, and `RowWithoutEnd` takes the n-th entry of the n-th row. The two
equations are `BackoffRow` and `SleptRow`. `BackoffInv` then says that the sleep to come is
no shorter than the entry of the attempts so far, and that the time since the last
connection covers the sleeps up to them.

The session's invariant is `SessionInv`: while the session lives, a movement that is
queued or under way and was not given up (`Owes`) has an accepted answer behind it
(`asked`). `OnlyWhatWasAsked` speaks of a step only, so this is what has to be known
before the step: where the task goes on (`PumpOn`) it takes what is queued, and
every place that gives movements up must have reached both the queue and the task.
Reading the queue needs a conversation whose `queued` is there (`Readable`), and one
lemma for each operator of `PanelConversation` says that the operator keeps it so;
nothing else of the conversation is constrained, so the theorem holds for every
plan, every order of the answers and every verdict. Neither `Hasty` nor `Touches`
appears in the argument: the theorem covers the behaviours of the stop race too.

`KnowsWhereItIs` and `StartsFromItsEnd` need much more, `WhereInv`: that what the
session believes is so, and that the queued movement, the one the task has taken up
and the stop under way each fit the screen. Two things carry the proof. While a
movement is queued or made the screen is one of `SilentSteps`, which take no answer, so
that no answer meets a shutter on its way; and an end stop that the session believes in
is given up before the movement that leaves it is called for. What an answer does to a
conversation is one relation, `Goes`: it rests on a screen that is not silent, or sends
the shutter somewhere behind a silent one, and if that movement leaves an end stop the
session believes in it. What a movement that comes back leaves behind is another
(`Arrived`, `Sure`). Each operator of `PanelConversation` has a lemma for the relation it
is in, so again the plan, the order of the answers and the verdicts are arbitrary. The
hypothesis `~Hasty` is not an assumption about the panel but names the case that finding
`InterruptedIsAtRest` is about: an answer accepted while the stop verb's stop is being
written queues a movement the stop does not reach. TLC finds `StartsFromItsEnd` violated
there. The other way to a wrong belief is a homing that came back with the shutter
elsewhere, which the code does not look at (section 3): `Trusts` carries it as `lost`
from the return of the homing to the run that starts from it, and a later homing that
does arrive ends it. The two theorems say that nothing else leads there: in particular a
homing's frame that is written late, after the session went on, is seen as a movement of
somebody else's or falls under the same two exceptions (`MovingStands`).

The only assumptions are the ones named in the modules (`PathAssumption`,
`TimingAssumption`, `MotionAssumption`, `RunsAssumption`, `SessionAssumption`,
`StoreAssumption`, `PanelAssumption`): positive bounds, typed constant functions, names of
tasks and covers that are told apart, a file at the start whose followers are defined; and
for `OneWorkerKeepsOrder` that there is one worker, for `EchoesAreHarmless` `Timed`, for
`TheEstimateIsTheMotors` `Timed` and `Prompt`, for the last two theorems of the table
`~Hasty`. Only model-checked:

* liveness, which is beyond the provers used here;
* `ReviewIsComplete`: it compares the steps walked with what they have stored, and the
  plan they are walked along is put in order by the library's recursive `SelectSeq`;
* `SameConversation` and `SameRecord`: `TwoConversations` has only finitely many states
  and the run visits all of them.

## 5. Plan

1. Done: `CommandContract`, `CommandPath`, `EventSession` and `CoverMotion`, with
   their proofs; `CalibrationStore`, `PanelWrite`, `CalibrationRuns`,
   `TwoConversations` and `CalibrationSession`, with the theorems of the session.
2. Proofs. Done: the safety properties of `CommandPath` and that it implements
   `CommandContract`, those of `CalibrationRuns`, `PanelWrite` and the session's, and
   what section 4 lists of the others. Left: `ReviewIsComplete`, over a plan that is put in
   order by a fold instead of `SelectSeq`.
3. The rest of `cover.py`: the slats, restoring and removal, the advanced
   actuator with its safety timer.
4. `GatewayHandler`: command path and event session composed over the flags, the
   probe and the acknowledgements they share.
5. The ownership, the revision and the reservation of the calibration session; the
   unload of the entry under an open dialog.

## 6. Not modelled

* The entry's lifecycle beyond the store (`__init__.py`: the order in which platforms
  and loops are set up and torn down), the discovery service, the keep-alive and
  motion timers of the sensors, the power throttle of the dispatcher: single timers
  and single-step handlers that their tests reach.
* Of the calibration: the unload of the entry under an open dialog
  (`calibration_flow.py`, `_async_entry_unloaded`; the
  end of the panel's session, which is built the same way, is modelled); who of
  several clients owns the session, the revision, the reservation of the gateway
  after the end, a cover that disappears under the session.
* Of the cover: slats and the roll law, advanced actuators, restoring and removal.
* Of the store: the precedence key by key, the migration of old files.
* The validator and the mathematics (`validate.py`, `calibration.py`,
  `calibration_measure.py`): pure functions over strings and real numbers; only how a
  profile is scaled into a model and which keys a measurement answers for appear, in
  `CalibrationStore` and `PanelConversation`.
* Translations, the built bundle and the views, the panel's client, `diagnostics.py`,
  `button.py`, `event.py`, `device_trigger.py` (stateless adapters),
  `panel_schemas.py` and `panel_data.py` (shapes and read-only projections), frame
  parsing (OWNd).
