# energydisplay in TLA+

The firmware shows the energy use of a house on a reflective panel. It takes
readings from MQTT, adds them up per hour of the day, keeps the day's history in
a retained MQTT message so that it survives a reboot, and serves itself with SNTP
time, over-the-air updates and forwarded logs. What it computes is small; what is
hard is *when*: cooperative tasks over bounded channels that drop, a broker
that remembers what an earlier boot told it, two calendars (Brussels for the graph,
UTC for the publication), a flash that is written while the device crashes.

This directory holds the TLA+ modules of those parts, the TLC configurations that
check them, and the TLAPS proofs of what matters most. Paths below are relative to
`src/`; `mqtt.rs`, `ota.rs` and `structured_log.rs` are in `firmware/src/tasks/`,
`model.rs`, `routing.rs`, `font.rs` and `renderer.rs` in `crates/dashboard-core/src/`, the others in
`firmware/src/`.

## The system

| part | state | operations | talks to |
|---|---|---|---|
| mqtt task (`mqtt.rs`) | the MQTT session, `last_summary_update`, `awaiting_restored_snapshot` | connect, subscribe, restore the retained summary within 10 s, unsubscribe, then route messages, publish summaries, toggle the dimmer, ping; reconnect after an error | broker; `UPDATES` to the display; `SUMMARY_PUBLICATIONS` from it; dimmer commands from the key |
| display task (`main.rs`) | `dashboard` | receive one update, drain the rest, apply them, queue a snapshot, draw | the two channels, the clock, the panel |
| dashboard (`model.rs`) | last readings, three `HourlyData` series | `apply`, `append_value`, `mark_restored`, `update_combined_solar` | called by the display task |
| routing (`routing.rs`) | none | topic and JSON to an `Update` | called by the mqtt task |
| clock (`clock.rs`) | `CLOCK`: an anchor of UTC to monotonic time | SNTP every six hours, retry after a minute; `now`, `utc_now` | read by everyone |
| panic store (`panic_store.rs`) | the flash partition `panic`, `PANIC_FLASH`, `FLASH_BUSY` | `initialize`, `persist` in the handler, `clear`, `with_storage` | `main`, the log forwarder, the OTA task |
| logging and forwarder (`logging.rs`, `structured_log.rs`) | `STRUCTURED_LOG_QUEUE` (one place), the message in hand | enqueue or drop, send, retry a panic, clear it | Victoria Logs, the panic store |
| OTA task (`ota.rs`) | the app slots, otadata, the upload in progress | erase, write, digest, activate, confirm | a TCP sender, the bootloader |
| Wi-Fi (`net.rs`) | `reconnect_delay_secs`, the link, the address from DHCP | connect, wait for the link to go, back off | the mqtt task waits for its address |
| key (`buttons.rs`) | `OVENPLAAT_DIMMER_COMMANDS` (eight places) | debounce, queue a toggle or drop it | the mqtt task |
| renderer (`renderer.rs`, `font.rs`) | the frame that is being drawn | five rows, the graph of the day, the lines of a text | called by the display task |
| allocator guard (`lib.rs`), display, board, config, formatting | constants, one flag | I/O, wording | |

All tasks but three (buttons, log forwarder, OTA) are futures of one `join5`; all
tasks run on one executor and give way only at an `await`. So between two awaits a task
is atomic, and that is the grain of the actions. Interrupts matter only to the
panic handler, which may cut in anywhere.

What makes each part correct, and what is hard about it:

* **Summary synchronisation.** The retained summary is read once per session and
  written once per UTC hour, by a device that may reboot or reconnect at any moment. It must never be
  replaced by a history that lacks what it held, never be echoed back, never be published
  twice in an hour, and go on being published. The snapshots travel
  through a one-place channel that coalesces, the restored summary through one that
  drops its oldest item.
* **Hourly history.** A bucket is the last reading minus a baseline; baselines
  come from the first reading of an hour, from a restore, or from a meter that
  restarted, and vanish at midnight. The buckets must show what was used.
* **Panic forwarding.** A record must survive until the log server has it, and only
  whole records may be believed.
* **OTA.** Whatever fails, the selected slot must start.
* **Live readings.** They share a channel that drops its oldest item, whatever topic that is
  of, and several are applied before one frame is drawn. What the panel shows must have been sent,
  must not go back, and must belong together; the last value of a topic must arrive, bursts aside.
* **What the device sends.** A press of the key is a publication of QoS 1, the summary another, and the
  client keeps one unacknowledged publication, under one identifier, over connections. A press must not
  disappear unnoticed, and the two must not keep each other from being sent.
* **Reconnecting.** The mqtt task can fail in seven ways before it has a session. Each must lead back
  to the next attempt, and the delay of the Wi-Fi link must start again from two seconds.
* **Frame.** Cells overlap, rows share pixel rows, and what is drawn later covers what was drawn
  before. No text may be hidden whatever the status is, and the graph must keep to its row.
* **Text layout.** One pass with a running width and a remembered one; no letter may get lost
  at a break, and no line may exceed its cell.

## The modules

| module | what it is |
|---|---|
| `Channels` | `queue_update` and `queue_summary_update`, the two channel policies of `mqtt.rs` |
| `SummarySync` | the mqtt task, the display task, both channels, the clock, the broker's retained message; composes `Channels` |
| `HourlyData` | `append_value`, `mark_restored`, the wire form, as pure operators |
| `HourlyReadings` | `HourlyData` against a definition over the whole list of readings |
| `HourlyHistory` | meters, readings, calendar, publication and restore around one `HourlyData` |
| `PanicMailbox` | *abstract*: what the device promises about its panics: a mailbox for one report, emptied by the server |
| `PanicForwarding` | panic handler, partition, log queue, forwarder, server, OTA's use of the flash; refines `PanicMailbox` |
| `InstalledImage` | *abstract*: what the device promises about its firmware: one installed image, replaced in one step |
| `OtaUpdate` | slots, otadata, upload, bootloader; refines `InstalledImage` |
| `LatestValues` | *abstract*: what the panel promises for live readings: per topic, values that were sent, never an older one |
| `UpdateDelivery` | `decode_update`, `queue_update`, the display loop and `Dashboard::apply` for live readings; composes `Channels`, refines `LatestValues` |
| `WifiConnection` | `connection_task` of `net.rs` and the address of the stack |
| `MqttOutbound` | key, command channel, the outer loop of `run()`, the arms of `select4` that publish, the client's one identifier, the broker's answers; extends `WifiConnection` |
| `TextLayout` | `layout()` of `font.rs`: how a text is broken into lines, a turn of the loop at a time |
| `EnergyGraph` | scale, guides and bars of `render_graph`, as pure operators |
| `DashboardFrame` | `render()`: the rows of a frame in order, each with its fills, lines and text cells; extends `EnergyGraph` |
| `MCRendering` | composes `TextLayout` and `DashboardFrame` for their run |
| `MC*` | the calendars and small sets of the runs |
| `*Proofs` | the theorems |

### Correspondence with the code

* `SummarySync`. A *summary* is abstracted to its UTC date and the set of hours it
  holds; a *history* (`HourlyData`) to its date and set of hours. `Connect` to
  `Unsubscribed` are `run_session` up to its loop, one action per await;
  `TakeSummary`, `PublishSucceeds`, `PublishFails` are one arm of `select4` with its
  await inside; `ReceiveLive` and `IgnoreSummary` another. `DisplayReceives`,
  `DisplayDrains` and `DisplayQueues` are the three parts of the loop body, taken in order and
  interleaved with nothing that the executor would not let in. `BrokerMayRetain` is what becomes of
  a publication: `publish` returns when the packet is sent, so the broker has it
  or not. The broker's session never expires (`mqtt.rs:210`), so what one session has not taken may be
  delivered to the next (`MayBeDeliveredAgain`).
* `HourlyData` has the fields of the Rust struct; a wire form is the two arrays
  that are serialized. Energies are integers (meter steps), not `f64`.
* `HourlyHistory` replaces the protocol by two atomic steps, `Publish` and
  `Restore`, that may happen whenever `SummarySync` lets them; a restore before the clock is set takes a summary of any date
  and leaves no stamp (`mark_restored_without_time`), one after it compares dates. `Report` is
  `Dashboard::apply` of a grid update (one meter), or of the two solar updates with
  `update_combined_solar` (two). What really happened is in history variables: what was used in each hour, which hours had a
  restart or a fall of the total, and of which day the hours are that the series and the retained summary hold (`data_day`, `retained_day`).
* `PanicForwarding` numbers the panics: the n-th one's message is n. A flash
  operation is two actions, start and end, since a panic or a power loss can cut it short;
  nothing else runs in between, because it is synchronous. A record is torn from the start
  of an erase or write to its end; `decode` refuses a torn one (that is what magic, length
  and checksum are for: a checksum collision is left out).
* `OtaUpdate` measures an image in chunks. `slots` says which image a slot holds,
  how many chunks are missing and whether they are what was signed. `SetNew` and
  `SetNewFails` are the second otadata write of `validate_and_activate` (line 247),
  a step of its own because the first one (246) is already durable. `booted` is a history
  variable: the image that the bootloader started, which the slot it came from need not hold any more.

* `TextLayout` begins with any text whose glyphs are blanks or have one of the advances.
  The branches of the loop over the words are its actions (`Extend`, `BreakWord`, `NextLine`), the
  inner loop over the glyphs of an overlong word is `BreakGlyph`, the push after the loop `Finish`. A
  word is not stored but read off the text (`Word`), as the code's list of words never changes. Its width,
  a sum over its glyphs, is the way of the pen (`Pen`) from its first glyph to its end.
* `UpdateDelivery` numbers the values of a topic; a field of a reading is its number, so that a total of
  two inverters tells from which readings it was made. A payload is one of four kinds, as far as the
  decoders tell them apart; one that a decoder wrongly took for a value would be value 0. `Arrives` is
  `decode_event` and `queue_update` in either loop of a session; `DisplayReceives`, `DisplayDrains` and
  `DisplayDraws` are the parts of the display's loop body, during which nothing is queued since there
  is no await in it. The hourly series of the same `apply` are in `HourlyData` and `HourlyHistory`.
* `MqttOutbound` names the place of `run()` (`mqtt`): one action per await of the outer loop, with its
  errors and timeouts in `AttemptFails`, and `SessionEnds` for what follows an error in `run_session`
  (abort, keep the client's session, wait ten seconds). `TakeSummary` and `TakeToggle` have the priority
  of `select4`; `Accepted` is the client's answer to `publish` or `republish`. The client's session is
  `pending`: none, or the publication last sent under the one identifier. Commands and packets are
  counted, not listed, since all toggles are alike.
* `WifiConnection` has the three awaits of `connection_task` as states. A lost link takes the address
  with it, at once or by the next attempt (`MayLoseAddress`); `wait_for_disconnect_async` may also fail while the link is up
  (`net.rs:26`), and then the address stays. DHCP gives one.
* `DashboardFrame` records what is drawn (`painted`), in the order of the calls: fills and lines of a colour,
  and the cell of each text or icon. What one call after the other draws is one batch each (`InTurn`); all
  draws of the graph are one batch, as it has no text and their order among themselves hides none. A row is an action; what a status chooses (split production, battery segments,
  inverted cells, backup heater) is chosen freely. Rectangles are the code's, in pixels.
* `EnergyGraph` divides exactly before it cuts to pixels, where the code computes in `f32` and `f64`.

Left out on purpose: payload formatting (the buffer is sized for the largest summary, a
test of `mqtt.rs` checks that), the fields of the dashboard that are only shown,
HMAC (an upload in the model has an authentic header), JSON, DNS, TCP.
Time is counted in UTC hours and never goes back in `SummarySync` and
`HourlyHistory`; `HourlyReadings` takes *any* sequence of local times, so
the repeated hour of October and a clock that is set back are in it.

## The runs

| run | checks | shows |
|---|---|---|
| `sync_safety` | `TypeOK`, `PublishedOncePerHour`, `PublishedIncludesRestored`, `RestoredIsNotEchoed` | all interleavings of both tasks over four hours and two midnights, with reboots, failed publications, bursts that overflow a queue of two, lost, retained and repeated publications (2.6 million states) |
| `sync_hourly` | `StarvedOnlyAtMidnight`, `HourlySummaryUnlessStarved` | two days, bursts that fit the queue, every failure, under fairness: an hour in which a session lives and the clock is set gets its publication unless the session is *starved* of the snapshot with the summary it restored, and only a local midnight starves it (673,000 states) |
| `sync_starved` *(violated)* | `HourlySummaryRepublished` | within one day already, a burst drops the restored summary from `UPDATES`; the session then waits for its snapshot and never publishes |
| `sync_timezone` *(violated)* | `TodaysSummaryRestores` | between local and UTC midnight a summary carries yesterday's UTC date; after UTC midnight its hours are not restored |
| `history_safety` | `BucketsAreRuns`, `BaselinesAreTodays`; `TypeOK`, `NeverOvercounts`, `NegativeOnlyIfTotalFell`, `BucketGrows`, `MisdatedHasACause` | after every sequence of readings, each bucket shows the energy of the last uninterrupted run of readings of its hour, today; and a series behind one meter or two, with reboots, restores before and after the clock is set, hours without a reading and a meter restart: no bucket of one meter exceeds what was used, none is negative unless the total that was read fell in its hour, a reading takes nothing away, and the hours of another day pass for today's in two ways only (2.6 million states) |
| `history_blind` *(violated)* | `ReadingsStampOnlyToday` | a summary of an earlier day, restored before the first SNTP answer, is taken for today's by the first reading after it |
| `history_outage` *(violated)* | `ReconnectKeepsFinishedHours` | a reconnect restores an older summary over the live series |
| `panic_forwarding` | `TypeOK`, `OnlyPersistedIsReported`, `RecordKeptUntilAccepted`, `ImplementsMailbox`, `RecoveredPanicIsForwarded` | three panics at any point, against warnings, OTA, refused and unanswered requests, power losses; all of it implements `PanicMailbox` |
| `ota` | `TypeOK`, `SelectedSlotStarts`, `OnlyRunningImageIsConfirmed`, `InstallsInOneStep` | three uploads, good and bad, with failures at each step; all of it implements `InstalledImage` |
| `delivery` | `TypeOK`, `OnlyBurstsLoseUpdates`, `ShowsSentValuesInOrder`, `EventuallyShown` | five topics, one per kind of decoder, the two inverters and a topic that is ignored: the display over the lossy channel implements `LatestValues`, and only a burst as long as the channel loses the last value of a topic (22,500 states) |
| `outbound` | `TypeOK`, `DelaysFollowTheOutage`, `PressesAccountedFor`, `BlockedUntilNewSession`, `SessionSettlesOrIsBlocked` | presses, summaries, a link that is lost, a connection that fails, lost PUBACKs and a broker that forgets the session: every press is accounted for, and the device gets back into a session that lasts unless a command is blocked (114,000 states) |
| `rendering` | `EveryLetterDrawn`, `LinesFit`, `WidthIsDrawn`, `BreaksAreNeeded`; `TextsStayReadable`, `GraphStaysInItsRow`, `SidesShareTheScale`, `FullestHoursFillTheGraph` | every text of up to seven glyphs: no letter is lost, lines fit and have the width they are centred by, and break only where they must; and every frame over 343 days: no text covered by a fill, a line, a bar or a text that has no business there, the graph within its row, to one scale, no smaller than it need be (244,000 states) |

The violated runs are disagreements between what a document of the repository
says and what the code does; `PROJECT.json` quotes the line under `findings`.
Three deserve a second look by the maintainers. `sync_starved` silences a whole session
(the device needs a burst of more than the depth of `UPDATES` between the restored
summary and the next turn of the display). `history_blind` shows and publishes
yesterday's graph as today's: `apply` takes any summary before the clock is set (`model.rs:278`) and leaves
no date that `append_value` could compare (`model.rs:289`, `121`), and MQTT may well be up before SNTP has answered. `history_outage`
takes energy away from a graph that was right.

A session can be starved without any burst, too. `queue_incoming_update` and the display task each read the clock
(`mqtt.rs:409`, `main.rs:233`). When local midnight falls between the two, the session awaits a snapshot
that the display, which refuses the summary as yesterday's, never marks, and publishes nothing until it ends.
`StarvedOnlyAtMidnight` says that this and an overflow are the only two ways.

One more is visible in `panic_forwarding` without a run of its own: the repository's `README.md`
(line 22) says that a recovered panic is retained until the log server accepts it, but a second
panic before that erases its record (`panic_store.rs:199`). `RecordKeptUntilAccepted` therefore
excepts the handler of a newer panic.

Five more facts that the properties state as their conditions or alternatives:

* A restored baseline of 0.0 is taken for none (`model.rs:167`), so the bucket of that hour starts
  again with the next reading. `PORTING_PLAN.md:332` asks to "track whether an hourly baseline exists
  instead of treating `0.0` as unset"; `BucketGrows` excepts this bucket.
* A bucket becomes negative when the total that was read falls within its hour and a restore has made the code forget the
  last reading (`model.rs:155`), although `PORTING_PLAN.md:335` asks for no negative spikes. With one meter only a
  restart of the meter makes the total fall; the solar total of two inverters also falls when a reboot forgets both and
  one has not been heard again (`model.rs:305`). `NegativeOnlyIfTotalFell` says that nothing else does. A negative bucket lowers the
  sum from which the scale of the graph is made, and the bar of the other direction then leaves the graph
  and crosses the rows above it: `GraphStaysInItsRow` and `TextsStayReadable` hold where no
  bucket is negative, and fail without that condition.
* The hours of one day pass for another's in two ways: the blind restore of `history_blind`, and a series that no reading
  has reached since local midnight, published after UTC's midnight under the new date (`main.rs:254`), which a later restore takes
  for today's. `MisdatedHasACause` says that there is no third.
* A command that meets a publication whose PUBACK was lost with its connection is refused by the client,
  queued again, and ends the session. Nobody repeats the publication or its PUBACK, so the next session ends on
  the command too, and so on every ten seconds until the broker begins a new session. A summary in between goes out under
  the same identifier and does not help. `SessionSettlesOrIsBlocked` has this as its second
  alternative and `BlockedUntilNewSession` states it.
* A burst may drop the only value of a quiet topic; the panel then shows an older value until the topic
  is published again. `OnlyBurstsLoseUpdates` and `EventuallyShown` except it.

### Bounds, and why they are enough

* `UPDATE_QUEUE_DEPTH = 2` (the firmware has 8): overflow, and a queue with
  something before and after the restored summary, both happen; the proofs hold for any depth.
* `MaxTime = 3` with days of two hours and local midnight an hour before the UTC
  one: two UTC days and three local days begin or end, so each mix of equal and different
  dates occurs. `sync_hourly` has the first three of these hours and no time zone, which makes one change of hour within a day and one with
  midnight; `sync_starved` needs one day. `history_safety` has two meters or one, chosen at the start.
* `MaxEnergy = 2`: a baseline of zero, one that is not, and a difference.
* `MaxReadings = 4`, `MaxCumulative = 2`, `MaxDate = 1`: a run, its interruption by an hour, a date or a
  restart, and its continuation. These behaviours of `history_safety` (`TakeReadings`) end in states with no successor, hence
  `CHECK_DEADLOCK FALSE`. `MaxUse = 1`, `MaxRestarts = 1`: one unit of energy an hour, one restart a day.
* `MaxPanics = 3`: one to be forwarded, one that cuts in, one after it. The log
  queue has its real capacity, one.
* `SlotChunks = 2`, `MaxUploads = 3`: a first chunk and a last one; factory to
  `ota_0` to `ota_1` and back.

* `max_width = 4`, `Advances = {1, 2, 4}`, `MaxText = 7`: a glyph that fills a cell, words that
  fill one exactly, words wider than a cell after and before others, three lines. The layout ends,
  hence `CHECK_DEADLOCK FALSE`.
* `delivery`: a channel of two and two values per topic: with five topics it overflows with values of the
  same topic, of another, and of both inverters. The proofs hold for any depth, topics and values.
* `outbound`: a command channel of two (eight in the firmware) and three presses: one queued, one in hand, one
  that is dropped. One lost link, one failure over an intact one and one summary: any of them at any step,
  a PUBACK lost and a command behind it, a summary in its place. When they are used up the device
  rests, hence `CHECK_DEADLOCK FALSE`. The proofs hold for any bounds.
* `rendering`: bars in two hours (12 and 23), so that the maxima of a sum and the sum of maxima differ, and
  seven energies for the first of them around the limits of scale and guides: below
  zero, zero, one, just under 1 kWh and the guides, above them. Pixels are the real ones.

### Assumptions, by name

* `BurstsOverflow` (`SummarySync`): FALSE says that no burst exceeds `UPDATES`
  before the display task gets its turn. Midnights come in any case.
* `BrusselsAssumption` (`HourlyHistory`): local midnights come before those of UTC, and the hours of a local
  day never go back (in October one is repeated). West of Greenwich yesterday's buckets could be restored as today's.
* Nothing is assumed of the meters: they may be silent for hours and restart at any time. `NeverOvercounts` speaks of a series behind one meter, since with two an
  inverter not heard since the boot counts as zero, and its first reading adds its whole day to the running hour (`model.rs:305`).

* `LayoutAssumption` (`TextLayout`): no glyph is wider than its cell. `BlanksApart` restricts
  `LinesFit` and `WidthIsDrawn` to texts without two blanks in a row: the second one, at the end of a
  line, starts the next line with a width of 0 although it is drawn (`font.rs:303`). The
  dashboard's only such text is a date with a one-digit day, in a cell that holds it on one line.

* `DelayAssumption` (`WifiConnection`): the two delays are those of the code, since `Delays` lists the
  schedule that follows from them.
* otadata is written in one piece (`OtaUpdate`): of a write that is cut short the old selection or state remains. So its reset
  in `prepare_target` (`ota.rs:195`), for an otadata that cannot be read, is not reached in the model, and `SelectedSlotStarts` and
  `InstallsInOneStep` say nothing of a torn state write (`ota.rs:79`, `247`).
* The log server accepts a record that is sent often enough (`SendEnds("accepted")`). A panic message that is cut at 1024
  bytes (`logging.rs:196-236`) may never be accepted, and is then sent for ever.
* The MQTT client, as far as its use in `mqtt.rs` shows it: it accepts no second unacknowledged publication
  (`SEND_MAXIMUM = 1`), keeps an unacknowledged one over connections (`session = client.session().clone()`), and
  forgets it with a PUBACK or when the broker has no session any more. What it does with a second PUBACK
  is left open: both outcomes are in `Puback`.

### Fairness

`sync_hourly` assumes weak fairness of the display task, of the steps of a session and
of live messages (`ReceiveLive`): the executor polls every
ready task, `join5` polls each of its five futures
whenever it is polled (`DisplayPolled`), and the meters keep sending while a session lives, without
which the display has nothing to make a snapshot of. It assumes strong fairness of
`RestoreEnds` and `TakeSummary`, which are only now and then enabled: `select` polls
the deadline first and `select4` the summary channel first, so a stream of live
messages does not starve them. Failures and reboots need no fairness, and
the property excuses a session that ends, and one that is starved: the snapshot it
waits for is not on its way, so no fairness brings it.

`panic_forwarding` assumes that the executor polls the forwarder although flash
operations and warnings come between (strong fairness of `Receive` and `Retry`), that flash operations
end, and that a server asked again and again accepts some time
(`SendEnds("accepted")`). The second is an assumption about the world; without it
there is nothing to show. The property excuses a boot that ends.

`delivery` assumes weak fairness of the display task only. Nothing more is needed: while it drains
nothing can be queued, and publications need not come.

`outbound` assumes of the device that its tasks are polled and its timers expire: each await of `run()` ends, with
success or with its error or timeout (weak fairness of `AttemptFails \/ Resolved \/ Dialed \/ Greeted` as one action, so that
success is never promised), a dead link is noticed by the socket's timeout, and `select4` takes what is
ready. Of the world it assumes that an access point that is tried again and again lets the station in
(strong fairness of `ConnectSucceeds`), that DHCP answers, and that the broker receives and acknowledges
what is on its way. `MaxDisconnects` and `MaxFailures` are what "once the network stays up" means: after that
many faults there are no more, so the property speaks of the time after any finite number of them.

## What is proved

The theorems hold for all values of the constants under the modules' `ASSUME`s
(types of the constants, the shape of the calendar functions, `None` being no value
of the types it is joined with).

* **`SummarySyncProofs`**: `TypeCorrect`, `AtMostOncePerHour`, `NothingRestoredIsLost`, `NoEcho`, `StarvedByMidnightAlone`.
  The properties are not inductive: they speak of what is published, and what
  matters is what is under way. The inductive invariant follows a restored summary
  through its stages: in `UPDATES`, applied to the dashboard, in
  a snapshot of `SUMMARY_PUBLICATIONS` with its watermark, in the hand of the mqtt
  task. As long as the session waits, snapshots without a watermark are suppressed;
  once it does not, every snapshot in sight holds the restored hours and the watermark is at
  least the hour of the restore. Publications carry the hour of the snapshot, and
  the watermark moves to it, so a second one in that hour is refused. That nothing but an overflow or a midnight breaks the chain of
  stages is `StarvedByMidnightAlone`.
* **`HourlyReadingsProofs`**: `BucketsShowRuns`, `BaselinesOfToday`, by induction over the
  readings as steps of the specification: the definition over the history is rewritten
  for a history with one more reading, case by case as `append_value` branches.
* **`HourlyHistoryProofs`**: `HistoryTypeCorrect`, `TwoWaysToMisdate`, `NothingOvercounted`, `NegativeNeedsFall`, `ReadingsAddUp`, for one meter or two, with no
  condition on what the meters do. The buckets alone are not inductive, for three reasons. A
  reading is counted from a baseline, so the invariant says what the counter and the highest reading can be as long as the baseline of
  the running hour is one (`Counting`), and that the hours to come have none (`Ahead`). A restore turns
  the retained arrays into the series, so all this must hold of the broker's copy too (`Backed`, `Retained`). And the stamp of a
  series, or the date of a copy, need not be the day of its hours, so both are bounded by that day as it really is (`data_day`,
  `retained_day`): what holds hours of today is backed by what was read today, whatever its date says, and what holds none is
  empty (`Blank`). `MisdatedHasACause` needs only that no date is of a day to come (`Dates`, from `BrusselsAssumption`).
  What `append_value` and a restore do to each field is the first part of `HourlyReadingsProofs`, for both modules.
* **`PanicForwardingProofs`**: `PanicTypeCorrect`, `OnlyWholeRecords`,
  `NoRecordIsForgotten`, `ReportsAreMailed`. In one boot every message that is not a warning is of
  the recovered panic (`ReportsAreRecovered`), and the partition holds no other until a
  handler runs (`FlashIsRecovered`); hence `clear`, called after an answer to *some*
  message, erases the record of *that* message. `ReportsAreMailed` is the refinement of `PanicMailbox`: `record` is
  what `decode` finds in the partition, `handling` whether the handler runs. An erase that begins is `MakeRoom` or
  `TakeOut`, the end of the write `Deposit`, and `SendEnds` is a delivery, whether the device learns of it or not. That the report is
  in the mailbox when it is delivered takes two more facts: there is one report per boot, the first message of the
  queue (`FirstInQueue`), and as long as it waits or is sent again its record is whole (`HeldUntilAccepted`).
* **`OtaUpdateProofs`**: `OtaTypeCorrect`, `AlwaysBootable`, `ConfirmedIsRunning`, `ImageIsReplacedAtOnce`. The
  slot under way is not the selected one and lacks what is not yet
  written (`UploadAccounted`), so a matching digest at the end means a whole signed image. `ImageIsReplacedAtOnce` is the
  refinement of `InstalledImage`: chunks, erases and failures are stuttering, `Activate` alone installs, because the slot under way holds
  the image of the newest upload and nothing of an older one (`Numbered`), and the bootloader starts what is selected
  (`BootedIsInstalled`). It also holds after a failed `set_current_ota_state`, which answers ERR for an image that is installed.
* **`UpdateDeliveryProofs`**: `DeliveryTypeCorrect`, `LossNeedsABurst`, `ImplementsLatestValues`. The last is
  the refinement: publication maps to `Send`, the frame to `Refresh`, the rest to stuttering. The panel
  alone is not inductive; the invariant says of each topic that what the panel shows, what
  the dashboard holds and what is queued are values in this order, none above the last one sent
  (`Ordered`, `Drawn`), that the totals are those of the two readings (`Totals`), and that the last value is still
  in the channel, at the place its `since` says, or is on the dashboard (`Placed`).
* **`MqttOutboundProofs`**: `OutboundTypeCorrect`, `RetriesBackOff`, `TogglesAreAccountedFor`, `BlockedCommandsWait`.
  The delay is known in every state of the link, not only while waiting (`WifiInv`); the ledger of presses
  is kept by each action once one knows that nothing is on its way outside a session (`Empty`), which is why a
  new session starts from empty wires; a blocked command stays blocked because `Accepted` refuses it and
  `Reads` does not let a PUBACK in before it.

* **`RenderingProofs`**, the frame: `FrameReadable`, `GraphInItsRow`, `OneScale`, `FullestHours`, for any set of days. What is said of
  a frame is about pairs of draws, so it is built up from the smallest part: a cell is readable by itself and keeps to its
  box (`Part`); boxes that share at most a border do not disturb each other (`TwoCells`), texts of different boxes meet only where
  they are laid over one another (`Spaced`), which gives the
  rows; a row lies below what is drawn before it, which the invariant remembers (`FrameInv`: all is above `Top[row]`). The graph
  is the one part whose place is computed: the scale divides by a maximum of sums, so each product of a bar and a side's
  height is bounded (`GraphWithin`), and cutting to pixels loses less than one of them.
* **`RenderingProofs`**, the text: `LettersDrawn`, `LinesFitCell`, `DrawnWidths`, `NeededBreaks`, for texts of any length, glyphs of any advance and cells of
  any width. The inductive invariant (`LayoutInv`) says that a word begins where the loop is (`Words`), that between the finished lines there
  are only blanks (`Covered`), that `range_width` counts no more than the line holds, nothing only where it holds no letter, and exceeds
  the cell only behind a blank (`Counted`), that each finished line was ended by what did not fit (`Needed`), and, without two blanks in a
  row, that the counted widths, `width_before_last_blank` too, are those of the glyphs (`Measured`). A turn of the
  loop does one of four things to the lines (`Moves`), and the parts are preserved by these.

Two lemmas are about data of any size: that a maximum exists (`MaxOfHours`, for the scale) and that the recursive function of
the pen's positions exists and is monotone (`PenExists`, `PenSteps`, `PenRises`). The induction theorems of the library take an operator, which the installed
provers cannot instantiate; these proofs take the least counterexample instead (`LeastExists`, from the well-foundedness of the naturals).

Each invariant and each safety property of the passing runs is stated by a theorem. Only model-checked are the liveness properties
(`HourlySummaryUnlessStarved`, `RecoveredPanicIsForwarded`, `EventuallyShown`, `SessionSettlesOrIsBlocked`): liveness under fairness
is beyond the prover. Integers stand for the `f32` of the layout and the `f64` of energies in the proofs as in the runs.

## What the properties do not say

* `PublishedOncePerHour` counts publications that succeeded. One that failed and reached the broker all the same is repeated within the
  hour, as it must be.
* `PublishedIncludesRestored` and `RestoredIsNotEchoed` are about summaries whose snapshot the session awaits; a
  summary restored before the first SNTP answer is not (`mqtt.rs:418`).
* `ReconnectKeepsFinishedHours` is about a reconnect over a live series. What an inverter that was not heard yet does to the
  total is in `NegativeOnlyIfTotalFell`.
* `RecordKeptUntilAccepted` says nothing of a record that a newer panic replaces.
* `TextsStayReadable` has each text's cell free of fills, lines, bars and other texts, except for six pairs of cells
  that the code lays over one another (`LaidOver`): the two solar productions (`renderer.rs:139`), date and time
  (`renderer.rs:332`), the icon of the backup heater in the cells of its power (`renderer.rs:408`), and the icons of the indoor
  cell. Their contents are kept apart by alignment and by how wide they are, which is not modelled. Days with a negative bucket are excepted,
  from `GraphStaysInItsRow` as well.
* `BlockedUntilNewSession`: `Puback` reads a PUBACK in one step, where the code takes its header and its body in two awaits
  (`mqtt.rs:298`, `321`). A press between the two finds the identifier taken for a moment and is not blocked by it.
* `decode_json`'s own check for trailing data (`routing.rs:77`) is in the model as the decoder makes it: refused as an invalid payload, as a test
  of `routing.rs` shows.

## What is not modelled

* SNTP arithmetic and the time-zone rules: `ClockSync` is one step from no time to the time (in
  `HourlyReadings` times are arbitrary). The effect of a clock that is set back on the once-an-hour watermark
  is therefore not checked.
* The rollback of a bootloader that finds `PendingVerify` again: the bootloader is not part of
  the repository and the model leaves the selection as the firmware wrote it. A second
  upload after a failed `set_current_ota_state` is modelled, and overwrites the
  running slot; no property forbids it (see `hazards`).
* Durations: the watchdog, the ten seconds of a restore, the 120-second socket timeout are
  steps that may happen at any time. Pings and the subscriptions of a session are requests that may fail.
* The placement of glyphs within a cell (`draw`, `visit_layout`), the bitmaps, and the wording of texts
  (`formatting.rs`): arithmetic on `f32` and tables, compared by the repository's tests with reference images.
* The allocator guard (a size test), display, board and configuration (pins, constants, SPI), the font
  generator of the build, the simulator, the OTA sender and the benchmarks: no decisions that
  interact with the above.

## Plan

The order is that of importance. Done:

1. `Channels`, `SummarySync`: how the history survives (with proofs).
2. `HourlyData`, `HourlyReadings`, `HourlyHistory`: what the history says (with proofs).
3. `PanicForwarding` (with proofs).
4. `OtaUpdate` (with proofs).
5. `LatestValues`, `UpdateDelivery`: live readings, as a refinement (with proofs).
6. `WifiConnection`, `MqttOutbound`: what the device sends (with proofs).
7. `TextLayout`, `EnergyGraph`, `DashboardFrame`: what the panel shows.

8. Proofs for `HourlyHistory`: one meter or two, restores with a clock and without.
9. Proofs for what the panel shows.
10. `PanicMailbox` and `InstalledImage`, which `PanicForwarding` and `OtaUpdate` implement (with proofs).

Next:

11. The anchor of the clock, resynchronization that sets the time back, and its effect on the watermark.
