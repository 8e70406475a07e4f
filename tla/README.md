# A verification project for the Wordclock firmware

The Wordclock is a C++ firmware that tells the time in words on a matrix of LEDs. It runs on an
ESP32, an RP2350 and an AVR, and in a simulator. The core (`src/firmware`) is the same everywhere;
a platform (`src/platform/*`) gives it pixels, a port, a clock, a store and, where it has one, a
web server.

This directory holds TLA+ models of that firmware, the configurations that check them with TLC,
and proofs that TLAPS checks. Every definition is translated from the code; where a comment, a
header or a document of the repository says something else, section 6 says so.

- [1. The system](#1-the-system)
- [2. The modules and the code](#2-the-modules-and-the-code)
- [3. The runs](#3-the-runs)
- [4. Fairness](#4-fairness)
- [5. The proofs](#5-the-proofs)
- [6. What the code does otherwise](#6-what-the-code-does-otherwise)
- [7. What is not modelled](#7-what-is-not-modelled)
- [8. The plan](#8-the-plan)

## 1. The system

### How it runs

One loop runs every 10 ms (`main.cpp` of each platform): the tasks of the core, then
`Pixels::Render()`, then the broadcast of the display to the browsers, then a restart that was
asked for. `Scheduler::TriggerTasks()` calls the tasks in one fixed order, each when its countdown
is over:

    RealTimeClock, then Illuminance, Temperature, DisplayManager, Animations, Communication,
    Overlays, Text, Persistence, Uptime, NightSwitch, ColorCycle, Power

So most of the program is sequential, and what makes it hard is the order: a dozen state machines
act on the same display one after another in a tick, and commands of a hand come in the middle of
that order. Concurrent with the tick are: the peripheral that shifts a frame out to the strip (an
interrupt on the AVR, a DMA channel on the RP2350), the time, the AVR's console port and timer,
and on the ESP32 the web server's task, which injects characters, keeps the table of the browsers
and prints. Pages connect, send and leave when they like, a bus or a write may fail, and at any
moment the power may go.

### The components

| Component | State | Operations | What would be wrong |
|---|---|---|---|
| Scheduler | a countdown for each task | `Task`, `IsDue` | a task that comes late, twice, or never after its cycle changed |
| Power, PowerSwitch | on, off, settling, blanking; the switch's port | `SwitchSupplyOn/Off`, `Task` | a frame into a strip without supply; a picture left on a strip whose supply is cut; a wait that never ends |
| Pixels, WS2812 | buffer, master brightness, dirty mark, output gate; the frame on the wire byte by byte | set, enable, suspend, `Render`, interrupt or DMA | the strip shows something else than the buffer with nothing owed; half of each of two pictures |
| Display | colour, brightness, night and fade level, current limit, the lit pixels | enable, disable, toggle, the passes that redraw, the shifts | a display that is off lights up; letters in another colour than the one that is set; more current than the supply has |
| NightSwitch | active, was it night, supply cut for the night, hours, night brightness | `Task` (both edges), set, reset | the evening is not undone in the morning, or undoes what a hand did in the night |
| ColorCycle | active, hue, speed | `Task`, set | redraws a display that is off and holds Power's wait open |
| DisplayManager | last words, "an overlay was showing" | `Task`, refresh, start, abort | the clock face does not come back |
| Animations (15 of them) | which one, mode, favourites, a union of counters, its target | select, start, `Task`, abort | two drawers at once; an end on the wrong time; a run without end |
| Overlays (5 of them) | state, timer, endurance, period, dates | `Task`, show now, abort, on, off | two shows at once; a show without end; one that is due and never starts; a day too many |
| Text, Font | string, column, idle or shifting | show, `Task`, stop | letters over the clock; a pointer outside the buffer |
| Persistence, Storage | settings as last saved; the blob | `Load`, `Task`, `Save`, `Reset` | a setting lost, a store worn, a blob half written and believed |
| RealTimeClock, DS3231, TimeSync | cached time, the chip with its flag, when it was written | `Task`, set, SNTP callbacks | chip, system and cache out of step; a time that is nobody's |
| Clock, ClockWords | mode | time to words | the wrong words |
| Communication, Message, MessageParser | a line, whether it is complete, too long; the options read so far | `Task`, parse, the handler of each option, `Process` | a command cut short, doubled, glued to another; an option that means another |
| WordclockSerial, SerialPort | the ring of injected characters; the line being printed; two queues on the AVR | `Inject`, `available`, `read`, `print`, `flush`, handlers | a character lost, doubled or overwritten |
| WebFrontend, WebInterface, WebHost | table of clients, forced frame, countdown, last frame, upload | open, close, broadcast, upload, answer | a browser that gets nothing, gets it twice, or gets another one's; half an image booted |
| System | a restart that is pending, network credentials | restart, set, join | a restart in the middle of something; half a pair of credentials |
| Illuminance, Temperature, Uptime, GammaCorrection | readings, counters, tables | read, calibrate, convert | arithmetic at its limits |
| Timer (AVR) | counter, TOP, double buffers, callback | set period, PWM, attach, interrupt | a counter past its TOP; a callback for an old overflow |
| Simulator | the dialog that builds a command, the decoder of answers | pick, tick, send, read back | a line that means something else than the ticks |

### How they interact

- Everything that draws writes the buffer of `Pixels` and so marks it dirty; `Render()` clears the
  mark. `Power` waits for that mark and for the wire before it cuts, so whatever draws every tick
  is part of the question whether a cut ever comes.
- `NightSwitch`, `Power`, the flicker animation and the commands all switch one display.
- `DisplayManager` looks at `Overlays` once a tick. `Communication` runs between the two looks.
- `Overlays` aborts the animation it finds running; `DisplayManager` starts one when words change.
- `Text` reads the buffer of the overlay that shows, which a command may rewrite.
- `Persistence` reads the settings of the modules and writes them back into them at a start.
- The ESP32's server task shares with the tick the ring, the table, one flag and the line buffer;
  an upload on either board shares a record and the partition with the loop that restarts.

The hazards that follow from this are listed at their lines in `PROJECT.json`; the properties are
aimed at them.

## 2. The modules and the code

A record that stands for the members of the singletons goes through one operator per method
(`Enable(c)`, `CutSupply(c)`), so a task of the code reads as the composition of the calls it makes.
`phase` is the next task of the tick where several tasks are modelled: every task is one action,
and the commands are actions that only `phase = "command"` lets in. Where the platforms' code is
the same line for line, the map of `PROJECT.json` points at either board.

| Module | What it is | Code |
|---|---|---|
| `Rail` | abstract: rail, gate and data line of a strip that is switched | Power.h, Pixels.h |
| `Supply` | Power, PowerSwitch, Display's switches, Pixels' mark and gate, as operators | Power.cpp, Display.cpp, esp32 Pixels |
| `NightSupply` | the tick of the supply: drawing, commands, NightSwitch, ColorCycle, Power, render, wire, restart. Refines `Rail` | NightSwitch.cpp, ColorCycle.cpp, Scheduler.cpp, Pixels.cpp, main.cpp |
| `Strip` | how a frame gets to the strip: fill, start, feed, transmit complete, latch; both drivers | avr-dx WS2812.cpp, rp2350 WS2812Pio.cpp, their Pixels.cpp |
| `SerialPort` | the AVR's console: two queues, three handlers, `flush()`. Refines `Inbox` twice | avr-dx Arduino.cpp |
| `Peripherals` | the three side by side | avr-dx main.cpp |
| `LetterMatrix` | the lit pixels, the words, the shifts | Display.h, Transformation |
| `Animation`, `Animations` | the fifteen animations step by step; the one that is chosen, its modes, its end | Animation*.cpp/.h, Animations.cpp |
| `ClockFace`, `MCClockFace` | who has the display: time, DisplayManager, Animations, commands, Overlays, Text | DisplayManager.cpp, Animations.cpp, Overlays.cpp, Overlay.h |
| `TextShow` | the text that scrolls, with the fonts, the buffers and what the overlays write into them | Text.cpp, Font.h, Overlay*.h |
| `MCLetters` | a text or the animations, on one display of five columns by four rows | - |
| `DisplayLight` | colour, brightness, levels, gamma, current limit, sensor, in their integers | Display.cpp, DisplayColor.h, DisplayBrightness.h, DisplayCurrentLimit.h, GammaCorrection.h, BH1750.h |
| `CommandOptions` | how a line's options are read | MsgParameterParser.h, MsgParameter.h, the ranges of the modules |
| `Commands`, `MCCommands` | the parsers of the commands, the setters they call, the tasks between two lines | MsgCmd*Parser.h, Communication.cpp |
| `Persistence`, `MCPersistence` | settings, last saved, the blob and its checksum, writes that fail or are cut short | Persistence.cpp, the platforms' Storage.cpp |
| `MCSettings` | the lines of the commands or the store of the settings | - |
| `Inbox` | abstract: a bounded queue of characters | WordclockSerial.h |
| `InjectRing` | the ring, index by index, between two tasks. Refines `Inbox` | WordclockSerial.cpp |
| `Console`, `MCConsole` | `InjectRing` with the server's task, the port and Communication: from a frame to a command | WebFrontend.cpp, Communication.cpp, Message.h |
| `WebClients` | the ESP32's table of consoles, the broadcast that walks it, the printed lines | esp32 WebInterface.cpp, WebFrontend.cpp, WordclockSerial.cpp |
| `WebHost` | the simulator's own web server: connections, handshakes, frames in packets, documents | simulator WebHost.cpp, WebFrontend.cpp |
| `WebBackends` | the two side by side | - |
| `Board` | the RP2350's loop and server: upload, answers, credentials, network, restart, power loss | rp2350 WebInterface.cpp, System.cpp, main.cpp |
| `EspBoard` | the ESP32's half of it over the same state | esp32 WebInterface.cpp, System.cpp |
| `Timer` | the AVR's type A timer, register by register | avr-dx Timer.h, Timer.cpp |
| `Boards` | one controller of the three | - |
| `RealTimeClock` | system clock, chip, network, outages, summer time | RealTimeClock.cpp, DS3231.cpp of esp32 and rp2350 |
| `ChipClock` | that clock or the AVR's, which has the chip alone and a bus that may stop between two bytes | avr-dx RealTimeClock.cpp, DS3231.cpp, Twi.cpp |
| `ClockDate` | weekday, day counts, BCD, uptime, temperature, night window, overlay days | ClockDate.h, ClockTime.h, Uptime, NightSwitch.cpp, Overlay.h |
| `ClockWords` | time to words in the four regions' modes | Clock.cpp, ClockWords |
| `Almanac` | a clock running through days and years with all of that | - |
| `MCTime` | the sources of the time or the calendar | - |
| `MessageBuilder`, `MCMessageBuilder` | the simulator's dialog, the line it sends and the answer it decodes | simulator MessageBuilder.cpp, MessageDecoder, MessageCatalog |
| `*_proofs` | the theorems of section 5 | |

What is abstracted, and why that is enough:

- **Pixels** are "dark" or "lit" (`Supply`), one picture per drawer (`ClockFace`), bytes marked
  with the picture they are of (`Strip`), a set of lit indices (`LetterMatrix` and what extends it),
  or three LEDs with their colours (`DisplayLight`): each as far as its properties tell them apart.
- **Time** is whether it is night (`NightSupply`; it changes at will, which covers every window),
  a second and a minute of short lengths (`ClockFace`), units of which some make an hour
  (`RealTimeClock`), or the real calendar (`ClockDate`, `Almanac`).
- **A command** is the call it ends in, except in `Commands`, where it is a line of tokens: a
  number stands for its value, and what cannot be read as one is a token of its own.
  `Communication` takes one line at most in a tick.
- **A frame on the wire** stays there as many ticks as the environment likes, up to `MaxBusyTicks`,
  and may be refused by the driver. In `Strip` the feeder never lets the line run empty inside a
  frame, and the RP2350's FIFO is empty by the time a supply that was cut is back.
- **A setting** is a field with a few values, some of which its module rejects.
- **The rings** (`InjectRing`, `SerialPort`) are modelled at the granularity of the code's shared
  accesses. In `InjectRing` a look at an index is taken together with the access it guards, which
  is sound because each side's look stays true until it acts (`StillAsSeen`, which is proved); the
  consumer's relaxed load (WordclockSerial.h:122) is taken in program order, as the ESP32's compiler
  and cores keep it. In `SerialPort` an index is read whole although it has two bytes, because the
  queues have 256 slots at most and the upper byte never changes.
- **The tables of consoles** are read one slot a step by the tick and written one slot a step by the
  server's task. A send to an open socket arrives. 64-bit frame lengths and fragmented messages are
  left out of `WebHost`, and a document is its number of chunks.
- **A write of the chip's seven registers** may stop, on every board, after those within the hour, after
  the hour or before the last of the date; the registers of one of these parts are written together.
  **A BH1750 reading** is all or nothing.
- **ExplodePixels'** four quadrant scans are one operator that moves every lit pixel by one step.
- **MessageBuilder's** input field forgets its old line when another command is revealed, and an
  option's label stands for its text. Of the settings before a line it tells apart what the answer
  depends on: whether an animation is selected, pixel 0, and whether a remote procedure is refused.
  A line with several errors is answered with the one the parser meets first.
- `Show()`'s pending answers (Commands) are left to `NightSupply`; the automatic correction factor is 1.

## 3. The runs

Nine runs pass. Three state what a comment of the sources says and refute it; they are told of
below. States are distinct states; the times are those of two workers.

| Run | Module | What it shows | States |
|---|---|---|---|
| `power` | `Peripherals` | Over every order of hands, night edges, drawing, failed frames and restarts: with nothing owed the strip holds the buffer (`StripShowsTheBuffer`); what the evening did is undone (`NightLeavesNothing`); Power's wait, a frame and a restart's flush end (`WaitsEnd`); the tick implements `Rail` (`KeepsTheRailContract`); every latched frame is one whole picture, the newest is marked or under way, a dead line is quiet (`PicturesArrive`); each of the console's queues implements `Inbox` and a restart cuts off the last character at most, and that only where the shift register ran empty between the two writes of the data handler (`ConsoleLosesNothing`) | 221 thousand, 100 s |
| `clock_face` | `MCClockFace` | One drawer at a time, no letters after a show, and the display is given back after every show that DisplayManager saw and no command disturbed (`DisplayHasOneOwner`); a show lasts its seconds, and it ends (`ShowLastsItsEndurance`); one that is due starts (`DueOverlayStarts`) | 245 thousand, 30 s |
| `settings` | `MCSettings` | Of a line: what is set is what it says (`LineMeansItsOptions`); lit letters wear the colour that is to be shown, and a trail that colour dimmed (`LettersWearTheColour`); the light stays inside the budget by the limit's resolution, the automatic inside its bounds, and no change of brightness takes the face away (`LightKeepsItsBounds`). Of the store: a quiet clock survives the plug (`QuietClockSurvives`); only a hand wears the store, and a change reaches one that refuses now and then or loses its power (`StoreFollowsTheHand`) | 112 thousand, 40 s |
| `console` | `MCConsole` | The ring is a queue (`KeepsTheInbox`); every line that ends is answered once, in order and whole, or refused whole, and a browser's command arrives as it was sent (`EveryLineArrives`), and is answered (`CommandsAreAnswered`) | 400 thousand, 1 min |
| `letters` | `MCLetters` | Each of the fifteen animations, cut short, switched over and given a newer time in the middle, rests on the newest time's letters (`RestsOnTheNewestTime`), begins as a first run would and lands by itself (`RunsAreWhole`), and ends (`RunsEnd`). The display of a text is a window of the text as it stands (`DisplayIsAWindow`), and a run nobody disturbs shows all of it (`UndisturbedRunIsTheText`) | 388 thousand, 2 min |
| `time` | `MCTime` | The words, the night and the day counts are those a reference counts out minute by minute (`WhatIsToldIsTrue`); an overlay is on for exactly its days (`OverlayDaysAreCounted`); weekday, day number and the chip's coding move on by a day (`EveryDayCounts`). A time that is known is the one that was given (`ShowsTheTimeItWasGiven`); the chip is written (`ChipCatchesUp`); the time comes back without the network (`TimeComesBack`) | 170 thousand, 3 min |
| `message_builder` | `MCMessageBuilder` | For every command of the catalog: what the dialog shows as ticked is what the firmware's parser reads (`DialogMeansItsLine`), and the answer the firmware gives, which may be that it refuses a tick, is read back as what it says (`WhatWasTickedIsReadBack`) | 575 thousand, 1 min |
| `web` | `WebBackends` | A text arrives whole however it was cut (`MessagesArriveWhole`); every page is sent every line (`PagesReadEveryLine`) and shown the frame of one moment (`PagesShowOneFrame`); a console has one slot, keeps it, and is shown every display that stays (`ConsolesKeepUp`) | 429 thousand, 2 min |
| `board` | `Boards` | An image nothing disturbed is booted whole (`UndisturbedImageIsWhole`); the store holds what was entered, each value whole (`StoreIsWhatWasEntered`); the partition is let go (`PartitionIsFreeAgain`); answers are true (`AnswersAreTrue`); the counter keeps below its top (`CounterStaysBelowTop`); a clock that joins looks for the servers of the time, which it may not find (`JoinedClockAsksTheTime`) | 871 thousand, 2 min |

`settings`, `letters` and `time` each hold two models that share no variable: a variable says which of
the two a behaviour is of, the other one stands, and every property is of one of them. `settings` and
`time` run without the check for deadlock because the lines of a scenario end and the calendar does;
`letters` because an animation rests where nobody selects one and the time stands still.

What the sources say and the other three runs refute:

| Run | Module | The sources say | What happens |
|---|---|---|---|
| `flush` (`NothingIsCutOff`) | `SerialPort` | avr-dx Arduino.cpp:104-105: TXCIF is "Cleared before every character, so that TXCIF says the last one has left the shift register" and `flush()` waits on it | The shift register runs empty between the write that clears TXCIF and the one of TXDATAL. TXCIF is set again over the character just written, and `flush()`, which the restart waits for, returns with it still in the register |
| `rejected` (`RejectedIsCorrected`) | `MCPersistence` | Persistence.h:79-81: a value a module rejected "shows up as a difference on the next task and gets corrected in the store, instead of being read and rejected forever" | `Load()` gathers what counts as saved after the modules have rejected the value, so there never is a difference, and every start reads and rejects it again |
| `short_show` (`TimeIsDrawnAfterAShow`) | `MCClockFace` | Overlays.cpp:108-109: "once it ends, DisplayManager draws the time anew" | An overlay of one second, the initial endurance, that a command shows in the tick a second begins is over before DisplayManager ran: nothing is drawn anew until the words change |

`NothingIsCutOff` and `TimeIsDrawnAfterAShow` are what `ConsoleLosesNothing` and `DisplayHasOneOwner`
would say without their exceptions, so the passing runs show that nothing else takes them away.

### The bounds, and why they are enough


- `power`: four commands or restarts, anywhere between any two tasks: an order to the supply and
  the order against it take two, a night switch that is changed under way one more, a restart in
  the middle one more. `NightCycle` is 3 instead of 100: long enough for hands and frames to come
  between two looks. `MaxBusyTicks` 1: a frame is either gone by the next tick or not. The strip: a
  frame of three bytes of a position of two digits to `Base` 2, so that the carry is met; a FIFO of
  two words; two pictures, three drawings. The console: queues of one character, so that both are
  full and wrap at once; two letters, three each way. The shift
  register may run empty between the two writes of the data handler; the other handlers write one
  register each and are one step.
- `clock_face`, `short_show`: two overlays, so that one can be shown over another; endurances of 1 and 3 seconds
  and periods of 2 minutes and 1, so that the two are due together and apart; two minutes of three
  seconds, so that words change; a reading that may be missing; two commands.
- `settings`, `rejected`: the store has three fields of three values, one of which is rejected; five
  commands, restarts among them. `Width` is the byte's 256. The lines have three LEDs, a supply of
  100 mA that the brightest colours exceed; a wheel that comes past its hues and one over black; a
  trail at two levels; scenarios of one to three lines for every command, broken ones among them, with
  the tasks free to run between any two lines.
- `console`: a ring of four slots, so that three characters fill it; lines of two characters and
  frames of up to three, so that one ends itself, one does not, one does not fit a line and one does
  not fit a frame; three frames, so that the ring wraps and fills; one typed line.
- `letters`: a grid of five by four. The animations have a word table of five, two events, a flicker, a
  snake, an explosion of few steps: every counter meets its end, a run is cut in each of its states.
  The text has a font by row and one by column, a buffer of four, texts of up to three characters with
  one that has no glyph, three changes.
- `time`: of the calendar every minute of one day, and days around the ends of the months of a leap
  year, of one that is none and of the century; windows and overlays across midnight and across the
  year. Of the sources two units to an hour, three hours to a day, a calendar of two days, a change to
  summer time and back, outages of one unit and of more than a day; three events.
- `message_builder`: every command with all its options, each value of an option that the firmware
  treats by itself; two rows hold something at a time.
- `web`: on the ESP32 three sockets for a table of two, an interval of two ticks, one change of the
  display, three openings, one answer of two calls; in the simulator three connections for two
  slots, frames of two packets, a send buffer with room for one, four events in every order.
- `flush`: the console port of `power`.
- `board`: one text besides nothing, two uploads of two chunks, three events in every order beside
  every failure of the filesystem; the timer with a resolution of 4, two prescalers, one channel,
  duties 0 and 1 and the periods 0, 1 and 6, of which one is refused.

Every property of a run has a mutant in `PROJECT.json`: a plausible mistake in one definition (an
operator named `Definition_WhatIsWrong` beside the one it would replace) under which TLC finds that
property violated.

## 4. Fairness

- `power`: `WF` of the tick, because the main loop runs for ever; of a frame that leaves the wire,
  which the driver bounds with a time-out; of the strip's tick and its wire, and of the USART's wire
  and the firmware that prints, because hardware goes on. Commands, edges of the night, failures and
  restarts have none.
- `clock_face`: `WF(Tick)`, and `SF(NextSecond)` because the action that reads the time may take
  either of two outcomes: seconds go on.
- `settings`: of the store `WF(Task)` - the scheduler calls it every 200 ticks; `SF(TaskWrites)` - a store
  that is asked again and again does not refuse for ever.
- `console`: `WF(Communication)`, `WF(WebTask)` - both tasks run. Nobody has to send or type.
- `letters`: of the animations `WF(Task)`. Nobody has to change the time or select.
- `time`: of the sources `WF(Task(1))` - the loop runs and time passes; `SF` of a read and of a write that
  succeed - a transfer that is tried again and again does not fail every time.
- `web`: `WF` of the broadcast and of the answers, the main loop, and of a server's handler that was
  entered. Nobody has to come or go.
- `board`: `WF(Loop)` of each networked controller. Links, uploads and failures have none.

Properties that hold "until another command" carry the number of the command, so that a hand that
keeps pressing neither breaks nor rescues them.

## 5. The proofs

All for every value of the constants, under the assumptions named at the end. Most invariants are
not inductive as they stand; what follows names what makes them so. TLC has checked each
strengthening on the instance of its run before it was proved.

### `Peripherals_proofs`

*Supply.* `IInv` is `TypeOK`, `ClockInv` (the gate is closed in the states off and settling and only
there; the rail is down in the state off and only there; the master is lit exactly while the display
is enabled) and `StripInv` (behind a closed gate there is no frame and no light; a frame on the wire
with nothing owed after it is the buffer's; with nothing owed or on the wire the strip shows the
buffer). Every call of the firmware but Power's own task is *gentle*: it leaves the gate alone, marks
the buffer when it moves the master, and drops the rail only behind a closed gate. The lemmas show
this call by call; a step is then one argument for all gentle steps and one each for Power's task,
the render and the wire. The refinement of `Rail` goes the same way. `NightLeavesNothing` needs a
second list of lemmas, of which calls write the night switch's notes.

*Strip.* `FrameInv` says of the driver where it stands: `StripShape` (types), `LineIsAtRest` (what a
length of zero or the transmit-complete flag tell), `StripIsCut` (a strip without supply is sent
nothing), `OnePictureLeads` (what has left the buffer, in the order of its bytes, is of one picture),
`NewestIsUnderWay` (a buffer that is not marked is under way or on the strip). `PicturesArrive`
follows. The interrupt between the two bytes of a position is what makes `LineIsAtRest` necessary.

*Console port.* `PortInv` is the shape of the two rings, what the firmware has in hand
(`InHand`: a character that is being queued has its room, one that is being released is still at
the tail), `FlagsTellTheRegisters` and `RegistersAreEmpty` (TXCIF and "started" tell when the last
character has left, unless the shift register ran empty between the two writes of the data handler,
which is noted). Lemmas about a ring of any size (`QueuePuts`, `QueueTakes`) give what is unread
as a sequence, and each step is a put, a take or neither, which is `Inbox` for both directions.

### `Console_proofs`

*Ring.* The indices stay inside, and what either side has seen (room for the producer, a filled slot
for the consumer) still holds when it acts on it (`StillAsSeen`). Filling a slot is hidden, because
the slot at the head is none of the unread ones; storing the producer's index is `Put`, storing the
consumer's is `Take`.

*Lines.* `CInv` adds where each of the two tasks stands (`Control`), that what was sent is what was
read and what is still to be injected (`NothingIsLost`), that the line is what was heard since the
last end (`LineIsWhatWasHeard`) and that the answers are to the lines that ended
(`EveryLineIsAnsweredOnce`). The last end of a stream is found by well-founded induction over finite
sets.

*Web.* `ClientsInv`: who is in the ESP32's table and who is about to be; the smallest free slot exists
by the well-ordering of the naturals. `HostInv` of the simulator's host: what waits is read before
what comes (`BacklogWaits`), a handshake precedes every frame (`NothingBeforeTheAnswer`), and the
lines and the frame each page has are the ones that were printed and sent since it has its slot
(`PagesHaveTheLines`, `PagesHaveTheFrame`). `WholeInv` is about the packets: a slot holds exactly what
has arrived of its page behind the last whole frame, and no whole frame of it closed
(`PendingIsTheRest`); a page that was not answered has sent nothing (`NothingSentBefore`). The step is
`ReceiveStaysWhole`: cutting a stream into frames, taking the texts of them and keeping the rest comes
to the same in one read or in two (`FramesConcat`, `TextsConcat`), because flattening two sequences is
flattening each (`FlatConcat`). A document's chunks are the document, by the length that is flattened
after each of them (`ChunksAreWhole`).

### `ClockFace_proofs`

`FaceInv` says of every place of the tick who may have drawn what is on the display: `Kept` (one
overlay shows; nothing else runs under it; only a show scrolls; what is fixed is what is selected; a
run goes on to the words of the time), `DisplayManagerKnows` (its note of the overlay) and
`TimerCountsTheShow`. `FaceStands` adds that where nobody has the display, and no show has just ended,
the words of the time are on it, unless it is `disturbed`: a command left a picture, or a show ran out
before DisplayManager saw it, as one of a second does (`short_show`). For every endurance those are the
only two ways to lose the face. Every command satisfies one predicate, `Obeys`.

### `Persistence`

Its few theorems stand behind its properties. For any number of fields, values and acceptances, any width of the sum and either kind of store:
what counts as written is what a start would bring back (`LastSavedIsRestored`), which needs that
modules hold only settings they take (`SettingsAccepted`): otherwise a blob of them would be read
back as something else.

### `Time_proofs`

*Clocks.* A clock whose time is known shows the time it was given, on the boards with a system clock
for any calendar and number of outages, on the AVR over every transfer that is given up between two
of its bytes: `AvrInv` with the arithmetic that a time folded into the calendar once stays folded
(`FoldedOnce`). *Calendar.* `AlmanacInv`: a date of the calendar and a minute of the day. A step of
the day number (Rata Die) is one; the firmware's weekday is that number modulo 7, its `DaysFromCivil`
that number less 719163, and the chip's decimals come back as they went (`EveryDayCounts`, for every
year the clock takes). `CountInv` relates an overlay's count to the day number, from which
`OverlayDaysAreCounted` follows across months, leap days and years. *Uptime and temperature.* Every
second counts once over every carry until the days stop; a temperature's text is its tenths with one
sign, inside its buffer.

### `Commands_proofs`

`Good(display)`: it has its types, a display that is off is dark (`Dark`), and what is lit is lit in
the colour that is to be shown or in a step of the trail behind a drop of it (`Wears`, `Worn`). Each setter and each of the tasks keeps it, for any strip,
supply and lines. The colour that is set in three steps keeps it because every step redraws.

*The light.* `LightInv` says that the display is `Good` and of its types, that the sensor and
the wheel are of theirs, and that what is still to be taken of a line of levels is bytes, words and
refusals (`LineTyped`). Three arguments carry `LightKeepsItsBounds` from it. The budget: what
the lit LEDs draw is the sum of equal shares (`SumOfEqualShares`), and the limit that is worked out
from it fits (`LimitedFits`, which needs what a product divided down and multiplied up again loses). The
automatic: a reading between its bounds maps between the floor and what is asked for. The face: a
dimming that rounds up leaves every channel that was lit lit; only a wheel that is switched off over a
colour that is itself black leaves nothing. Both exceptions of the property, this one and the
microampere by which the master's step is rounded up, came from this proof: the runs had met neither,
and the run now meets the black.

The tokens of a line are numbers, and one that is parsed is a byte, a word or refused
(`ParseReads`, `ParsesAreReadings`).

### `LetterMatrix_proofs`

*The text.* What the task reads is inside the overlay's buffer and ends there (`PointerStaysInTheBuffer`), and a
run nobody disturbs has shown the text from its first character on (`UndisturbedRunShowsItsText`),
from `RunInv`: the pointer's type, that of what is showing, that the buffers hold what was last
entered, and that the run is just behind the pointer.

What it shows of it is a window that moves along the strip of glyphs (`TextScrollsThroughWhole`), for
any fonts, glyphs, widths, orientations and any size of display. `DisplayIsAWindow` says of each column
that is lit which column of the strip it is; it is not inductive, for a glyph's next column is drawn by
drawing the whole glyph over the columns that are there. `WindowInv` adds where the run stands in its
strip (`RunIsAt`: at its end, at the end of a glyph, or so many columns before the end of the one
loaded last, whose columns close the strip). From it:

- a shift of the display moves every column by one (`ShiftLooks`), and a drawn glyph is seen in its
  columns and nowhere else, in either orientation (`SetCharLooks`). The loops that draw it, row by row
  or column by column, are followed by hand from the first line on (`LoopsRun`, `RowsAreDrawn`,
  `ColumnsAreDrawn`);
- columns that show already what the glyph has there stay as they are, since a column lights rows of
  its glyph only (`ColumnRows`); the last column was blank and takes the next (`NextColumnComesIn`);
- one more character is one more piece of the strip (`StripGrows`), what was behind the window stays,
  and the window is one column further (`WindowMoves`).

*The animations.* `ClockRestsOnTheNewestTime`, for any grid, words, times, order of the animations
that are built in and any sequence of word changes and commands. `RestsOnTheNewestTime` speaks of the
clock at rest; `RestInv` says of a clock that runs where it is going (`RunsTo`: the newest time's words
are in its table, or Fade and Flicker keep that time), whose the light is (`LightIsGivenBack`: only a
run of Fade dims; only one of Flicker darkens, and only a display that was on) and what a hand last did
to the switch (`SwitchIsKept`), and which animation may run in which mode (`ChoiceIsKept`). It is checked
step by step:

- one task of any of thirteen animations leaves table, light and switch alone and goes on, or ends on
  the letters of its table (`StepsToItsWords`; one lemma each, `CursorSteps` to `CollapseSteps`); nothing
  has to be known of their counters, since the redraw at the end owes nothing to the frames before it. Fade
  and Flicker have a lemma of their own (`FadeSteps`, `FlickerSteps`);
- an animation that is made idle gives back what it took, in the middle of its run as well
  (`ResetIsFresh`), and so does the change from one to another (`SwitchedIsFresh`);
- a time either starts a fresh animation or is taken by the one that runs (`TimeStarts`,
  `TimeIsTaken`); with no animation selected it is drawn over the display and nothing is cleared, which
  is right only because the word change does not go that way then and a start by hand draws the
  time that is there already (`SetTimeRests`);
- the sequence mode finds a favourite, as there always is one that comes first (`NextIsAFavourite`).

That no run inherits anything (`RunsAlwaysStartFresh`, the first half of `RunsAreWhole`) is an action
property on the same invariant: an idle frame is compared with that of a clock that has just started.
Both are made by an Init() (`MadeOf`), which leaves the same counters whatever was there
(`ResetForgets`); and a start reads nothing else (`StartsAlike`).

Where the union of the animations puts a word of Snake under Flicker's flag (section 6), a hand's
"off" may be lost, and the theorem excludes that layout; that the clock shows the newest
time, undimmed, does not depend on it (`DimmedByNothingElse`).

### `Boards_proofs`

*Store.* `StoreInv`: the writer is at its work (`WritingIsAtWork`), what is staged is the next value,
what is to do was not answered yet. *Upload.* `UploadInv`: bodies are announced, one upload has the
record at a time, what is open is what was sent, what is named is closed; an image that nothing
disturbed is therefore booted whole or not at all. *Partition and answers* (`RefusalInv`). *Timer.* The
period register is written only where the counter stands at zero, so the counter never passes its
TOP; a callback is in place before the flag of an old overflow is cleared.

### The theorems

| Theorem | Module | What it establishes | Property of a run |
|---|---|---|---|
| `CounterStaysBelow` | `Boards_proofs` | The counter never passes its top, whatever period is set while it runs, for any resolution. | `CounterStaysBelowTop` |
| `NoOldOverflow` | `Boards_proofs` | A callback is never called for an overflow from before it was attached. |  |
| `CounterStaysBelowOnTheBoard` | `Boards_proofs` | The same of the counter beside the other controllers' boards. | `CounterStaysBelowTop` |
| `StoreIsNeverTorn` | `Boards_proofs` | What a board keeps over a restart is what was entered, each value whole, through failed writes, lost power and requests that overtake one another. | `StoreIsWhatWasEntered` |
| `BootedImageIsWhole` | `Boards_proofs` | An image nothing disturbed is booted whole or not at all, for any number of chunks, uploads and lost connections. | `UndisturbedImageIsWhole` |
| `PartitionIsLetGo` | `Boards_proofs` | The partition for the next image is claimed only while an upload is under way. | `PartitionIsFreeAgain` |
| `AnswersAreAlwaysTrue` | `Boards_proofs` | What the page is told of its request is what the board has done with it. | `AnswersAreTrue` |
| `DisplayIsGivenBack` | `ClockFace_proofs` | One overlay at most holds the display and no animation runs beside it, letters scroll only for a show, and an animation ends on the newest time; once nobody has the display the face stands, unless a command drew or ended something, or a show was over before DisplayManager had seen it, since the words changed: for any overlays, periods, minutes and endurances, a second included. | `DisplayHasOneOwner` |
| `DueOverlayAlwaysStarts` | `ClockFace_proofs` | An overlay whose second has come shows if none does, whatever ended the one before. | `DueOverlayStarts` |
| `ShowsRunOutWhenDue` | `ClockFace_proofs` | A show that runs out has been through the seconds of its endurance, for any endurance. |  |
| `OffStaysDarkAlways` | `Commands_proofs` | A display that is switched off shows nothing, whatever a command or a task sets. |  |
| `LettersAlwaysWearTheColour` | `Commands_proofs` | What is lit is lit in the colour that is set or cycled to, dimmed by the brightness, and by a fade step of the trail where a drop has passed, for any strip and any lines. | `LettersWearTheColour` |
| `LightAlwaysKeepsItsBounds` | `Commands_proofs` | For every set of LEDs, supply, sensor and line: the current drawn fits the budget once the limit is worked out, the automatic stays between its floor and what is asked for, and no change of brightness takes a letter. | `LightKeepsItsBounds` |
| `RingInvariance` | `Console_proofs` | The free slots of the ring are those outside its indices, for any size, in every order of the two tasks' steps. |  |
| `RingKeepsTheInbox` | `Console_proofs` | The ring implements a bounded queue, for any size. | `KeepsTheInbox` |
| `EveryLineIsHeardWhole` | `Console_proofs` | Every line that ends is answered once and whole, and a browser's commands reach the parser as they were sent, for any size of ring and line and any frames. | `EveryLineArrives` |
| `ConsoleKeepsTheInbox` | `Console_proofs` | The web task and the tick never use the ring but as its two sides may. | `KeepsTheInbox` |
| `ConsolesHaveOneSlot` | `Console_proofs` | However consoles come and go, each has one slot of the esp32's table, and a slot that is held is an open console's. |  |
| `ConsolesKeepTheirSlots` | `Console_proofs` | No console loses its slot of the esp32's table before its own socket goes. |  |
| `EveryLineReachesEveryPage` | `Console_proofs` | Every page of the simulator's host is sent each line printed since it was opened, once and in order, for any number of pages, slots and lines. | `PagesReadEveryLine` |
| `EveryPageShowsTheFrame` | `Console_proofs` | Between two ticks every page of the simulator's host has been shown the frame that went out last, newcomers too. | `PagesShowOneFrame` |
| `MessagesAlwaysArriveWhole` | `Console_proofs` | However the packets of its frames were cut, the simulator's host takes every text a page sends once, whole and in order, and a document's chunks are the document and none of them empty, for any sizes of frames, reads and chunks. | `MessagesArriveWhole` |
| `PointerStaysInTheBuffer` | `LetterMatrix_proofs` | What the text module reads is inside the overlay's buffer and ends there, whatever is set under it, for any fonts and any size of display. |  |
| `TextScrollsThroughWhole` | `LetterMatrix_proofs` | A text scrolls through column by column as it is written, none lost or shown twice and a blank one behind each glyph, for any texts, fonts, glyphs, orientations and size of display. | `DisplayIsAWindow` |
| `UndisturbedRunShowsItsText` | `LetterMatrix_proofs` | A run that nobody disturbs has shown the text from its first character on, for any text, fonts and display. | `UndisturbedRunIsTheText` |
| `ClockRestsOnTheNewestTime` | `LetterMatrix_proofs` | Whichever animation runs, however it is cut short, switched over or given a newer time: a clock at rest shows the newest time and no other letter, undimmed and switched as a hand left it, for any grid, words and times, where the animations' union does not put a word under Flicker's flag. | `RestsOnTheNewestTime` |
| `RunsAlwaysStartFresh` | `LetterMatrix_proofs` | A run begins with the counters, words and letters a first run would begin with, whatever ran, was aborted or shared its memory before it, under the same layout of the union. |  |
| `DimmedByNothingElse` | `LetterMatrix_proofs` | Under either layout of the union a clock at rest shows the newest time's letters, undimmed. |  |
| `TypeCorrect` | `Peripherals_proofs` | The variables of the supply keep their types for every night cycle and every bound. |  |
| `NeverIntoDeadRail` | `Peripherals_proofs` | No frame is ever on the data line of a strip without supply. |  |
| `OffStaysDark` | `Peripherals_proofs` | A disabled display keeps its master at 0 whatever draws. |  |
| `StripIsTheBuffer` | `Peripherals_proofs` | Once nothing is owed or on the wire, the strip holds what the buffer says. | `StripShowsTheBuffer` |
| `CutFindsADarkStrip` | `Peripherals_proofs` | The rail of a disabled display goes down only under a dark strip. |  |
| `ImplementsRail` | `Peripherals_proofs` | Every step of the tick is a step of Rail or none. | `KeepsTheRailContract` |
| `SupplyBesideTheOthers` | `Peripherals_proofs` | What runs beside the supply leaves all of that as it is. |  |
| `PicturesAlwaysArrive` | `Peripherals_proofs` | Every frame the strip latches is one whole picture and the newest one is under way or marked, for any length of frame and of the line behind it, in every order of drawing, interrupt, transfer and wire. | `PicturesArrive` |
| `PortAlwaysDelivers` | `Peripherals_proofs` | What is printed and what is typed arrives in order and once, as far as a queue had room, and a restart waits for the last character unless the one before it left the shift register between the handler's two writes, for any sizes of the queues. | `ConsoleLosesNothing` |
| `NightIsUndone` | `Peripherals_proofs` | What the night has switched off comes back as it was or as a hand set it since, for every order of hands, edges and commands. | `NightLeavesNothing` |
| `PlugLosesNothing` | `Persistence` | With nothing left to write and nothing refused, a restart brings back the settings, for any number of fields, any values and any width of the checksum. | `QuietClockSurvives` |
| `HandWearsTheStore` | `Persistence` | The task finds something to write only after a hand set something. |  |
| `OnlyAcceptedSettings` | `Persistence` | The modules never hold a value they would not take, whatever the store held. |  |
| `ClockTellsTheTimeItWasGiven` | `Time_proofs` | A clock whose time is known shows the time it was given or read, for any calendar, any number of outages and writes of the chip given up between any two bytes; only a power cut that finds the chip half written is left out, as the statement's meant # Nothing says. |  |
| `BelievableChipIsRight` | `Time_proofs` | A chip whose flag says it can be believed holds the time that was written to it, moved on, unless a write over it was given up half way, after which kept is Nothing. |  |
| `ClockTellsADate` | `Time_proofs` | The almanac only ever holds a date of the calendar and a minute of the day. |  |
| `NightIsAlwaysTheSpan` | `Time_proofs` | The night window is the minutes from its start up to its end, across midnight as well, for any set of windows. |  |
| `EveryDayOfTheCenturyCounts` | `Time_proofs` | Weekday, day number and the chip's coding move on by one each day, for every year the clock takes. | `EveryDayCounts` |
| `UptimeAndTemperatureAreTrue` | `Time_proofs` | Every second of the uptime counts once, over every carry, until the days stop; and a temperature's text is its tenths with one sign, within its buffer, for any reading the chip can give. |  |
| `OverlaysLastTheirDays` | `Time_proofs` | An overlay is on for exactly the days its range names, whatever the year, month or leap day it runs across. | `OverlayDaysAreCounted` |
| `EitherClockTellsTheTimeItWasGiven` | `Time_proofs` | Either board's clock shows the time it was given, over every transfer that is given up between two of its bytes. | `ShowsTheTimeItWasGiven` |
| `EveryBelievableChipIsRight` | `Time_proofs` | On either board a chip whose flag can be believed tells what it was given, except where a write over it was given up half way. |  |

The assumptions: a switch is fitted or not, cycles and bounds are numbers (`FittedAssumption`,
`NightSupplyAssumption`); a frame, a digit and the FIFO are of two or more
(`StripAssumption`); a ring has two slots or more; endurances, periods, seconds and minutes are
positive; the fonts and texts of `TextShow` are what the code's tables are; a scenario's levels are
bytes and its lines sequences of tokens (`ScenarioAssumption`), a numeral stands for a number and is
no other token (`NumeralAssumption`); the animations built in are some of the fifteen, and at least one
(`AnimationsAssumption`; without one the union of them would not compile); a document is a sequence (`WebHostAssumption`). All are ASSUMEs that TLC
evaluates in the runs.

### What is only model-checked, and why

- **Liveness under fairness** (`WaitsEnd`, `ChipCatchesUp`, `TimeComesBack`, `CommandsAreAnswered`,
  `RunsEnd`, `ConsolesKeepUp`, `JoinedClockAsksTheTime`, and the "ends" of `ShowLastsItsEndurance` and
  `StoreFollowsTheHand`): outside what the installed provers do.
- **What a recursion over data computes** (`LineMeansItsOptions`, the checksum). The
  library's theorems of induction take an operator, which no prover here can be given; the folds of
  `Commands_proofs`, `Console_proofs` and `LetterMatrix_proofs` are instead followed by hand, through the set of numbers for
  which they hold (`EveryNumber`). That is one argument for every definition, and these two have not
  had theirs.
- The second half of `RunsAreWhole`, `LastFrameIsTheFace`: that a run lands by itself needs an invariant of
  the counters of each of eleven algorithms, and is a matter of looks: `RestsOnTheNewestTime` does
  not depend on it, as every run ends with a redraw.
- `DialogMeansItsLine`, `WhatWasTickedIsReadBack`: a finite table, which the run covers whole.
- `WhatIsToldIsTrue`: its parts (the night, the calendar) are proved; the words are a table of
  1440 minutes in each mode, which the run covers whole.

## 6. What the code does otherwise

Seen while the models were written; none of it is hidden from the models, whose properties say no
more than what the code keeps. Paths are those of `PROJECT.json`'s map.

*Supply, strip, console of the AVR*
- `flush()` may return with the last character still in the shift register, when the register runs
  empty between the two writes of the data handler (Arduino.cpp:106-107): run `flush`.
- A display that is switched on while `Power` blanks has its supply cut with the picture on the strip:
  the wait asks for a clean buffer, not for a dark one (Power.cpp:30).
- `SetIsActive(true)` over a night that has the supply cut forgets the crossing; if the morning comes
  before the next task of the night switch, the supply is not given back (NightSwitch.cpp:94).
- A flicker that runs across the evening's edge switches the display on again
  (AnimationFlicker.cpp:79).
- On the AVR a tick that is late is made up for at once and can start a frame within the 50 µs gap
  of the one before; the two run together and the second is lost although its mark is cleared, contrary
  to WS2812.h:121-123. On the RP2350 a frame that finds the DMA busy is refused and its mark cleared, so
  it is lost until something is drawn. `PicturesArrive` asks for the frames that are apart.
- The RP2350's `IsFrameOnTheWire()` is the DMA's alone; words in the FIFO may still go out when `Power`
  cuts.
- On the ESP32 without an RMT channel `Render()` never clears the mark (Pixels.cpp:133); `Init` is a
  start that succeeded.

*Display, overlays, animations*
- An overlay of one second, the initial endurance, shown by hand in the tick a second begins, is over
  before `DisplayManager` saw it; the half-drawn animation it aborted, or its own picture, stays
  (Overlays.cpp:33): run `short_show`.
- Explode words never ends from a display that is no face and not dark (AnimationExplodeWords.cpp:52);
  `RunsEnd` exempts it. Teletype, Flicker, Fade and ExplodePixels rest on the newest time's letters but
  are not asked for it in every frame.
- On the AVR, where an enumeration has 16 bits, `Flicker::is_clock_set_` lies over the first word of the
  snake's table in the union; an abort in between leaves a flag that is a word (`WordUnderFlag`).
- The smear Text.cpp:209-214 speaks of cannot be seen: `ShiftLeft` clears the last column.
- MsgCmdOverlayTextParser.h:144 does not check the length of a text; only the bound of a message (49
  characters) keeps it inside the buffer.

*Colour, brightness, commands*
- A colour is set in three steps, each of which redraws what the pixels say is lit: black in between
  loses the letters (Display.cpp:81).
- The colour steps and the reset of the remote procedures apply the colour only; the current limit
  follows at the next task. The limit's estimate divides b by 256 where the output takes b + 1, so the
  budget can be exceeded by one step.
- `4 -I5 -I6` copies the state of pixel 5 to pixel 6, against the comment at line 71 of its parser.
- A calibration of the BH1750 right after set-up, or with reads failing, stores 0 or a stale reading,
  where docs/serial-commands.md:286 says "Refused while the sensor has measured nothing". A sensor
  that was reset but still acknowledges reads zero for ever (BH1750.h:184-191).
- A failed write of the pass phrase leaves the new name with the old phrase. A refused console password
  is not answered (MsgCmdConsoleParser.h:127).
- The decoder takes the answer to a remote procedure call to be the one that does not begin with its
  command's number (MessageDecoder.cpp:114-119), but the firmware sends the number first for every
  command (`MsgCmdParser::Parse()`): the line is never recognised, and the procedure is not named.
- The decoder's `kErrorValueNames` lacks `kPowerSwitchAbsent`; an answer's text with blanks is cut at
  the first.

*Settings*
- A stored value its module rejects counts as written with the value the module kept, so the store is
  never corrected (Persistence.cpp:390): run `rejected`.
- A blob of which only a part was written passes the checksum where the changes cancel out in the sum.
- On the RP2350 a write that was refused after it had emptied the file is not tried again if the setting
  goes back to its old value before the next task.

*Time*
- `ReadChip` keeps the UTC hour where `WriteChip` compares the local one, so the chip is written back at
  once (RealTimeClock.cpp:203-205 says it is not); in the hour that summer time repeats it is not written
  for two hours.
- On the AVR what TIME and DATE set is what is shown, and asking more often than once a second holds
  the clock (RealTimeClock.cpp:124). A write that failed is undone by the chip's next read.
- On every board a transfer that is given up midway over a running chip leaves half a time that is
  believed (esp32 DS3231.cpp:132). The properties exempt what is read of it: `kept` and, after a power
  cut, `meant` are `Nothing` until the next whole write or the next time that is set.
- A date that never is, the 31st of February, is counted as the 3rd of March but shown from the 1st on.
- At the last day of the uptime the hours begin again while the days stay.

*Web and boards*
- On the RP2350 a joined clock looks its time servers up once (main.cpp:74). A lookup that fails, or that
  the link was lost before, finds nothing and says nothing, as TimeSync.h:14-16 has it; the clock then has
  no time until a hand asks again. `JoinedClockAsksTheTime` says that the lookup is made, not what it finds.
- The forced frame of a newcomer is asked for before it is in the table; a tick in between uses it up,
  and the newcomer waits for the next change (esp32 WebInterface.cpp:517).
- The lock is held for one call of `print()`, an answer is several; the server's line lands inside it
  (WordclockSerial.cpp:76).
- The simulator's `SendAll` spins on a page that stopped reading (WebHost.cpp:486; WebHost.h:202 says so,
  the comment at 424 does not); `SendInput` drops a line typed while input is pending.
- RP2350: an upload that begins over one that was committed, before the restart, empties the file the
  command page already names; if it is cut off, half an image is copied at the next start, though
  README.md:119 and WebInterface.cpp:288-289 have it that a half-written image is a file nobody reads
  (WebInterface.cpp:169). `UndisturbedImageIsWhole` leaves out what was overlapped or replaced.
  A POST without a body after an upload that was committed but not yet answered is
  answered "ok" and restarts, and one while an upload is open aborts it, against the comment at 316.
  A LittleFS file that is still open when the power goes is empty at the next start.
- ESP32: `Restart()` is asked for before the upload's answer is sent (WebInterface.cpp:251; comments
  182-183 and 196-199), so the answer may be lost. An upload that begins over a committed one before
  the restart overwrites the partition the next start boots.

*Timer (nothing in the firmware uses it)*
- A BOTTOM between `SetPeriod`'s buffer writes gives one period with the new TOP and the old compare
  values, against Timer.cpp:104-105. `SetPeriod` before `Init` and then an `Init` whose period is refused
  keeps that TOP, where Timer.h:354-356 says 0xFFFF. Stop, `SetPeriod`, `Resume` keeps the old prescaler,
  as Timer.h:377-380 says.

## 7. What is not modelled

- **Tables and layout**: glyphs, which letter is which LED, the text of answers, help and web pages.
- **Registers and symbols**: pins, the tick's counter, the symbols on the LED's data line, the
  BH1750's and the two-wire bus's registers on the boards with a library for them; the timer's PWM pins
  and `Read`.
- **Libraries**: HTTP parsing, TLS, the exchange with the time servers, the cookies of a session.
- **The simulator's window** and its files; **pages in a browser**.
- **Bit and StandardTypes**: templates over built-in operators.
- Bounds and abstractions are those of sections 2 and 3; a restart cuts a strip's frame on the wire.

## 8. The plan

The order is the order of how much goes wrong on the wall when it goes wrong. The models are done
along it: the supply and the night; the display and who has it; the settings and the store; the
commands and the browsers; the animations; the time; the boards and their peripherals. So are the
proofs of what says most about each of them (section 5).

Next, the proofs:

1. `Persistence`: the action part of `StoreFollowsTheHand` as it is stated there.
2. `Animations`: the second half of `RunsAreWhole`, that a run lands by itself, animation by animation,
   beginning with the ones that sweep the grid once (Cursor, Wipe).
