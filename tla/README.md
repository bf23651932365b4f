# Formal models of Gramslator

Gramslator is the firmware of an ESP32-S3 touch screen that listens, streams the
audio to Deepgram, sends the transcripts that come back to Google Translate, and
shows transcript and translation on its display.  It is `no_std` Rust on the
Embassy executor: a handful of async tasks share core 0, a DMA loop fills a pipe
on core 1, and the tasks meet in an `AppState` behind a critical section, in signals that
hold one value, and in a pool of TCP buffers guarded by an atomic bitmask.

This directory has TLA+ modules of that code, TLC runs that check them on small
instances, and TLAPS proofs that hold for every value of the constants.  Source
paths below are relative to the repository (`src/src/...` in `PROJECT.json` is the
crate's `src/...`).

- [1. Inventory](#1-inventory): the system's parts and what makes each correct
- [2. Plan](#2-plan): the modules, in the order they were written, and what is left
- [3. Modules and code](#3-modules-and-code): how state and actions correspond
- [4. Runs](#4-runs): what each run checks, with which bounds and fairness
- [5. Proofs](#5-proofs)
- [6. Findings](#6-findings): where the code and its comments disagree
- [7. What is not modelled](#7-what-is-not-modelled)
- [8. Running the checks](#8-running-the-checks)

## 1. Inventory

### How the parts interact

```
 core 1: DMA loop --MIC_PIPE--> Deepgram task --TranslateSignal--> translation task
                                   |      ^                           |       |
              touch task ----------|------|--TranslateSignal----------+       |
                  |                |      +------- Connection pool -----------+
                  +--> AppState <--+-------------------------------<----------+
                          |   (DisplaySignal)
 WiFi tasks ------------->+------------> display task --> framebuffer --> SPI panel
```

Tasks on core 0 are cooperative: they interleave only where they await.  So the grain
of nearly every model is *one action per stretch of code between two awaits*.  The
buffer pool is the exception: it is written with atomics, for callers on any core, and is
modelled operation by operation.  As the program stands both its callers are tasks of core
0 and `claim_buffers` does not await, so a compare-exchange never fails in it; the pool is
checked and proved for what it is written for.

Both signals are `embassy_sync::Signal`: `signal()` overwrites what is pending and
`wait()` takes it.  A `DisplaySignal` carries no data, so overwriting is harmless there;
`TranslateSignal` carries a message, so it is not.

### Components

| component | state | operations | what is hard | what makes it correct |
|---|---|---|---|---|
| TCP buffer pool (`networking/connection.rs` 26-85) | `POOL_IN_USE`, static buffer pairs | claim, release | compare-exchange races, second look at a full mask, reuse of dirty buffers, sockets that outlive their claim | a pair has one owner; no bit leaks; foreign bytes in a pair come from a kept socket only; a claim is refused only when every pair was taken; some claim always ends |
| Connection life cycle (`networking/connection.rs` 88-295) | slot, socket, TLS session of each connection | DNS, claim, TCP with retries, TLS, close, drop | every error path must give the slot back once; close and drop are different moments | no slot leaks; live sockets do not share buffers; an open returns |
| Shared state and signals (`app_state.rs`, `translation/helpers.rs`) | `AppState`, two signals | `update_*`, `signal`, `wait` | latest-wins overwriting, a change without a wakeup | a change is always shown; a message that matters is not lost |
| Translation task (`translation/translation_task.rs`, `helpers.rs`) | buffered and last transcript, cache, deadline | wait, debounce, Flush, Retranslate, job, cache | language read before two awaits; five ways to end a job; a debounce under constant input | the caption is the translation of the newest transcript in the selected language |
| Deepgram task (`bin/main_task.rs`, `networking/deepgram.rs`, `networking/websocket.rs`) | session, WebSocket stream, transcript | connect, upgrade, send a chunk, drain responses, pong, reconnect | one connection used in turns; a receive dropped by a 5 ms timeout; the end noticed only between chunks | each frame handled once; a dead session is replaced; statuses tell the truth |
| Touch task (`elecrow_board/touch.rs`) | active zone | init with retries, poll, cycle language | one change per entry into a zone; polls without a report; unsigned coordinates | a finger that stays in a zone turns the language once, and is noticed |
| Display task (`rendering/display_task.rs`, `status.rs`, `layout.rs`) | last seen values, overlay deadline, two scrolling sections | wait with timeouts, draw, flush | three layers that wipe one another; state changes during a flush; three kinds of timeout; a flush that fails | at rest everything drawn was flushed, and the panel shows the newest state where no flush failed |
| Framebuffer (`rendering/framebuffer.rs`, `elecrow_board/display/async_display.rs`) | pixels, clip, dirty rectangle | three drawing operations, flush | clipping, partial transfers | every changed pixel is sent; nothing is drawn outside the clip |
| Glyph cache (`rendering/font.rs`) | cached glyphs with stamps, use counter | ensure, get, evict | get must find what ensure inserted; one eviction per insertion | a least-recently-used list within its limit; the glyph wanted is never the one evicted |
| Text layout (`rendering/layout.rs` 61-121, 192-236) | lines, scroll offset | word wrap, draw the lines in view | words wider than a line; fractions of a pixel against whole ones | no character lost; lines full, and none wider than the area that could be broken; the lines in view drawn |
| Translate client (`translation/client.rs`, `helpers.rs` 70-97) | request and response buffers | write, read to the end, parse, cut to `rx_buf` | full buffer, early close, error after data, chunk framing, escapes, cut characters | an answer or an error, never a truncated answer; a complete one is used |
| WiFi tasks (`elecrow_board/wifi/`) | loop counter, status | associate, DHCP, retry; follow link and address | two tasks write one status without knowing of each other; the result of a disconnect is discarded | the status follows the link; the connect task ends |
| Microphone (`elecrow_board/mic/`) | DMA buffer, `MIC_PIPE` | drain DMA, `try_write` | a full pipe and the end of its ring drop part of a chunk; the loop ends on an error | frames stay aligned |
| Flash mapping (`flash_data.rs`) | MMU table | find a free run, map | runs that end at the last entry; regions that start within a page | nothing in use is mapped over; every byte is where it is expected |
| Start-up, board, bitmap fonts, build script | none after start | straight-line code | nothing interleaves | - |
| Web demonstration (`web/index.html`) | sockets, request ids | connect, reconnect, translate | late callbacks of a replaced socket | stale callbacks have no effect |

`PROJECT.json` has the same list with the status of each part, and under "hazards" the
lines where the hard behaviours bite.

## 2. Plan

The order follows the path of a caption: first what every connection rests on, then the
pipeline from frame to caption, then what it is shown on, then the periphery.  A module
of the periphery is checked together with its neighbours, so that each run asks a
question about the system and not about a file.

| step | module | composes / refines | state |
|---|---|---|---|
| 1 | `SlotAllocator`, `BufferPool` | `BufferPool` implements `SlotAllocator` | done, proved |
| 2 | `Connections` | pool, socket and task life cycles | done, proved |
| 3 | `Captions` | Deepgram session, translation task, touch, display, through `AppState` and both signals | done, safety proved |
| 4 | `DeepgramSession` | the turns of one session, at the grain of frame halves | done, safety proved |
| 5 | `WifiManager` | both WiFi tasks and their environment | done, safety proved |
| 6 | `DisplayTask` | state, sections, overlay, panel | done, safety proved |
| 7 | `Canvas`, `Framebuffer` | `Framebuffer` implements `Canvas` | done, proved |
| 8 | `TranslateClient`, `Requests` | `Requests` composes the client with `Connections` and implements them | done, safety proved |
| 9 | `AudioPipe`, `Streaming` | `Streaming` composes the pipe with `DeepgramSession` | done, safety proved |
| 10 | `TouchPanel`, `Board` | `Board` composes `WifiManager`, the panel, the display signal | done, safety proved |
| 11 | `FlashMap`, `WordWrap`, `GlyphCache`, `LruCache`, `TextRendering` | `TextRendering` composes the first three; the cache implements `LruCache` | done, proved |

What is left, in the order of its worth:

- an abstract *caption service* (newest transcript and language in, their translation
  out) that `Captions` implements while no message is lost;
- an abstract *panel* (state in, the same state shown) that `DisplayTask` implements.

## 3. Modules and code

Each module's header comment says which lines it is about, and `map` in `PROJECT.json`
ties every definition to its lines.  Names follow the source.

### `SlotAllocator`, `BufferPool`

`BufferPool` has one action per atomic operation of `claim_buffers`: `Load`,
`CasSucceeds`/`CasFails`, the second load `Recheck`, `ZeroBuffers`; `ReleaseSlot` is
`fetch_and`.  The mask is the set of its one bits.  `contents[s]` is whose bytes are in a
pair, which is what zeroing is for.  The claim and the use of a pair end at different
moments here too: a task in `DelayedDrop` may be "lingering" after `ReleaseSlot`, and its
`socket` puts bytes through the pair (`UseBuffers`) until `LateDrop`, whoever has claimed the
pair meanwhile.  `SlotAllocator` is the promise: ask, be granted a
slot nobody holds, or be refused at a moment when all are taken.

### `Connections`

One record of `pc`, `slot`, `socket` and `attempt` per task that opens connections.
Between two awaits everything is one action, so `DnsAnswers` claims, makes the socket and
starts the first connect at once.  `attempt` is the loop variable of the TCP retries and
is reset when the loop is left, for it is gone then.  The point of the module is that
`slot` (the claim) and
`socket` (the buffers the network stack works on) end at different moments: `CloseReturns`
releases the slot, and for a task in `DelayedDrop` the socket lives until `LateDrop`.
Which tasks are plain and which drop late are constants, so that the theorems say what
depends on it.

### `TranslateClient`, `Requests`

`translate_text` step by step: build, write the header, write the body, flush, read
until the buffer is full, the stream ends or a read fails.  A response is a sequence of
units, each standing for the bytes that the parser's searches tell apart (the two halves
of the key, a quote, a backslash, the two halves of a character, a chunk boundary ...), and
every unit takes one place of the buffers.  `Written` is a text as JSON writes it, with a
backslash before a quote and before what else is escaped; the parser undoes no escape, so
what is shown is the text as written.  A JSON document is sent in one chunk or in two, and
the two meet after any of its units: within the key, where the search then fails, around
the text, or in it.  `Parse`, `strip_chunked_framing` and `Shown` (the cut to `rx_buf`) are operators
on such sequences, so that a response cut off at any unit is really parsed.  `Requests`
runs the client inside the open connection of one task of `Connections`; the other tasks
go on using theirs.

### `Captions`

The whole pipeline at the grain of awaits.  `transcript`, `translation`, the two service
statuses and `target_lang` are `AppState`; `translate_signal` and `display_signal` are the
signals; `session`, `task` and `display` are what the Deepgram, translation and display
tasks await.  A transcript is a model value and its translation the pair of text and
language.  `update_*` functions report a change and their callers signal the display on
it: `WakeDisplayIf`.  Three history variables make the properties sayable: `fresh` (the
display has read the current state), `failed` (the last job failed), `lost` (a message
that was still needed was overwritten).

The debounce is `StartDebounce`, `TakeNewer`, `EndDebounceEarly`, `TakeNewest`,
`EndDebounceOnDeadline`.  `TakeNewest` is there because `with_timeout` polls the signal
before the timer: a transcript that is already there when the deadline has passed is
still taken.  The language is read in `StartJob` (`job_lang`) and used two awaits later,
as in the code.

### `DeepgramSession`, `AudioPipe`, `Streaming`

`DeepgramSession` is one session in detail: a response frame is two units, header and
payload, that may arrive at different times.  `arrived`, `consumed` and `start` count
units.  `RecvTimesOut` is the receive dropped by `with_timeout(RECV_POLL, ..)`: what it had
read is gone.  `UpgradeSucceeds` drops what the reads of the HTTP response brought of the
first frames.  `mic` is "alive" while core 1 fills the pipe, "ending" when its loop has
returned and the pipe still holds audio, and "silent" when `MIC_PIPE.read` never ends again.

`AudioPipe` has the samples themselves, "L" and "R": core 1's `Pop` and `TryWrite`, the
pipe as the ring buffer it is (a write stops at the end of the ring, and what is left is
dropped), and `ReadChunk` with the loop that keeps one channel.  `Streaming` feeds the
session from it: a turn of the session begins with a chunk that was read, and core 1 goes
on while the session is busy or gone.

What happens to the transcripts, the statuses and `Flush` of a session is in `Captions`;
what happens to its slot and socket is in `Connections`.

### `WifiManager`, `TouchPanel`, `Board`

`connector` is `wifi_connect_task` (it returns after its first success or its last
failure), `monitor` is `wifi_status_task`.  The access point and DHCP are the environment:
`LinkComesUp`, `LinkDrops`, `LeaseGranted`, `LeaseLost` at any moment they can happen.  The
task discards the `Result` of `disconnect_async`: `Disconnected` takes the link down,
`DisconnectFails` leaves it as it is, and the task goes on alike.  The auxiliary variable
`abort_failed` remembers the second case, for an association that was not aborted may
still bring the link up, or keep it, during the delay, the next attempts, and after the last.

`TouchPanel` is `touch_task`: the controller's start in a few attempts, and polls that
find a finger, none, or no report.  The finger's raw coordinate goes through the u16
subtraction of `DisplayX`.  `acted` remembers whether the language was changed since the
finger came to its zone.

`Board` puts them beside the display task, which they wake through `display_signal`: the
display waits for the signal or is busy flushing, and `fresh` says whether it has read
what the others wrote.

### `DisplayTask`

`state` is `AppState` with the statuses as the texts they are shown by (`status.rs` maps
several statuses to one text, and the task compares texts).  `last` is all the `last_...`
variables.  The framebuffer is reduced to its layers (area, indicator, overlay,
transcript) and those of them that are dirty; `DrawArea` wipes the indicator and the overlay
because `fill_solid` covers both.  `Wakes` and `FinishFrame` together are one turn of the
loop, cut where the code awaits: at the overlay's own flush and at the frame's flush.
Scrolling counts frames.

A flush takes the dirty rectangle and may then fail; the code logs that and goes on.
There is no variable for the panel: it shows the framebuffer but for the layers that are
dirty and the areas in `doubtful`, an auxiliary variable, which a failed flush has left
with an unknown part of the transfer (`FlushFails`).  An area leaves `doubtful` when all of
it is drawn and sent (`FlushSucceeds`).

### `Canvas`, `Framebuffer`

`DrawIter`, `FillContiguous`, `FillSolid` with clip and dirty rectangle, and a flush
that succeeds or fails at any pixel.  Rectangles are integer rectangles as in
`embedded-graphics`.  `Canvas` is the promise without rectangles: drawing changes the
picture only, a transfer brings the panel up to the picture except at pixels that are
recorded as lost.

### `FlashMap`, `WordWrap`, `GlyphCache`, `LruCache`, `TextRendering`

From the font in flash to text on the display, one thread of control in four parts.
`FlashMap` scans the MMU table entry by entry (`i`, `run_start`, `run_len` are the code's) and
maps the pages; what the table holds before is a constant.  `WordWrap` places one word, or
one character of a word that is broken, per step, with the widths that `FontRenderer`
measures in fractions of a pixel.  `GlyphCache` is `ensure_cached`, `evict_lru` and
`get_cached`; `wanted` is the glyph between the first and the last of them.  `LruCache` is the
promise: a list in the order of use, cut at its limit.  `TextRendering` maps the font, then
wraps text after text, and draws the lines in view at any scroll offset (`render_section`,
`draw_text`), each glyph out of the cache and each advance cut to whole pixels.

## 4. Runs

Passing runs:

| run | question | properties |
|---|---|---|
| `pool` | Do racing claims and releases keep pairs exclusive? | `ExclusiveOwnership`, `BitsMatchOwners`, `NoForeignBytes`, refinement `ImplementsAllocator`, liveness `SomeClaimEnds` |
| `connections` | Does every path through open, request and close give back what it took, and is an answer an answer? | `RequestsTypeOK`, `NoSlotLeak`, `SharingNeedsLinger`, `AnswerIsRight`, liveness `OpenReturns`, `RequestFreesPair` |
| `captions` | Does the right caption get to the screen? | `SettledCaption`, `NoLostWakeup`, `StatusesTellTasks`, liveness `DebounceEnds`, `CaptionConverges` |
| `deepgram_session` | Is each frame handled once, is a dead session replaced, and does the audio stay in order while it is dropped? | `StreamingTypeOK`, `EachFrameOnce`, `OutOfStepOnlyIfTorn`, `ChannelsStayAligned`, liveness `ClosedSessionReconnects` |
| `wifi` | Do status and language follow link and finger, and is every change shown? | `BoardTypeOK`, `StatusFollowsLink`, action property `FingerTurnsOnce`, liveness `ConnectorEnds`, `ChangesAreShown`, `FingerIsNoticed` |
| `display` | What is on the panel when the display task rests, and does it? | `TypeOK`, `RestShowsState`, liveness `ComesToRest` |
| `framebuffer` | Does flushing dirty rectangles show everything drawn? | `DirtyCoversChanges`, refinement `ImplementsCanvas` |
| `text` | From a font in flash to glyphs in their lines: is every byte, character and glyph where it belongs? | `TextTypeOK`, `NothingClobbered`, `FontIsMapped`, `WellWrapped`, `TextIsDrawn`, `CacheServes`, refinement `ImplementsLru` |

Some properties are conjunctions of named parts, each with its own comment where it is
defined: `AnswerIsRight`, `StatusesTellTasks`, `WellWrapped`, `FontIsMapped`, `CacheServes`,
`TextIsDrawn`.  Four further runs show a violation, each of one property that states a
comment of the code: `connections_sharing`, `captions_flush`, `deepgram_timeout`,
`display_overlay` (section 6).

Every property of a passing run is broken by a mutant: an operator, next to the
definition it replaces and commented "Mutant: ...", that has a plausible bug.

### Bounds

- `pool`: three tasks, two pairs.  Two tasks make an exchange fail; the third makes the
  mask full for a task that saw it free, and lets a released slot change hands between
  another task's load and exchange.  One of the three keeps its closed sockets.
- `connections`: three clients, two pairs, two TCP attempts; one client plain TCP with a
  delayed drop, two over TLS, one of them with the translate client.  `MAX_TCP_RETRIES` is
  5 in the code; two tell the first, a further and the last attempt apart.  The response
  buffer takes 15 units, so that one answer just fills it; `rx_buf` takes two, so that
  texts are cut, one of them within a character; bodies of up to three bytes are sent.
  The texts have an escaped quote, another escape and a character of two bytes among
  them, and two chunks meet before the key, in it, before the opening quote, in the text,
  within a character, and after the text.
  Every answer may stop at every unit.  `connections_sharing` has the program's two
  clients over TLS and its four pairs.
- `captions`: two transcripts, two languages.  A transcript can replace another and come
  back, a touch can change the language and a second one change it back to the cached
  one; forward and backward cycling coincide with two languages, which the theorems, for
  any number, do not depend on.  `captions_flush` has no touches, so that only the Flush
  can be to blame.
- `deepgram_session`: six units (`MaxUnits`), three frames: one cut by the upgrade, one
  cut by a timeout, and one after them.  The bound also means that responses pause:
  frames that keep coming with gaps under 5 ms keep the task in its receive loop for as
  long as they do, and no property says that it reads the pipe again.  A pipe of six samples, chunks of four and
  bursts of up to four: writes and reads meet the end of the ring at every even place.
- `wifi`: two attempts at the network and two at the touch controller, where the code has
  five of each; three languages, the fewest for which forward and backward differ; the raw
  coordinates on both sides of the middle and the first one off the panel, where
  the subtraction wraps.
- `display`: a transcript that fits its section; translations that are empty, need one
  frame of scrolling, or two, so that a section animates across a wait and its text is
  replaced by a shorter or a longer one while it does; one primary status and one
  indicator text besides the empty one; two languages; any flush may fail.  At most two
  of the five fields of the state (`MaxUnseen`) differ at a time from what the task has
  taken in (any two do, at every await); at most one of the two areas is in doubt at a
  time (`MaxDoubtful`; they do not depend on each other); and a translation is not
  replaced by the empty text, which "mid" after "long" stands for.  The theorem has none
  of these bounds.
- `framebuffer`: a screen of 3 by 2 pixels, two colours, areas across two different
  edges, points on and off the screen, one clip.  The smallest screen on which a box around
  two points covers a third and a transfer can break off within and between rows.
- `text`: six MMU entries and pages of four bytes; tables whose runs are too short, would
  need the last entry, end just before it, or do not exist; one region that takes its
  second page only because of where it starts.  Lines of two and a half pixels, characters
  narrower and wider than that and unknown to the font, a space of one pixel; all texts of
  up to three of four words, and two texts of five and of six lines; a line height of two
  and a half pixels, a section of three, every scroll offset.  So there are lines that fit
  and whose missing glyphs are drawn past the width, and texts whose last line is, and is
  not, in view at the end of the scroll.  A cache of three
  glyphs, and no text is begun after four uses (`MaxAccesses`); a text may go on
  from there, so that it is filled, hit and evicted from within and across texts.

### Fairness

Weak fairness is used only where the scheduling gives it.  Embassy polls every task that
has been woken, and timers fire: so the steps of a task are fair (`TranslatorStep`,
`DisplayStep`, `TaskStep`, `SessionStep`, `ConnectorStep`, `MonitorStep`, `Task`, `Proceed`, `Request`,
`CloseAfterRequest`), and so
are deadlines (`DeadlinePasses`, `OverlayTimePasses`).  Waits for the network belong to
these steps because each ends with an answer or a timeout (socket timeout 30 s,
`WIFI_CONNECT_TIMEOUT`, `DHCP_TIMEOUT`).  A claim is never blocked, so `ClaimStep` is fair
for each task.  Core 1 spins in its loop and the DMA controller delivers until it fails:
`Core1` is fair.  `start_async` and `disconnect_async` have no timeout in the code; that they
return is assumed with `ConnectorStep`.  A receive error of a connection that is open is not forced to happen
(`Unforced`).  The display's own timeouts are not counted on in `Board` and `Captions`.

Strong fairness is used once: `TouchReports`.  A poll may find that no report is ready,
any number of times; but a controller that senses a change has one ready at some later poll.

Nothing is assumed of the outside: that Deepgram sends, the server
closes, a finger touches, the access point accepts or a lease is granted is never
required.  Properties that need the outside to settle say so in their premise
(`<>[](transcript = text /\ ...)`, `<>[][~Updates]_vars`, `[](mic = "alive")`,
`<>[][UNCHANGED finger]_panel`).

`CHECK_DEADLOCK FALSE` is set for `deepgram_session` and `deepgram_timeout` (a panic in the
upgrade, or a silent microphone, really stops the task) and for `text` (the mapping may
panic, and `MaxAccesses` ends the texts).

## 5. Proofs

All theorems are about the specification for every value of its constants, under the
assumptions named in its modules:

- `PoolAssumption`: 1 to 8 pairs, finitely many tasks, any of which may keep its closed
  connections; `ConnectionsAssumption`, `TranslatorAssumption`: what the tasks and pairs are,
  and that one TLS client translates;
- `DocumentsAssumption`: a text is a sequence of characters, of which any may be such as JSON
  escapes, and its JSON comes unchunked, in one chunk, or in two that meet anywhere in it;
- `CaptionsAssumption`, `DisplayAssumption`: languages are numbered, the empty text is a
  text and is not scrolled, a value that means "none" is none of the others;
- `SessionAssumption`, `PipeAssumption`: the bound on the stream is a number; pipe, read
  buffer and bursts are whole frames;
- `RetriesAssumption`, `PanelAssumption`, `CoordinatesAreU16`, `LiftedAssumption`: at least one
  attempt, and coordinates below 2^16;
- `ScreenAssumption`, `TableAssumption`, `FontAssumption` (a width for every character that
  the font has; `split_whitespace` yields no empty word and no space), `CacheAssumption` (a
  limit of at least one), `SectionAssumption` (a line is at least a pixel high).

**`BufferPoolProofs`** - `PoolExclusive`, `PoolNeverLeaks`, `PoolBuffersClean`,
`PromptDropKeepsClean`, `PoolSuffices`, `PoolRefinesAllocator`.  The invariant `OwnershipInv` adds to the properties
that a task has a slot exactly while it owns one, and a socket on that slot or, when it
lingers, on some slot (`SocketOfOwner`).  `PoolBuffersClean` says whose bytes may be in a
pair besides its owner's: those of tasks in `DelayedDrop`.  `PromptDropKeepsClean` is the case
in which there is none: then a connection finds bytes of its own only.  Exclusiveness alone is not inductive: a
successful exchange proves that no bit changed since the load, and that this makes the
slot free needs `BitsMatchOwners`.  `PoolSuffices` (with no more tasks than pairs, a claim is
never refused) is a pigeonhole argument: the task that looks owns none of the set bits,
so there are fewer owners than pairs.  The refinement maps each atomic operation to a step
of `SlotAllocator` or a stutter; `Recheck` maps to `Refuse` because it counts the bits itself.

**`RequestsProofs`**, about `Connections` - `SlotsNeverLeak`, `ClaimIsPrivate`,
`SharingOnlyByLinger`, `PromptDropIsSafe`.  The actions fall into four kinds (a move on one
side of the claim, a claim, a release, a late drop), with one lemma each.
`PromptDropIsSafe` says that the violation of section 6 is due to the delayed drop alone:
with `DelayedDrop = {}` live sockets never share buffers.

About `Requests` - `RequestsImplementConnections`, `RequestsLeakNothing`,
`RequestsShareByLinger`, `AnswersAreRight`, `RequestsTypes`.  Every step of a request is a
stutter of `Connections` or one of its steps, so the theorems above hold of the composition,
whatever the service answers.  `AnswersAreRight` is about the parser and needs no more of
the behaviour than `ClientInv` (a request fails after data only by filling the buffer).  Its
argument follows `translate_text`: `FindsFirst` says what a search returns; `WrittenIs` what
JSON makes of a text (no bare quote ends up in it unless the text has one); `JsonOfText`
where the text and the two halves of the key stand in a JSON whose two chunks meet
anywhere (`CutInText`, `CutOutsideText`); a response carries its JSON behind the headers,
chunked or not (`WireCarriesJson`); what is left of a response that was cut anywhere, once
the framing is removed, begins the JSON (`BodyBegins`); so the text found is the
document's up to its first quote, and stands between two quotes of what was read
(`ParsedIsQuoted`).  The cut to `rx_buf` then takes a whole beginning of it
(`ShownOfText`), and a response that came whole has an answer (`CompleteIsParsed`), except
when the chunks meet within the key (`CutKeyHasNoText`) or within a character.

**`CaptionsProofs`** - `CaptionIsRight`, `WakeupsAreKept`, `StatusIsTruthful`.
`SettledCaption` speaks of settled states only; the invariant `CaptionInv` says where the
newest transcript is at any time (`TextTracked`: in the signal, in the debounce buffer, or in
`last_json`), that a job which nothing will follow is in the selected language
(`LangTracked`), and that the cache holds the translation of its own key (`CacheRight`).

**`StreamingProofs`** - `FramesAreHandledOnce`, `InStepUnlessTorn`, `OneChannelIsSent`,
`StreamingTypes`.  `SessionInv` ties the counters of the stream together; each step of
`Streaming` is a step of `DeepgramSession` or leaves it alone.  `PipeInv` is that both buffers
hold whole frames and that the oldest sample is at an even place of the ring: the second
is why what a write drops at the end of the ring is whole frames too.  For the types,
`PipeEnds` says that `mic` tells whether core 1 still runs and whether the pipe holds
audio, and `Bounds` that no frame is handled before it was read.

**`DisplayTaskProofs`** - `DisplayTypes`, `PanelShowsState`.  `RestShowsState` speaks of rest
only.  `DisplayInv` says what is true between: what the task has not seen was signalled
(`SignalCoversNews`); the sections hold the texts it has seen (`SectionsFollow`); the
framebuffer shows each section as it is, unless that section waits for a redraw, and with
no overlay up only the translation under a primary status may wait (`BufferFollows`); and
nothing is dirty when the task waits with no overlay up (`FlushesFollow`).  The
step in which all of it moves is `Wakes`: there is one lemma for each drawing
function, about what it shows, what it wipes and what it makes dirty, and one for the end
of a frame (`FrameIsFinished`).

**`BoardProofs`** - `BoardTypes`, `StatusIsOfTheLink`, `ChangesAreSignalled`, `FingerActsOnce`.
For the WiFi tasks the invariant says who writes what: only the status task says
`Connected`, and it waits for the loss of the link from then on; and nothing brings the
link up between two attempts or after the last one unless a disconnect failed
(`NoLinkBetweenAttempts`), so without such a failure the last word of the connect task
stands.  For the touch task it says that a finger that was acted on is still in the active
zone (`ActedInActiveZone`), so the test for a new zone fails while it stays there.
`ChangesAreSignalled` is the safety half of `ChangesAreShown`.

**`FramebufferProofs`** - `FramebufferTypes`, `NoChangeUnsent`, `ClipIsKept`,
`DirtyRectanglesUnseen`.  Lemmas on spans, intersections and bounding boxes of integer
rectangles; one lemma that marking a rectangle covers all that was dirty and all of the
rectangle that can be drawn; then each drawing operation only has to name its rectangle.

**`TextRenderingProofs`**, about `FlashMap` - `NothingIsClobbered`, `FontIsFoundAndMapped`.
`ScanInv` says that the last `run_len` entries are free (`RunIsFree`) and that the run could
not have begun earlier, so that no run that is long enough ends before `i`
(`NothingMissed`).  That the slice shows the right bytes is arithmetic with a page size that
may be any number: lemmas on quotients and remainders (`DivisionIsUnique`, `PagesOf`).

About `TextRendering`:

- `TextClobbersNothing`, `TextFindsFont`: the program implements `FlashSpec`, so the theorems
  above hold in it.
- `TextTypes`, `TextIsWellWrapped`.  The lines are well wrapped at every step and not only in
  the end, but that is not inductive: `LastLineInv` adds that the line being set fits, or is
  an exception, and that its first word had no room on the line before; `WordsLeft` that the
  words to come are the last of the text.  They rest on lemmas about the width, the
  letters, the first word and the concatenation of sequences (`WidthOfConcat`,
  `LettersOfConcat`, `FlattenIs`).
- `LinesInViewAreDrawn`, without a condition.  `DrawInv` says which lines have been drawn up to
  the current one, and that the pen is where the widths drawn so far put it but for less
  than a pixel a character (`PenFollows`, `PenMoves`), where a character that the font lacks
  counts as the space it is drawn as (`WidthIsSum`); that a line reaches into the section
  exactly when one of its pixels is there is arithmetic (`ReachesIsPixel`).  At the end
  of the scroll the last line ends above the section's end by the whole pixels that the
  fractions of all lines add up to (`Cut`), and is drawn if and only if these are fewer
  than the section has (`EndOfScroll`).
- `GlyphsAreServed`, `CacheIsLru`.  `CacheInv` adds to the cache's limit that stamps are distinct
  and older than the counter; there is then exactly one least recently used glyph, so one
  entry goes for one that comes.  For the refinement, `ListIs` shows that distinct stamps
  make exactly one list, so that `Recency` is it; then one lemma for each thing that
  happens to it: a glyph in front of it (`NewInFront`), one brought there (`OldToFront`), and
  the last one dropped (`LastIsEvicted`).

Where a proof needs induction (over numbers, or over sequences), it cannot use the library's
induction theorems, whose parameter is an operator, which the provers at hand cannot
instantiate.  `TextRenderingProofs` puts a set in the place of the operator: `LeastExists`
(from the well-foundedness of `<`), `CountsUp` and `Grows` say of a set `T` that it has every
number, or every sequence, and the set is that of the values of which the claim holds.  The
recursive definitions they are used on (`TextWidth`, `Letters`, `FlattenSeq`) are recursive
functions.

Only model-checked: every liveness property (`SomeClaimEnds`, `OpenReturns`,
`RequestFreesPair`, `DebounceEnds`, `CaptionConverges`, `ClosedSessionReconnects`,
`ConnectorEnds`, `ChangesAreShown`, `FingerIsNoticed`, `ComesToRest`), for
liveness under fairness and `ENABLED` are beyond the prover.  Every invariant, every action
property and every refinement that a passing run checks is a theorem.

## 6. Findings

Places where a comment says one thing and the code does another, each shown by a run:

1. **`connections_sharing`** - `networking/connection.rs:32` says only the task that claimed
   a slot accesses its buffers.  After `conn.close()` the Deepgram task keeps the
   `Connection`, with its socket, for `RECONNECT_DELAY` (`bin/main_task.rs:189-198`); the
   slot is already free, and the translation task claims the lowest free slot.
   `NoForeignBytes` of `pool` names the same exception.
2. **`captions_flush`** - `bin/main_task.rs:186` flushes "so partial transcripts aren't
   stuck".  The Flush overwrites a transcript the translation task has not read yet, and with
   nothing buffered it is ignored: that transcript is never translated.
3. **`deepgram_timeout`** - `bin/main_task.rs:167` takes a timeout for "nothing ready".  The
   timeout can drop a receive that has read a header; the next one starts in the payload.
4. **`display_overlay`** - `rendering/display_task.rs:141-142` repaints so that the overlay
   disappears.  Under a primary status the translation section is not repainted and the
   overlay stays until the status changes.

The same models show, without a run of its own:

- `bin/main_task.rs:67-68` promises to reconnect on any failure; a failed upgrade panics
  (`UpgradePanics`).
- `app_state.rs:36` says of `Error` "Last attempt failed; will retry".  After the last attempt
  at the network, or when a link is lost after a success, nobody retries
  (`wifi_connect_task.rs:91-96`): `connector` is "gave_up" or "done".
- Responses, the end of the stream included, are read only after an audio chunk.  When
  core 1's loop has ended, the session stays `Connected` for ever; that is why
  `ClosedSessionReconnects` assumes a live microphone.
- Core 1 fills the pipe while there is no session: the first chunks after a reconnect are
  audio from before it.
- A write that meets the end of the ring drops the rest of its burst although the pipe has
  room (`Writable`); the comment speaks of a full pipe only.
- A `Retranslate` can overwrite an unread transcript just as a Flush can; the caption
  then is of the older transcript (`lost` in `SettledCaption`).
- An escaped quote in a translation ends it, other escapes are shown as JSON writes them,
  and a chunk boundary within it is shown (the exceptions in `WholeOrNothing` and
  `AnswerIsFromText`).  A chunk boundary within the key hides a whole translation
  (`CompleteIsUsed`).
- A disconnect that fails is taken for one that succeeded (`wifi_connect_task.rs:62`, 83): the
  link may come up after the last attempt, and the status task then writes `Connecting` or
  `Connected` over the `Error` of the connect task (`StatusFollowsLink`).
- A flush that fails is logged (`rendering/display_task.rs:132-134`, 197-199), and what it did
  not send is not sent again until it is drawn again (`doubtful` in `RestShowsState`, the
  lost pixels of `Canvas`).
- A lost DHCP lease with the link up leaves the status `Connected`; `StatusFollowsLink`
  speaks of the link only.
- A redraw of the translation area wipes the translate indicator until its next change;
  `RestShowsState` therefore allows a missing one, and never a stale one.
- A word that is wider than the line is broken only if it is the first of the
  text (`LinesFit` names the exception), and a character without a glyph is measured as
  nothing and drawn as a space: a line that fits can go beyond its width by as much as its
  spaces (`DrawnAsMeasured`).
- The place of the last line is measured in fractions of a pixel (`rendering/layout.rs:163`)
  and drawn in whole ones (215), so the scroll ends later than the lines do, by up to a
  pixel per line.  With the 20 px font 0.96 px of each line is cut, and the transcript
  section is 53 px high: of a transcript of 56 lines or more nothing is in view at the
  end of the scroll (`VisibleIsDrawn` says when; a text of `text` has lines enough).
- "best run was ..." in the panic of the flash mapping is the length of the last run, not
  of the best one.

## 7. What is not modelled

- TLS itself, and the bytes of an open connection other than the translate client's:
  data without control that any property here depends on.  The JSON of Deepgram's
  responses is a transcript or nothing.
- The critical section around `AppState` (`app_state.rs`): each `update_*`, `read_*` and
  `cycle_target_lang` runs inside one and never across an await, so each is one step.
- Rasterisation, blending, colours, positions on screen other than the line's and the pen's,
  wire format of the panel, I2C registers of the touch controller: numeric or register
  work.  That is most of `rendering/font.rs` and all of `rendering/bitmap.rs`.
- `set_max_cache_size`: it has no caller, so the limit is a constant.  (Its comment says
  that excess entries are evicted lazily; one eviction per insertion would never bring
  the cache down to a lower limit.)
- The scheduling of `StackResources<5>`: with DHCP and DNS it leaves three TCP sockets,
  fewer than the pool has pairs; the two clients of the program need no more.
- Heap use: every TLS open leaks a host name string (`networking/connection.rs:140`).
- Program start, board bring-up, build script: straight-line code with no state
  afterwards.  The flash cache is suspended around the mapping; nothing else runs then.
- The web demonstration (`web/index.html`): a separate browser program that shares no code
  with the firmware.

## 8. Running the checks

With `tla2tools` and the community modules on the path, in this directory:

```
tlc -workers 2 -config MCCaptions.cfg MCCaptions.tla      # likewise each MC*.cfg
tlapm CaptionsProofs.tla                                  # likewise each *Proofs.tla
```

`connections_sharing` is `MCConnectionsSharing.cfg` with `MCConnections.tla`, `captions_flush`
`MCCaptionsFlush.cfg` with `MCCaptions.tla`, `deepgram_timeout` `MCDeepgramTimeout.cfg` with
`MCDeepgramSession.tla`, `display_overlay` `MCDisplayOverlay.cfg` with `MCDisplayTask.tla`; the
other configurations have the name of their module.

`text` (some 600 000 states), `display` (some 510 000) and `framebuffer` (some 130 000) take
half a minute to two minutes, `captions`, `wifi` and `deepgram_session` up to half a minute,
the others seconds.  The proofs take seconds to a minute each, `RequestsProofs` and
`TextRenderingProofs` some minutes.
