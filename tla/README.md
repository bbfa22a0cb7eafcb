# TLA+ models of the Trigonometry Dash TAS overlay and its desktop host

This directory holds models, model-checking configurations and proofs for the code that makes the program do
what it does: the scripts injected into the GDevelop game (`src/scripts`, above all the tool-assisted play overlay
in `src/scripts/tas`), the Tauri host (`src/dependencies/tauri/src-tauri/src/lib.rs`), and of the ffmpeg that the
repository carries as the program's sidecar the tool that is run (`src/dependencies/ffmpeg/fftools`): its threads,
their queues and the scheduler that joins a rendered video with its sound. The rest of the tree is codec and container
libraries, the game engine, generated code (`src/build/game`) or data.

## 1. The system

| Part | Source | State | Operations |
|---|---|---|---|
| ffmpeg job table | `lib.rs` 170-254 | two mutexes: the next handle, a map from handles to child processes | `ffmpeg_start`, `ffmpeg_write`, `ffmpeg_finish`, `ffmpeg_kill` |
| host file commands | `lib.rs` 30-130, 256-330 | none | save dialogs, clipboard, temp path, copy, save data |
| save data hooks | `lib.rs` 130-168 | `localStorage`, a debounce timer, `savedata.json` | hooked `setItem`/`removeItem`/`clear`, load at boot |
| macro recorder | `tas/1setup.js`, `3recordplayback.js`, `7housekeeping.js` | `t.mode`, frame counter, macro of key changes, last key state, ring of snapshots, replay position, requests | one call of `stack.step` per tick of the game: session start, win, edit, practice, restart, step back, frames |
| practice checkpoints | `tas/2practice.js` | stack of snapshots, `awaitrespawn` | place (z), erase (x), respawn after a death |
| video exporter | `tas/4video.js`, `5hud.js`, `6listeners.js` | `t.vidphase`, `t.vidblock`, `t.ffhandle`, `t.offtmp`, write chain and its counter | start, one frame per tick, finish, audio mix with a timeout, save, abort |
| ffmpeg sidecar: thread queues | `fftools/thread_queue.c` | per queue: a fifo for several streams, end-of-file flags, a choke, one mutex, one condition variable | `tq_send`, `tq_receive`, `tq_send_finish`, `tq_receive_finish`, `tq_choke` |
| ffmpeg sidecar: sync queue | `fftools/sync_queue.c`, `ffmpeg_mux.c` | packets and largest time stamp per stream, remembered head and finished head | `sq_send`, `sq_receive`, heartbeats on overflow |
| ffmpeg sidecar: scheduler, task threads | `fftools/ffmpeg_sched.c`, `ffmpeg_demux.c`, `ffmpeg_mux.c`, `ffmpeg.c` | a thread per demuxer, decoder, filter, encoder and muxer; waiters, pre-muxing queues, the schedule and its lock | send, receive, update the schedule, start the muxer, finish, stop |
| overlay HUD, listeners | `tas/5hud.js`, `6listeners.js` | buttons, hover, key state | turn clicks and keys into requests |
| online lists, map packs | `demonlist`, `rated`, `mappack` | fetched documents, rows | fetch on entry and refresh, play a row |
| settings, portal | `settings`, `portal` | one pending scene change | toggle, export, import, go |
| audio, decoration, build scripts | `audio`, `leveldeco`, `~build.js` | none | look-ups and text insertion |

How they interact. The page is single threaded; the host's commands are synchronous functions behind
mutexes, and on which threads Tauri runs them is not for this code to say. The overlay
replaces the game's `step`: every tick passes through `stack.step`, which decides what the game is given
(`t.origstep`). HUD and listeners never act on the game; they set request fields that the next tick serves.
The exporter takes over the tick (`offlinetick`) and leaves promise chains behind, which call the host
(`invoke("ffmpeg_write")` and so on) and write into the one object `t` whenever they are answered. One of these
calls, `muxav`, runs a whole ffmpeg: two demuxers feed the muxer, one directly (the video is copied), one through
decoder, filter and encoder (the sound). Its threads talk through thread queues only; the scheduler holds a demuxer
back while its stream is too far ahead; the muxer passes everything through a sync queue that ends the file with its
shortest stream (`-shortest`). The exporter waits for its exit code, or for 30 s.

What is hard, and where a test would hardly go:
- the interleaving of host commands on two mutexes, one of them held across a blocking write;
- promise chains that outlive the render they belong to, and read shared fields when they run;
- a failure, the abort key or a level change at any point of an export;
- rolling the recorder back: the game, the macro, the last key state, the ring and the replay position must
  move together, in every mode, while sessions start and end by themselves;
- the crash between truncating and writing `savedata.json`; answers of fetches out of order;
- several producers and a consumer on one condition variable, with streams that end or are given up at any time;
- threads that wait for each other in a ring: demuxer for the schedule, muxer for the encoder, queues full and
  choked, the muxer not started before the first sound has been decoded, the end and the failure of any task.

What makes each part correct:
- job table: a process has one owner, none is lost, no frame is cut, handles are not reused, commands return;
- exporter: what is saved is every frame of one render in order; input and sound are given back; memory is
  bounded; the end is reached; a finished export leaves nothing behind; an abort is final;
- recorder: a macro says what the game was given; a replay gives the game the same; a step back stays on the
  run's own timeline; a replay is not cut short;
- thread queue: per stream a channel that loses, doubles and reorders nothing and ends once; no lost wake-up;
- sync queue: no stream goes on past its first packet that lasts longer than the shortest stream, and none stops
  before; what waits is bounded;
- scheduler: the file is whole, no stream runs away, and the process ends.

## 2. Modules

| Module | What it models |
|---|---|
| `JobTable` | abstract specification of the job table: every command is one step |
| `FfmpegJobs` | the job table at the grain of its mutexes, with the child processes as environment |
| `FfmpegJobs_proof` | TLAPS proofs about `FfmpegJobs` |
| `SavePersist` | `localStorage`, its mirror `savedata.json`, the debounce and the init script, over several starts |
| `SavePersist_proof` | TLAPS proofs about `SavePersist` |
| `VideoExport` | the exporter: page, promise chains, host, disk. It takes the host's job table from `JobTable` |
| `VideoExport_proof` | TLAPS proofs about `VideoExport` |
| `MacroSession` | sessions, step back, replay, edit, practice checkpoints |
| `MacroSession_proof` | TLAPS proofs about `MacroSession` |
| `TrimMacro` | `trimmacro`, on the macros that a session with deaths can produce, and the replay of its result |
| `TrimMacro_proof` | TLAPS proofs about `TrimMacro` |
| `Channels` | abstract specification of a thread queue: every stream is a channel of its own |
| `ThreadQueue` | `thread_queue.c` at the grain of its mutex |
| `ThreadQueue_proof` | TLAPS proofs about `ThreadQueue` |
| `SyncQueue` | `sync_queue.c` as operators on the state of a queue |
| `SyncQueueUse` | a sync queue under every order of packets and ends, as the muxer uses it |
| `SyncQueueUse_proof` | TLAPS proofs about `SyncQueueUse` |
| `Transcode` | the threads of muxav's ffmpeg, the scheduler and the stop; it takes `SyncQueue` as the muxer's queue and queues that behave as `ThreadQueue` |
| `Transcode_proof` | TLAPS proofs about `Transcode` |
| `MC*` | instances for TLC |

Operators introduced as "a mistake" are variants of the definition below them with a plausible bug. They are
used by no specification; `PROJECT.json` pairs each with the property that must fail when the variant is put
in its place.

### FfmpegJobs
`next`, `jobs` are the two fields of `struct Ffmpeg`; `nextOwner`, `jobsOwner` say who holds their mutexes.
`ffmpeg_start` is three steps (spawn; lock and count; lock `jobs`, insert, drop both guards), because
`let mut next` lives to the end of the function. `ffmpeg_write` is a step that takes `jobs`, one per piece of
the frame that fits in the pipe, and one that drops the guard; `ffmpeg_finish` removes and closes stdin under
the mutex and waits outside it; `ffmpeg_kill` is one step. A command that finds no job returns an error and
changes nothing, so it is not a step. ffmpeg reads, ends at end of file, or fails at any moment.

### SavePersist
The page, the host and the disk in one module: `store` is localStorage, `kept` what the webview has of it on disk,
`file` is `savedata.json` (or `Broken`, not JSON), `baked` the literal in the init script. `SetItem` is the hooked
function, `Persist` the timer, `calls` what has been sent to `save_data`, whose `std::fs::write` is two steps:
emptying the file and having written it. `Start` and `Load` are the two halves of a start: the script's
text is made when the window is built and run when the page loads. `safe` remembers the last complete save.
A value is the number of the change that made it; that parsing and printing JSON changes the layout of a
value is left out. The order of calls is that of a synchronous command served by one thread. `faults` says which kinds may happen,
a choice made once at the beginning: kills, failing writes, a webview that is late in writing localStorage,
reloads of the page.

### VideoExport
One action is one event handler, one promise callback or one tick. For every render `g` the record `job[g]`
holds where its three chains are: `start` (temp path, spawn), `queue` and `flight` (writes), `export`
(drain, finish, mix, save). The shared fields of `t` are variables, read when the code reads them: `WriteCall`
uses `ffhandle` as it is when the write's turn comes. A call to the host takes effect with its answer, at any
later moment; kills nobody waits for are in `kills`. `scenario`, fixed in the initial state, says how many renders of
how many frames there are and which interruptions may happen. `disk` is what is in the temp directory. What fails may
leave its output there: an ffmpeg of `muxav` that does not exit with 0 (`-y out`, whose name `muxav` then forgets), a
`write_bytes` that breaks off, a `remove_file` whose error nobody hears of (`Removals`).
A tick that paints several frames is several `TickFrame` steps. Left out: pixels, audio samples, the volume fade of
the countdown, and the recorder (a video needs a finished macro, taken as given).

### MacroSession
`stack.step` does several things in a fixed order and runs n frames at its end, where n is 0 whenever less
than a frame's time has passed. So each phase is an action of its own, enabled when the ones before it have
nothing to do (`Settled`, `Served`, `FrameDue` are those conditions), and n frames are n actions. The
deterministic game is represented by the sequence of inputs it has been given since frame 0 (`game.log`) and
whether it is paused or won; a snapshot contains that, so restoring one rewinds it. `fresh` stands for the
comparison of the level's stopwatch with `t.prevstop`. An input is any set of keys, the mouse button and a place of the
cursor. Where the player clicks in the level Space is pressed too, but the recorder does not see to it: the button is
recorded before the overlay looks whether it was hit (`6listeners.js:6-8`) and is pressed again alone
(`3recordplayback.js:122`). So the mouse comes with and without Space, and a replay, whose `applykeystate` holds Space
wherever the mouse is (`Applied`), gives the game more than was recorded. Until the first event of the cursor
`t.playcursor` is null and the cursor is where the user has it (`Given`). `prev` joins `t.prevkeys`, `t.prevmouse`,
`t.prevcursor`; `playing` joins `t.playpos` and the replayed state. `scenario` says what the user does and for how long.
`"bridge"` adds the commands that arrive through the scene variable `macroCmd` (`syncbridge`), which unlike
the buttons are obeyed in every mode.
Left out: the u-backtrack, `trimmacro` (`TrimMacro` has it; players here do not die without a checkpoint), import and export of macros,
pace and freezing (they only choose when frames happen), player icons.

### TrimMacro
`Trim` is the function, built from operators named for its parts: `Deaths` (stretches of dead frames that no
backtrack caused), `Clusters` (a recursive function over the respawns, in their order), `From` and `Cut` (what goes), `Kept`, `Desired` (the inputs
after the events up to a frame). The macro is recorded by actions, one per frame: the player moves, dies,
respawns at the checkpoint touched last, or backtracks to an earlier one; `Replay` trims it. `Played` is
`playframe`, position in the events included. Places lie on a line; the cursor, which is diffed like a key, and
the rest of an icon entry are left out.

### ThreadQueue
One action is what a thread does between taking the mutex and giving it back, by returning or by waiting on the
condition variable. `fifo` joins `fifo` and `fifo_stream_index`, which are read and written together; `finished` is the
pair of flags per stream; `sender` and `receiver` say who waits and who was woken. The consumer's pass over dropped
items is one action with the number of items in it. `C` maps the queue to `Channels`: an item is in the channel from
the moment it is accepted. Left out: failing allocations and what is in an item.

### SyncQueue, SyncQueueUse
A packet is the time at which it ends, pts and duration added, in ticks of which the time base of every stream and a
microsecond are multiples: comparing two time stamps is exact, as `av_compare_ts` is, and `av_rescale_q` rounds
(`Near`). The packets of a stream come in decode order, so their ends may go up and down. The operators bear the names of
the C functions and take the queue as an argument, so that `Transcode` can use them; `SyncQueueUse` drives them in the
order of `sync_queue_process` and `sq_receive`, where `overflow_heartbeat` goes through the streams one step at a time.
Left out: time bases whose numerator is not 1 or that change under a stream, packets without time stamp, and the sample counts of the encoder's queue (`receive_samples`, `frames_max`).

### Transcode
The graph is that of `muxav` (`4video.js:351`). `pc` is where a thread is and `hand` what it holds; one action is what
a thread does under one lock, or with one queue. `Update` is `schedule_update_locked`: it decides at once, but
`ApplyChange` sets the waiters and chokes one by one, because `sch_stop` does the same without the lock. The muxer is
started by the thread that brings the first decoded sound (`OpenEncoder`, `FlushPremux`, `MuxStarted`), while the
video's demuxer may be at either side of the test in `send_to_mux`. `Fail` ends a task with an error; its cleanup and
the stop follow. `Left` and `Due` are the loop over `sq_receive`: what stays in the sync queue, and how many packets go.
A packet has two times. The scheduler goes by its dts (`Dts`, `DtsEnd`), which rises by a duration with each packet; the
sync queue goes by pts and duration (`End`, `PacketEnd`), which rise and fall in the video, as its B-frames are copied in
decode order. Abstracted: both streams' dts begin at 0; one packet is one frame; a filter graph has its one input open and no control stream; the
heartbeats of the sync queue (10 s of time against a tolerance of 0.1 s); the limit of the pre-muxing queues; inputs
have at least one packet.

## 3. What is checked

| Run | Shows | Bounds |
|---|---|---|
| `ffmpeg_jobs` | `OwnedOnce`, `NoneLost`, `WholeFrames`, `NoResurrection`, refinement of `JobTable`; every command returns | 2 callers, 3 jobs, frames of 2 pieces, a pipe of 1 |
| `save_persist` | `SavedSurvives`, `NoOlderSave`: what was saved survives and the file never goes back, if not both copies are unsound; `QuietSaved`: the mirror is exact whenever nothing is under way; every change reaches the file | 2 keys, 4 changes, 3 starts, every set of faults |
| `video_export` | saved files are whole (`SavedWhole`) and chosen once (`SavedOnce`); input and sound are withheld exactly as long as they must (`Withheld`); memory is bounded (`Backpressure`); nothing runs on, and the files left are those whose name the code has let go of (`NothingLeft`); every pause and every export ends (`PauseEnds`, `ExportEnds`) | pause above 2 writes; four scenarios: 2 renders of 4 frames whose start, wav and mix may fail; 2 of 1 frame whose wav, mix and removals may fail; 1 render of 4 frames with every fault; 2 overlapping renders of 1 frame with every fault but leaving the level |
| `video_export_abort_save`, `video_export_abort_leak` | disagreements, see section 5 | 1 render, 1 frame |
| `trim_macro` | where deaths are cut out the player does not jump unless he backtracks or touches checkpoints from afar (`Seamless`), only detours are cut (`OnlyDetours`), no death is replayed and the last attempt is whole (`LastAttemptWhole`), and the trimmed macro presses the same keys in the kept frames (`InputsFollow`) | 6 frames, 4 places, 2 checkpoints, 1 key changed twice, with and without backtracks and distant checkpoints |
| `macro_session` | macro and replay say and do what was done, but for Space where the mouse is pressed and a cursor not yet moved (`MacroFaithful`, `ReplayFaithful`); the ring is one timeline; events are in order; no replay is cut short | ring of 2; four scenarios: 2 sessions of 3 frames with steps back and level changes, the mouse pressed without Space; 1 session of 3 frames with edits, 2 keys, the mouse without Space and 3 cursor places; 1 session of 2 frames with everything and a checkpoint; 1 session of 2 frames with steps back, practice mode and `macroCmd` |
| `macro_checkpoints` | a disagreement, see section 5 | 1 checkpoint |
| `thread_queue` | no wake-up is lost (`NoLostWakeup`), every stream is a channel (`ImplementsChannels`), every call returns unless the consumer is choked for good (`CallsReturn`) | 2 producers, a fifo of 2, 3 items each |
| `sync_queue` | the remembered head is the trailing stream (`HeadIsTrailing`); every stream is cut before its first packet that lasts longer than the shortest one (`ShortestCuts`); who has come that far is told to stop (`ToldToStop`); what waits is less than the buffer, or the rounding of a fake time stamp lacks less than half a unit (`Bounded`) | 2 limiting streams of up to 3 packets that end in any order, times up to 10 ticks, time bases of 1 and 5 ticks, a buffer of 2 us of 2 ticks |
| `transcode` | the file has either stream up to its first packet that ends after the other input (`WholeFile`); no stream runs away (`Balanced`); the process ends (`Ends`), also when the muxer or the sound's demuxer fails | inputs of 1 or 2 packets of length 3 and 2, the second frame of the video shown before the first, queues of 1 |
| `transcode_stop` | a disagreement, see section 5 | the same, no failure |

Why the bounds are enough. Three starts are one that saves, one that loses or cuts something and one that sees
the result; four changes of two keys let two snapshots be on their way with a change behind them. That changes are finitely many
matters for `ChangesAreSaved`: changes that come less than 400 ms apart for ever set the timer anew each time
(`lib.rs:156`), and nothing is saved until they pause.
Two callers and three jobs let a handle be used by both callers, by a finish and a
kill, and be followed by a new one; two pieces with a pipe of one make every write block half way. Four frames
with a mark of 2 (24 in the code) make a render pause, resume and pause again; `Low` is 0 (6). Two renders are
one that leaves chains behind and one that meets them. Three frames with a ring of two overflow the ring and
still leave two steps back; a session, its replay and a second session (or an edit of the replay) are all the
ways a macro comes into being.

A fifo of two with three items per stream is full with items of one stream, of both, and behind an item to drop.
Buffers and times of the sync queue let a heartbeat be faked before and after the other stream has begun, and leave room
for a stream to end behind, at and ahead of the other's end; three packets in any order are one behind, one between and one
ahead of it. With time bases of 1 and 5 ticks a fake time stamp is rounded below the packet it is to let go, which in
the code takes bases such as 1/48000 and 1/15360: without its second half `Bounded` is violated. Queues of one packet are the tightest: whoever can block
does; two packets of unequal length let either input be the shorter, end while the other is choked, and be queued before
the muxer starts. `TypeOK` of `FfmpegJobs`, `SavePersist` and `ThreadQueue`, their inductive invariants and
`ThreadQueue!Queued` are proved and not part of a run, and so is `TypeOK` of `SyncQueueUse`.

`CHECK_DEADLOCK FALSE` is given everywhere: an idle host and a user who does nothing more are legitimate
ends, and the bounds make them reachable.

Fairness. `FfmpegJobs!FairSpec`: a command that has begun goes on (weak); a mutex that is released again and
again is not withheld from a waiting `ffmpeg_start` for ever (strong: the standard mutex promises no order,
but a waiter is woken on each release); ffmpeg reads its input. Nothing says that commands are called.
`SavePersist!FairSpec`: the timer fires and calls are served; the user may close the program all the same.
`VideoExport!FairSpec`: the game loop ticks, every call to the host is answered (the save dialog too), a
timer fires. Nothing is assumed of the user or of faults.
`ThreadQueue!FairSpec`: a woken thread gets the mutex, the consumer comes back for more, every producer ends its stream
some day (`task_wrapper` sees to that). `Transcode!FairSpec` is weak fairness of the whole process: some thread that
can go on does. Every step brings the process nearer to its end, so no more is needed.

Six frames hold two respawn places with deaths at both, or three deaths at one. The four places contain pairs
that are within 6, between 6 and 16, and more than 16 apart. Two changes of one key are a press and a release.

Some properties are checked for the part of the system in which the code has them, and the features that
break them are named among the hazards in `PROJECT.json`: with an abort followed by a second render
`SavedWhole`, `Backpressure`, `Withheld` fail (stale chains; `Apart` and `Undisturbed` exclude it, so the hazards of stale
chains are not covered); `MacroFaithful` fails when a step back follows
an edit (snapshots of a replay carry no key state), for the cursor with any step back (`prevcursor` is not
rewound), and in the frames of an edit that were replayed, where it need not have the Space that the replay held;
`Bounded` with three streams (a heartbeat looks at the one most ahead only), `SavedSurvives` when the page is reloaded (the init script holds the
content the file had at the start of the program), `Seamless` when a checkpoint can be touched from further than 6 px away or the u key leads back to an earlier one: the cuts
of two checkpoints may overlap then, and the player jumps from one to the other (a recording with backtracks in which he does has 14 frames), `OneTimeline` and `MacroFaithful` with
practice respawns, and with an edit begun while `macroCmd` had switched recording off (`OneRun` excludes both: a restart
of the level then starts no session, as `3recordplayback.js:285` looks at `t.recording`), `NotCutShort` when a replay is
stepped back or, by `macroCmd`, begun again during the win animation. No document of the repository promises otherwise, so these are notes and not findings.

## 4. What is proved

`FfmpegJobs_proof` proves, for any set of callers, number of jobs, frame and pipe size (assumed: a no-thread
value that is no thread, positive sizes):

- `TypeCorrect`, `OwnedOnceAlways`, `NoneLostAlways`, `WholeFramesAlways`: the invariants of the run;
- `NoResurrectionAlways`: handles are issued in increasing order and never come back;
- `Inductive`: the invariant of the argument below;
- `Refinement`: the locked table implements `JobTable`, so that `VideoExport` may use the latter.

The argument. None of the three safety invariants is inductive. `IInv` adds: who is in a critical section
holds its mutex and the other way round, and the number about to be inserted is the newest and in no use
(`Locking`); every child in the table or in hand has been spawned and has the stdin its place implies
(`Placed`); and a running child with part of a frame is the one some thread is writing (`Partial`). The lemmas
`StartSpawnInv` ... `ProcessInv` are one per action; `NextInv` joins them; the invariants follow. `WholeFrames`
follows from `Partial`, since a writer's job is in the table and a job in the table has its stdin open.
`Refinement` counts a handle as issued once `next` is unlocked: numbering is then a stutter and the insert is the
abstract start.

`SavePersist_proof` proves, for any keys and bounds:

- `TypeCorrect` and `QuietSavedAlways`: types, and the exactness of the mirror, under every fault;
- `Inductive`: the invariant of the argument below;
- `SavedSurvivesAlways`, `NoOlderSaveAlways`: with `OneCopy`, a completed save is never lost nor overwritten by an
  older one. `OneCopy` says that the page is not reloaded and that not both copies are unsound: either nothing cuts
  the file off (no kill, no failing write) or localStorage is on disk at once.

The argument. `QuietSaved` follows from `LastIsStore`: the last snapshot on its way is the store. For the other two,
`IInv` says that the last save, the one being written, those waiting and the store are in the order in
which they were taken (`InOrder`), that the file is the last save or cut off (`FileSound`), that nothing happens
between a start and the load (`Starting`), that localStorage on disk is not behind unless it is lazy (`KeptSound`),
and that no value is newer than the last change (`NotFromTheFuture`, which makes a new value the newest). `LoadInv`
is where the copies meet: a file that can be read is the last save and wins; one that cannot leaves localStorage.

`VideoExport_proof` proves, for any number of renders and frames, any marks of the pause and any scenarios:

- `SavedWholeAlways`, `WithheldAlways`, `BackpressureAlways`, `NothingLeftAlways`: the properties of the run, which
  speak of renders that do not run into each other (`Apart`: nothing interrupts, or there is one render only);
- `Invariant`: the invariant of the argument below.

The argument. Everything the chains share is in the one object `t`, so the invariant first says whose it is: only the
latest render is at work, and the next one is not begun before it is through (`Ordered`); `t.ffhandle` and `t.offtmp` are
those of the latest render and its handle is the latest one issued (`Encoder`); its chains take turns (`InTurn`). Then, of
the latest render, what the encoder has received followed by what is queued is what was painted (`Whole`) or the render
is `Lost`: its encoder failed or is gone, or nobody knows its handle any more. A lost render never gets the exit code 0,
so what is muxed and saved is whole (`Contents`, `Saves`). Without interruptions the phase shows how far the render is
(`Calm`), which is why it may be taken for "nothing runs on": `CalmRest`. Of the files,
only those the code can still name are claimed to be gone: its video, the file that was saved, and the wav of a mix that
has answered (`OnlyUnusedLeft`). The lemmas are one per action; `AudioStep` is
shared by the three that end the audio, which may come after the next render began.

Its second half proves in every scenario, overlapping renders included:

- `TypeCorrect`, and `SavedOnceAlways`: the file offered to the user is chosen once.

The argument. The handles issued are counted by the renders whose encoder was started (`Spawned`), so they do not run
out; every video on disk has a job that encodes it and every mix was made from such a video (`Made`), so a saved file has
frames; and a chain has a file to save only after it has left "muxing" (`Course`), where alone one is chosen.

`ThreadQueue_proof` proves, for any number of streams, queue size and number of items:

- `TypeCorrect`, with the bound of the fifo; `NoLostWakeupAlways`; `QueuedAlways`;
- `Refinement`: a thread queue implements `Channels`, one channel per stream.

The argument. `NoLostWakeup` is nearly inductive by itself: with the types, each action either broadcasts or leaves
what a waiter waits for as it was; what has to be shown is that no action makes room or an end without a broadcast. For
the refinement, `Queued` says that the fifo holds, per stream and in order, exactly the items accepted and not given out
(`Numbered`, `Ordered`, `Complete`) and that nobody is inside of `tq_send` of a stream that has ended (`Counted`). An
end is given out when the fifo has nothing but items of given-up streams, so by `Complete` everything accepted was got.

`SyncQueueUse_proof` proves, for any number of streams, any choice of limiting ones, any buffer duration and any latest
end:

- `TypeCorrect`; `HeadIsTrailingAlways`; `ToldToStopAlways`;
- `ShortestCutsAlways`: `-shortest` gives out every stream whole up to its first packet that lasts longer than the
  shortest limiting one, and no further, in whatever order its packets end;
- `BoundedAlways`: of two streams, what waits is less than the buffer duration, or the stream that is waited for has been
  given a time stamp less than half a unit of its time base before the packet that waits.

The argument. `Sound` is what the queue keeps of its own state: `head_finished_stream` is the ended limiting stream with
the smallest end (`CutIsEnded`, `CutIsFirst`); the finished streams are those that have ended and those that have come
that far (`FinishedPast`, `OnlyPastFinished`); `head_stream` is known once every limiting stream has a time stamp
(`HeadKnown`) and is then the one furthest behind (`HeadTrails`). `EndSound` and `UpdateSound` show this of the two
operators that change it. The former rests on the fact that an ended stream never moves again; the latter that a stream
which passes the cut finishes nobody but itself (`CutAgain`). The rest of `IInv` ties the queue to its history: what was
sent is what was given out followed by the fifo (`Traced`), a time stamp is the largest end of the packets sent unless
it was faked (`HeadIsTop`), and nothing given out is beyond the queue head, which never goes back (`GivenWithinHead`).
At the end no stream has anything to release; a packet left over that is within all ends would have a limiting stream
before it, which has ended or come as far as one that has. That there is a stream furthest behind and one most ahead
(`TrailingIn`, `AheadIn`) follows from a bound of the time stamps (`Highest`) and the well-foundedness of the naturals (`MinIn`).
`BoundedAlways` is about the states between two calls: the queue gives out until it has nothing to give, then looks for
an overflow, and begins again if it has faked a time stamp. `IdleBounded` shows of a queue with nothing to give and
nothing to fake that it is within the buffer, if the other stream is not ended and empty: with two streams the one that
waits is the one most ahead, which is the one looked at. If it has faked one in vain, `FakeIs` says by how little (`Near` is
at most half a unit off), and `BeatTold`, `Waits` carry that through the heartbeats to the next look.

`MacroSession_proof` proves, for any ring size, keys, number of frames and sessions, and any scenario:

- `OneTimelineAlways`, `NotCutShortAlways`, `EventsInOrderAlways`, `MacroFaithfulAlways`, `ReplayFaithfulAlways`,
  `TypeOKAlways`: all properties of the run; `Invariant` and `FaithInvAlways`, of the arguments below.

The ring. A snapshot is on the way of the game if its log is the beginning of the game's up to the snapshot's frame.
`PushShot`, `FrameWay` and `BackWay` show that a frame, its snapshot and a step back keep the ring on the way; `Way` adds
that a frame number is the length of the log whenever a session is under way, `Control` says which requests can be open
in which mode, so that a step back is never served in a session the ring does not belong to. The end timer of a win
(`Timer`) is only set in a replay that was won, and without steps back only its own end or a restart of the level leaves
that state, so what it ends is that replay. Both need nothing about the contents of a macro.

The order. `Chronicle` says that the events of every macro rise with their frames and that those being recorded lie
behind the frame that is next; it holds at checkpoints too. It rests on what the operators do: `filter` on a rising
sequence keeps a prefix of it (`Parted`, `Kept`), `recordframe` appends events of the present frame, one for each item
that changed (`Noted`, `Noting`). A macro read up to a frame (`Reads`) depends on the events up to there only
(`ReadsSame`); hence dropping later events changes nothing before (`ReadsBefore`), and noting a frame gives what was
given in it provided `prev` is what the macro read before (`ReadsNoted`).

Faithfulness. `MacroFaithful` alone is not inductive: that the next frame is noted right depends on `prev`, that a step
back is right on the snapshots below it, that an edit is right on the replay standing where it should, and that on the
macro it took. `FInv` joins them: while recording, the macro says what is in the game's log or, after an edit, something a
replay of which that is (`Said`), `prev` is what it says last and every snapshot has the last input of its own log
(`Recorded`); a replay of the macro taken gives what a replay of the inputs given then would, and it is at least as long
(`Taken`, `Alike`); a replay holds what its macro says of the frame before, all events before its position are
past and none after it (`Stands`), and the game was given what the macro says, with Space held by the mouse
and any cursor until it is moved (`Replayed`, `AsReplayed`). `Rebuilt` shows this of `rebuildplaystate`, `FramePlayed` of `playframe`; `FaithfulBack` and `FaithfulEdit`
are the two hard steps. TLC checked `FInv` before it was proved. It uses the other invariants: the edit needs `Timer`
(a replay that may be edited is not past its macro's end). `SaidAlike` is why edits may be edited again: holding Space
for the mouse twice is holding it once, so what a replay makes of a replay is what it makes of the macro.

Types. What a macro holds are values some input has (`Events`), what a snapshot holds too (`ShotIn`), one taken at a
checkpoint is of a frame not counted yet; the position of a replay is inside its macro wherever it stands
(`StopsInside`).

`Transcode_proof` proves, for inputs of any length, packets of any duration, queues of any size and any set of tasks
that may fail (assumed: `BoundsAssumption`, positive sizes):

- `BalancedAlways`: no stream runs ahead of the other by more than the tolerance and what is under way, where the run
  has too few packets for the sound ever to reach the bound; `Invariant`, of the argument below;
- `WholeFileAlways`: when the process ends without a failure, the file has either stream whole up to its first packet
  that ends after the other input, and nothing from there on, however long the inputs are, in whatever order of time their
  packets come and whatever order the threads run in. Later packets of the decode order that would end in time are
  lost then, as the sync queue looks at the first that waits only; and behind a packet that ends with the other input
  the stream may stop at once, or not, as the threads run; `TypeOKAlways`; and
  `WholeInvariant`, the second argument below.

The argument for `Balanced`. Only the time until something ends counts (`Open`). Then the streams to be held back are those `Blocked`
(`UnchokedIs`), and the plan under way is that of the present time stamps (`Sync`), since they change under the lock of
the schedule only. The packets of the sound are numbered through from the muxer to the demuxer (`AudioAt`: a thread has at
most one in hand, a queue the next ones in order), so at most `Room` and one are between them (`Between`). `Gates` joins the
two: a stream that is blocked is held back, or its own thread is about to do so and brings no packet on meanwhile; from
then on the demuxer lets no packet through, and the sound comes as far as its demuxer has got. A step that
changes neither time stamps nor queues is `Still`; the others are one lemma each (`LetThrough`, `SendCore`, `TakeCore`,
`VideoSentCore`, `AudioSentCore`, `ApplyCore`).

The argument for `WholeFile`. `WholeFile` speaks of the end only; what makes it true is that no packet is lost or doubled
on the way. `Way` says so with two counters no thread has: `c[t]`, how many packets thread t has given on, and `m[s]`, how
many packets of a stream have been put into the muxer's queue. Then what a thread has taken is what the thread before it
has given less what is in the queue between them, and that is `c[t]` or one more (`Link`); a worker's queue holds the
next numbers in turn (`InTurn`); the muxer's queue holds those up to `m[s]` (`Line`, as both streams share it), and the
pre-muxing queue those from there to what the sender has given, with the end of the stream behind them (`Lot`). So a
packet that goes through the pre-muxing queue, one that goes past it, and the end of the stream keep their order, whichever
side of the muxer's start they are on. Ends go down the same way: who has been told of one was told by a thread that is
at its own end (`Gone`, `Closed`), and without a failure such a thread has given on the whole input (`Drained`), for nobody
refuses what is still to come (`Refused`) and nobody leaves with something in the queue (`AllTaken`). In the muxer,
`CutOK` ties the sync queue to the file: the time stamps are the largest ends of the packets that came, what is written does not end
after the trailing stream, what waits does. When the queue is at its end, its trailing stream is one that has come whole, and
`CutWhole` concludes: what is written ends with it or before, and the first packet left passes it. All this is
claimed while the muxer takes packets (`Muxing`); afterwards the other threads are refused and drop what they have, but
`sq` and `written` stay (`Filed`), and the main thread ends only after the muxer or a failure (`Stops`). The three
parts that are not steps of a packet are each inductive on their own: types (`Shaped`), `Opening`, `Stops`. TLC checked
the whole invariant, with every task failing, before it was proved.

`TrimMacro_proof` proves, for any places and checkpoints on the line, any keys and recordings of any length (assumed:
`PlacesAssumption`, places are natural numbers and the first is a checkpoint; `ItemsAssumption`, finitely many keys, none
of them named "back"; `BoundsAssumption`):

- `TrimmedInputs`, `TrimmedSeamless`, `TrimmedDetours`, `TrimmedLastAttempt`, `TypesOK`: all properties of the run;
- `Recordings`, the invariant of the argument below.

The argument. The invariant is about what is recorded; that a trimmed macro is right follows from that without any further
step. `Recorded` says that the events are in the order of their frames (`Ordered`) and that there is a place or `Dead` for
each frame. `OnRoute` says how the player goes where no two checkpoints pass for one (`Apart`) and the features are off:
he respawns at checkpoints only, never before the last one, and
only at the start or at one he has been within 6 px of; and from the time he has been near one he never respawns before it (`Route`).
What the functions of `trimmacro` compute is shown step by step from what their recursive functions say of the next step,
by induction (`Induction`, a consequence of `Least`, which rests on the well-foundedness of the naturals):
`InOrderFacts` (a set of frames as a rising sequence), `ClustersFacts` (a cluster spans from one answered death to the
respawn after it or after a later one at about its place, and every answered death is in one), `PlayedIsDesired` (a replay
gives in frame f what the events up to f say). `OnlyDetours` and `LastAttemptWhole` need the clusters only:
a frame cut lies in a death, or after the first visit and before the last respawn of a cluster (`CutFacts`, `FromFacts`).
`InputsFollow` shows by induction over the kept frames that the events written for the first n of them leave the inputs the
original has in the n-th (`TrimEvents`, `DesiredMore`), then uses `PlayedIsDesired` on both sides. For `Seamless` the cut
must be that of one cluster: on the route two clusters have different checkpoints, and the first visit of the later
comes after the last respawn of the earlier, so that frames cut in a row belong to one cluster alone (`CutIsCluster`), which
begins after a frame near its checkpoint and ends with a respawn there.
The proof of `Seamless` failed for recordings with backtracks, and the step that failed led to the counterexample of
section 3: a backtrack lets the player respawn before a checkpoint he has been near to. TLC confirmed it on that recording.

Only model-checked: liveness (`CommandsReturn`, `ExportEnds`, `PauseEnds`, `ChangesAreSaved`, `CallsReturn`, `Ends`).
Liveness under fairness and ENABLED are beyond the provers used here.

## 5. Disagreements between the code and what it says

- `AbortIsFinal`: `6listeners.js:102` has an "abort key for video exports" that answers "recording stopped";
  once the last frame is painted, and the handle is gone, the chain of `finishoffline` muxes and saves all
  the same.
- `AbortStopsEncoder`: "press esc during recording to abort." (`3recordplayback.js:348`); an abort before
  `ffmpeg_start` has answered kills nothing, and the answer stores a handle nobody will finish, which also
  disables the video button until a later render ends.
- `CheckpointsReplay`: `1setup.js:64-65` says that z and x are recorded "so practice checkpoints replay
  correctly inside macros"; a respawn drops the key changes of the checkpoint's own frame.
- `StopDrains`: `ffmpeg_sched.c:2732` lets the consumers of the demuxers go on, "unfreeze to allow draining", and
  :1397 has it that "on termination request all waiters are choked, we are not to unchoke them"; but `sch_stop` does not
  wait for a schedule that is being applied. A thread past the test of `terminate` chokes the decoder after `sch_stop`
  has let it go; if its demuxer has exited nobody will ever let it go again, and the join does not return. Then the
  `ffmpeg_run` of the mix is never answered, and the export ends by the timeout of 30 s. `Ends` names this state.

## 6. Not modelled, and what is left

Without state worth a model: drawing and layout of the HUD, portal and settings scenes, file dialogs, audio decoding,
build scripts, the engine and the generated game. The libraries of ffmpeg (`libavcodec`, `libavformat` and so on), nearly
all of the tree's lines, transform data; the control that runs them is in `fftools`. Of `fftools`, options, the inside
of filter graphs, hardware set-up and the encoder's sync queue are left out, and of the scheduler what the graph of
`muxav` has not: several outputs, looped inputs, heartbeats of subtitles, loopback decoders.

Left for later:
1. the online lists and map packs: fetches of a visit that was left or refreshed answer late;
2. frame pacing: accumulator, pace, freezing, the cap of four frames per tick;
3. `VideoExport` and `MacroSession` composed over `t.mode` (a session may start while a video renders);
4. the u-backtrack in `MacroSession`; an abstract recorder (a list of inputs with an undo) that it implements;
5. `Transcode` on `Channels`, for any graph.
