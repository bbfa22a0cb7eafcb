----------------------------- MODULE VideoExport ------------------------------
(***************************************************************************)
(* The video exporter of the TAS overlay (scripts/tas/4video.js), from the *)
(* video button to the saved file, with the asynchronous calls it makes to *)
(* the host (lib.rs) and the ways it is interrupted: the abort key         *)
(* (6listeners.js), ffmpeg failing, the level being left                   *)
(* (3recordplayback.js).                                                   *)
(*                                                                         *)
(* The page is single threaded: one action is one event handler, one       *)
(* promise callback or one tick of the game loop.  What is concurrent are  *)
(* the promise chains.  A render g leaves three of them behind, which run  *)
(* on whatever becomes of it: its start (temp_path, ffmpeg_start), its     *)
(* writes (t.writechain) and its export (ffmpeg_finish, audio, save).      *)
(* They read and write the fields of the one object `t` when they run, not *)
(* when they were queued.  A call to the host takes effect together with   *)
(* its answer, at any moment after it was made.                            *)
(***************************************************************************)
EXTENDS Integers, Sequences

CONSTANTS
    MaxRenders,       \* bound on the renders started
    MaxFrames,        \* bound on the frames of one render
    High,             \* t.offpaused is set above this many pending writes (24)
    Low,              \* and cleared at this many (6)
    Scenarios         \* what may happen: see Scenario

(* A behaviour runs in one scenario: how many renders of how many frames   *)
(* there are, and which interruptions and failures may happen in them.     *)
(* Besides the interruptions, the start of the encoder, the mix of the     *)
(* audio, the writing of its wav and the removal of a file may fail.       *)
FaultKinds == {"start", "encoder", "mux", "wav", "remove", "abort", "leave"}

Scenario == [renders : 0 .. MaxRenders, frames : 1 .. MaxFrames,
             faults : SUBSET FaultKinds]

ASSUME BoundsAssumption == MaxRenders \in Nat /\ MaxFrames \in Nat \ {0}
ASSUME PressureAssumption == High \in Nat /\ Low \in Nat /\ Low <= High
ASSUME ScenariosAssumption == Scenarios \subseteq Scenario

VARIABLES
    scenario,         \* the scenario of this behaviour
    inlevel,          \* inlevel() finds a level scene
    countdown,        \* t.countdown is set
    vidphase,         \* t.vidphase
    vidblock,         \* t.vidblock: the page swallows the user's input
    hooked,           \* hooksounds(true) is in effect and the game is muted
    ffhandle,         \* t.ffhandle
    offtmp,           \* t.offtmp
    fferr,            \* t.fferr
    offpaused,        \* t.offpaused
    pendingwrites,    \* t.pendingwrites
    cur,              \* the number of renders started
    job,              \* per render: its frames and its promise chains
    issued, live,     \* the host's job table
    owner,            \* host: the render whose file a job encodes
    content,          \* host: the frames a job has received
    dead,             \* host: jobs whose ffmpeg has failed
    kills,            \* ffmpeg_kill calls on their way to the host
    disk,             \* temporary files that exist
    saved,            \* what save_file_as has copied to the user's choice
    stopped           \* renders the user was told were stopped

ui    == <<inlevel, countdown, vidphase, vidblock, hooked>>
runs  == <<scenario, cur>>
rec   == <<ffhandle, offtmp, fferr, offpaused, pendingwrites>>
host  == <<issued, live, owner, content, dead>>
vars  == <<ui, rec, runs, job, host, kills, disk, saved, stopped>>

Render == 1 .. MaxRenders
Handle == 1 .. MaxRenders
Null   == 0            \* no handle, no file, no render
NoCall == -1           \* no ffmpeg_write in flight

Video(g) == <<"video", g>>
Wav(g)   == <<"wav", g>>
Mux(g)   == <<"mux", g>>
NoFile   == <<"null", Null>>
File     == {"video", "wav", "mux"} \X Render

Phase == {"none", "render", "export", "exported"}

(* start, write and export chain of one render; `sent` frames painted.     *)
Chains == [start : {"no", "temp", "spawn", "ok", "failed"},
           sent  : 0 .. MaxFrames,
           queue : Seq(1 .. MaxFrames),
           flight : Handle \cup {Null, NoCall},
           export : {"no", "drain", "finishing", "muxing", "saving", "done"},
           closing : Handle \cup {Null},
           audio : {"no", "build", "mux", "end"},
           source : File \cup {NoFile},
           final : File \cup {NoFile}]

NotStarted == [start |-> "no", sent |-> 0, queue |-> <<>>, flight |-> NoCall,
               export |-> "no", closing |-> Null, audio |-> "no",
               source |-> NoFile, final |-> NoFile]

TypeOK ==
    /\ scenario \in Scenarios
    /\ inlevel \in BOOLEAN /\ countdown \in BOOLEAN
    /\ vidphase \in Phase /\ vidblock \in BOOLEAN /\ hooked \in BOOLEAN
    /\ ffhandle \in Handle \cup {Null}
    /\ offtmp \in File \cup {NoFile}
    /\ fferr \in BOOLEAN /\ offpaused \in BOOLEAN
    /\ pendingwrites \in Int
    /\ cur \in 0 .. MaxRenders
    /\ job \in [Render -> Chains]
    /\ issued \in 0 .. MaxRenders /\ live \subseteq 1 .. issued
    /\ owner \in [Handle -> Render \cup {Null}]
    /\ content \in [Handle -> Seq(Render \X (1 .. MaxFrames))]
    /\ dead \subseteq Handle /\ kills \subseteq Handle
    /\ disk \subseteq File
    /\ saved \subseteq [render : Render, file : File,
                       frames : Seq(Render \X (1 .. MaxFrames))]
    /\ stopped \subseteq Render

Init ==
    /\ scenario \in Scenarios
    /\ inlevel = TRUE /\ countdown = FALSE
    /\ vidphase = "none" /\ vidblock = FALSE /\ hooked = FALSE
    /\ ffhandle = Null /\ offtmp = NoFile
    /\ fferr = FALSE /\ offpaused = FALSE /\ pendingwrites = 0
    /\ cur = 0
    /\ job = [g \in Render |-> NotStarted]
    /\ issued = 0 /\ live = {}
    /\ owner = [h \in Handle |-> Null]
    /\ content = [h \in Handle |-> <<>>]
    /\ dead = {} /\ kills = {}
    /\ disk = {}
    /\ saved = {}
    /\ stopped = {}

Table == INSTANCE JobTable

-------------------------------------------------------------------------------
(* The user and the game loop *)

(* actions.video and beginplayback(true).  The buttons are out of reach    *)
(* while vidblock swallows the mouse and while a countdown hides them.     *)
RequestVideo ==
    /\ inlevel /\ ~vidblock /\ ~countdown
    /\ vidphase = "none" /\ ffhandle = Null
    /\ cur < scenario.renders
    /\ countdown' = TRUE
    /\ UNCHANGED <<inlevel, vidphase, vidblock, hooked, rec, runs, job, host,
                   kills, disk, saved, stopped>>

(* Escape during the countdown. *)
CancelCountdown ==
    /\ inlevel /\ countdown
    /\ countdown' = FALSE
    /\ UNCHANGED <<inlevel, vidphase, vidblock, hooked, rec, runs, job, host,
                   kills, disk, saved, stopped>>

(* The countdown reaches zero, the level restarts and startoffline runs in *)
(* the same step of the game loop.                                         *)
StartOffline ==
    /\ inlevel /\ countdown
    /\ countdown' = FALSE
    /\ cur' = cur + 1
    /\ offtmp' = NoFile /\ ffhandle' = Null
    /\ fferr' = FALSE /\ offpaused' = FALSE
    /\ pendingwrites' = 0
    /\ job' = [job EXCEPT ![cur + 1].start = "temp"]
    /\ vidphase' = "render" /\ vidblock' = TRUE /\ hooked' = TRUE
    /\ UNCHANGED <<scenario, inlevel, host, kills, disk, saved, stopped>>

(* A mistake: the game stays mute after an abort. *)
AbortStaysMute ==
    /\ kills' = IF ffhandle # Null THEN kills \cup {ffhandle} ELSE kills
    /\ ffhandle' = Null
    /\ UNCHANGED hooked
    /\ vidphase' = "none" /\ vidblock' = FALSE

(* abortoffline: kill the job if its handle is known, undo the hooks.      *)
AbortOffline ==
    /\ kills' = IF ffhandle # Null THEN kills \cup {ffhandle} ELSE kills
    /\ ffhandle' = Null
    /\ hooked' = FALSE
    /\ vidphase' = "none" /\ vidblock' = FALSE

(* Escape while the exporter blocks the input: endplayback("recording      *)
(* stopped").  It aborts while rendering, or while t.ffhandle is set;      *)
(* afterwards it only shows the message.                                   *)
AbortKey ==
    /\ "abort" \in scenario.faults
    /\ inlevel /\ ~countdown
    /\ vidblock \/ vidphase = "render"
    /\ stopped' = stopped \cup {cur}
    /\ IF vidphase = "render" \/ ffhandle # Null
       THEN AbortOffline
       ELSE UNCHANGED <<kills, ffhandle, hooked, vidphase, vidblock>>
    /\ UNCHANGED <<inlevel, countdown, offtmp, fferr, offpaused, pendingwrites,
                   runs, job, host, disk, saved>>

(* offlinetick after an error. *)
TickError ==
    /\ inlevel /\ vidphase = "render"
    /\ fferr
    /\ AbortOffline
    /\ UNCHANGED <<inlevel, countdown, offtmp, fferr, offpaused, pendingwrites,
                   runs, job, host, disk, saved, stopped>>

(* Mistakes: a phase no one else knows; the sounds stay hooked. *)
FinishWrongPhase(g) ==
    /\ vidphase' = "exporting" /\ vidblock' = TRUE
    /\ hooked' = FALSE

FinishStaysMute(g) ==
    /\ vidphase' = "export" /\ vidblock' = TRUE
    /\ UNCHANGED hooked

(* finishoffline, up to its first await. *)
FinishOffline(g) ==
    /\ vidphase' = "export" /\ vidblock' = TRUE
    /\ hooked' = FALSE

(* offlinetick waits for a job, and once paused for the pending writes to  *)
(* fall to Low.  The mistakes: the pause is not looked at, or it is one    *)
(* write too strict to end.                                                *)
PaintUnpaced == ~fferr /\ ffhandle # Null

PaintNeverResumes ==
    ~fferr /\ ffhandle # Null /\ (offpaused => pendingwrites < Low)

MayPaint ==
    ~fferr /\ ffhandle # Null /\ (offpaused => pendingwrites <= Low)

(* offlinetick painting one frame: offlineframe and readbackandwrite, then *)
(* finishoffline if it was the last.  A tick that paints several frames is *)
(* several of these steps in a row.                                        *)
TickFrame ==
    LET n == job[cur].sent + 1 IN
    /\ inlevel /\ vidphase = "render"
    /\ MayPaint
    /\ n <= scenario.frames
    /\ pendingwrites' = pendingwrites + 1
    /\ offpaused' = (pendingwrites + 1 > High)
    /\ \E last \in BOOLEAN :
        /\ n = scenario.frames => last
        /\ job' = [job EXCEPT ![cur].sent = n,
                              ![cur].queue = Append(@, n),
                              ![cur].export = IF last THEN "drain" ELSE @]
        /\ IF last
           THEN FinishOffline(cur)
           ELSE UNCHANGED <<vidphase, vidblock, hooked>>
    /\ UNCHANGED <<inlevel, countdown, ffhandle, offtmp, fferr, runs, host,
                   kills, disk, saved, stopped>>

(* Mistakes: the message is not waited for; the phase is not reset. *)
ExportedShownEarly ==
    /\ inlevel /\ vidphase \in {"export", "exported"}
    /\ vidphase' = "none" /\ vidblock' = FALSE
    /\ UNCHANGED <<inlevel, countdown, hooked, rec, runs, job, host,
                   kills, disk, saved, stopped>>

ExportedShownForever ==
    /\ inlevel /\ vidphase = "exported"
    /\ vidblock' = FALSE
    /\ UNCHANGED <<inlevel, countdown, vidphase, hooked, rec, runs, job, host,
                   kills, disk, saved, stopped>>

(* refreshhud two seconds after t.vidphase became "exported". *)
ExportedShown ==
    /\ inlevel /\ vidphase = "exported"
    /\ vidphase' = "none" /\ vidblock' = FALSE
    /\ UNCHANGED <<inlevel, countdown, hooked, rec, runs, job, host,
                   kills, disk, saved, stopped>>

(* The level is left.  stack.step cleans up only when the overlay was busy *)
(* (mode, frozen, pace, countdown): t.vidphase does not make it busy.      *)
LeaveLevel ==
    /\ "leave" \in scenario.faults
    /\ inlevel
    /\ inlevel' = FALSE
    /\ \/ /\ ~countdown
          /\ UNCHANGED <<countdown, kills, ffhandle, hooked, vidphase,
                         vidblock>>
       \/ /\ countdown' = FALSE
          /\ IF vidphase = "render" \/ ffhandle # Null
             THEN AbortOffline
             ELSE /\ vidphase' = "none" /\ vidblock' = FALSE
                  /\ UNCHANGED <<kills, ffhandle, hooked>>
    /\ UNCHANGED <<offtmp, fferr, offpaused, pendingwrites, runs, job, host,
                   disk, saved, stopped>>

EnterLevel ==
    /\ ~inlevel
    /\ inlevel' = TRUE
    /\ UNCHANGED <<countdown, vidphase, vidblock, hooked, rec, runs, job, host,
                   kills, disk, saved, stopped>>

-------------------------------------------------------------------------------
(* The start chain of render g *)

TempPath(g) ==
    /\ job[g].start = "temp"
    /\ offtmp' = Video(g)
    /\ job' = [job EXCEPT ![g].start = "spawn"]
    /\ UNCHANGED <<ui, ffhandle, fferr, offpaused, pendingwrites, runs, host,
                   kills, disk, saved, stopped>>

FfmpegStart(g) ==
    /\ job[g].start = "spawn"
    /\ Table!TStart
    /\ owner' = [owner EXCEPT ![issued + 1] = g]
    /\ disk' = disk \cup {Video(g)}
    /\ ffhandle' = issued + 1
    /\ job' = [job EXCEPT ![g].start = "ok"]
    /\ UNCHANGED <<ui, offtmp, fferr, offpaused, pendingwrites, runs, content,
                   dead, kills, saved, stopped>>

(* Either call rejects: the catch at the end of the chain. *)
StartFails(g) ==
    /\ "start" \in scenario.faults
    /\ job[g].start \in {"temp", "spawn"}
    /\ fferr' = TRUE
    /\ job' = [job EXCEPT ![g].start = "failed"]
    /\ UNCHANGED <<ui, ffhandle, offtmp, offpaused, pendingwrites, runs, host,
                   kills, disk, saved, stopped>>

-------------------------------------------------------------------------------
(* The write chain of render g: one ffmpeg_write at a time, to the job     *)
(* t.ffhandle names when the call is made.                                 *)

WriteCall(g) ==
    /\ job[g].queue # <<>> /\ job[g].flight = NoCall
    /\ job' = [job EXCEPT ![g].flight = ffhandle]
    /\ UNCHANGED <<ui, rec, runs, host, kills, disk, saved, stopped>>

WriteDone(g) ==
    LET h == job[g].flight IN
    /\ h # NoCall
    /\ job' = [job EXCEPT ![g].queue = Tail(@), ![g].flight = NoCall]
    /\ pendingwrites' = pendingwrites - 1
    /\ IF h \in live \ dead
       THEN /\ content' = [content EXCEPT ![h] = Append(@, <<g, Head(job[g].queue)>>)]
            /\ UNCHANGED fferr
       ELSE /\ fferr' = TRUE
            /\ UNCHANGED content
    /\ UNCHANGED <<ui, ffhandle, offtmp, offpaused, runs, issued, live, owner,
                   dead, kills, disk, saved, stopped>>

-------------------------------------------------------------------------------
(* The export chain of render g *)

(* A mistake: the job is finished without waiting for its writes. *)
FinishCallAtOnce(g) ==
    /\ job[g].export = "drain"
    /\ job' = [job EXCEPT ![g].export = "finishing", ![g].closing = ffhandle]
    /\ UNCHANGED <<ui, rec, runs, host, kills, disk, saved, stopped>>

(* The writes have drained: ffmpeg_finish for t.ffhandle as it now is. *)
FinishCall(g) ==
    /\ job[g].export = "drain"
    /\ job[g].queue = <<>>
    /\ job' = [job EXCEPT ![g].export = "finishing", ![g].closing = ffhandle]
    /\ UNCHANGED <<ui, rec, runs, host, kills, disk, saved, stopped>>

(* Exit code 0 goes on to the audio; another code, or no such job, ends    *)
(* the export with a message.                                              *)
FinishDone(g) ==
    LET h == job[g].closing IN
    /\ job[g].export = "finishing"
    /\ ffhandle' = Null
    /\ IF h \in live THEN Table!TRemove(h) ELSE UNCHANGED <<issued, live>>
    /\ IF h \in live \ dead
       THEN /\ job' = [job EXCEPT ![g].export = "muxing", ![g].audio = "build"]
            /\ UNCHANGED vidphase
       ELSE /\ job' = [job EXCEPT ![g].export = "done"]
            /\ vidphase' = "exported"
    /\ UNCHANGED <<inlevel, countdown, vidblock, hooked, offtmp, fferr, offpaused,
                   pendingwrites, runs, owner, content, dead, kills, disk,
                   saved, stopped>>

(* A mistake: `done` is not checked. *)
DeliverAlways(chains, g, path) ==
    [chains EXCEPT ![g].export = "saving", ![g].final = path]

(* The closure `finish`: the first path it is given is saved, whoever      *)
(* calls it, and later ones are ignored.                                   *)
Deliver(chains, g, path) ==
    IF chains[g].export = "muxing"
    THEN [chains EXCEPT ![g].export = "saving", ![g].final = path]
    ELSE chains

(* setTimeout(function () {finish(t.offtmp)}, 30000) *)
MuxTimeout(g) ==
    /\ job[g].export = "muxing"
    /\ job' = Deliver(job, g, offtmp)
    /\ UNCHANGED <<ui, rec, runs, host, kills, disk, saved, stopped>>

(* buildaudio: a wav file, which muxav is given with t.offtmp as it now    *)
(* is, or nothing to mix: no sound, or a wav that could not be written.    *)
(* Nobody removes what write_bytes left of that one.                       *)
BuildAudio(g) ==
    /\ job[g].audio = "build"
    /\ \/ /\ disk' = disk \cup {Wav(g)}
          /\ job' = [job EXCEPT ![g].audio = "mux", ![g].source = offtmp]
       \/ /\ job' = Deliver([job EXCEPT ![g].audio = "end"], g, offtmp)
          /\ \/ UNCHANGED disk
             \/ "wav" \in scenario.faults /\ disk' = disk \cup {Wav(g)}
    /\ UNCHANGED <<ui, rec, runs, host, kills, saved, stopped>>

(* remove_file does not say whether it removed the file: what may have     *)
(* gone of those it was asked to remove.                                   *)
Removals(files) ==
    IF "remove" \in scenario.faults THEN SUBSET files ELSE {files}

(* muxav, the removal of the wav, and finish with what muxav made or, if   *)
(* ffmpeg did not exit with 0, with t.offtmp.  Then ffmpeg may have left   *)
(* some of its output, and muxav forgets where; so may a mix whose input   *)
(* was removed under it.                                                   *)
MuxDone(g) ==
    LET src == job[g].source IN
    /\ job[g].audio = "mux"
    /\ \E gone \in Removals({Wav(g)}) :
         \/ /\ src \in disk
            /\ disk' = (disk \ gone) \cup {Mux(g)}
            /\ job' = Deliver([job EXCEPT ![g].audio = "end"], g, Mux(g))
         \/ /\ "mux" \in scenario.faults \/ src \notin disk
            /\ \E left \in SUBSET {Mux(g)} : disk' = (disk \ gone) \cup left
            /\ job' = Deliver([job EXCEPT ![g].audio = "end"], g, offtmp)
    /\ UNCHANGED <<ui, rec, runs, host, kills, saved, stopped>>

(* The frames in a file: those its encoder received, or for a muxed file   *)
(* those of the file it was made from.                                     *)
Frames(f) ==
    LET video == IF f[1] = "mux" THEN job[f[2]].source ELSE f
        h == CHOOSE k \in Handle : owner[k] = video[2] IN
    content[h]

(* The files cleanup of savemp4 removes; the mistake forgets the mix.      *)
CleanupVideoOnly(f) == {offtmp}

Cleanup(f) == {offtmp, f}

(* save_file_as and the cleanup of savemp4: the user picks a name or       *)
(* cancels, then both temporary files are to be removed.                   *)
SaveDone(g) ==
    LET f == job[g].final IN
    /\ job[g].export = "saving"
    /\ \/ /\ f \in disk
          /\ saved' = saved \cup {[render |-> g, file |-> f, frames |-> Frames(f)]}
       \/ UNCHANGED saved
    /\ \E gone \in Removals(Cleanup(f)) : disk' = disk \ gone
    /\ vidphase' = "exported"
    /\ ffhandle' = Null
    /\ job' = [job EXCEPT ![g].export = "done"]
    /\ UNCHANGED <<inlevel, countdown, vidblock, hooked, offtmp, fferr, offpaused,
                   pendingwrites, runs, host, kills, stopped>>

-------------------------------------------------------------------------------
(* The host *)

KillJob(h) ==
    /\ h \in kills
    /\ kills' = kills \ {h}
    /\ IF h \in live THEN Table!TRemove(h) ELSE UNCHANGED <<issued, live>>
    /\ UNCHANGED <<ui, rec, runs, job, owner, content, dead, disk, saved, stopped>>

EncoderFails(h) ==
    /\ "encoder" \in scenario.faults
    /\ h \in live \ dead
    /\ dead' = dead \cup {h}
    /\ UNCHANGED <<ui, rec, runs, job, issued, live, owner, content, kills, disk,
                   saved, stopped>>

-------------------------------------------------------------------------------
Loop == StartOffline \/ TickError \/ TickFrame \/ ExportedShown

User == RequestVideo \/ CancelCountdown \/ AbortKey \/ LeaveLevel \/ EnterLevel

Callback(g) ==
    \/ TempPath(g) \/ FfmpegStart(g) \/ StartFails(g)
    \/ WriteCall(g) \/ WriteDone(g)
    \/ FinishCall(g) \/ FinishDone(g)
    \/ MuxTimeout(g) \/ BuildAudio(g) \/ MuxDone(g) \/ SaveDone(g)

Next ==
    \/ User \/ Loop
    \/ \E g \in Render : Callback(g)
    \/ \E h \in Handle : KillJob(h) \/ EncoderFails(h)

Spec == Init /\ [][Next]_vars

(* The game loop keeps ticking and every call is answered, the save dialog *)
(* included.  Nothing is assumed of the user or of the faults.             *)
Fairness ==
    /\ WF_vars(Loop)
    /\ \A g \in Render :
         /\ WF_vars(TempPath(g) \/ FfmpegStart(g) \/ StartFails(g))
         /\ WF_vars(WriteCall(g) \/ WriteDone(g))
         /\ WF_vars(FinishCall(g) \/ FinishDone(g))
         /\ WF_vars(BuildAudio(g) \/ MuxDone(g) \/ MuxTimeout(g))
         /\ WF_vars(SaveDone(g))
    /\ \A h \in Handle : WF_vars(KillJob(h))

FairSpec == Spec /\ Fairness

-------------------------------------------------------------------------------
(* Properties *)

(* Nothing ends a render from outside: only what the exporter itself asks  *)
(* of the host may fail, its encoder, once started, apart.                 *)
Undisturbed == scenario.faults \subseteq {"start", "mux", "wav", "remove"}

(* No other render follows one that was ended from outside.  When one does *)
(* the code does let the writes of the old render run into the new one.    *)
Apart == Undisturbed \/ scenario.renders = 1

(* What a saved file holds: every frame the render painted, in order, and  *)
(* no frame of any other render (readbackandwrite sends a frame to         *)
(* whatever job t.ffhandle names once its turn in the chain comes).        *)
SavedWhole ==
    Apart => \A s \in saved :
        s.frames = [i \in 1 .. job[s.render].sent |-> <<s.render, i>>]

(* What the exporter takes from the user it takes exactly as long as it    *)
(* must: the input while an export is under way, so no callback that ends  *)
(* a phase leaves the page locked or unlocks it early; and the sound while *)
(* frames are rendered, so whatever ends the rendering gives it back.      *)
Withheld ==
    /\ Undisturbed => (vidblock <=> vidphase # "none")
    /\ Apart => (hooked <=> vidphase = "render")

(* t.pendingwrites counts the frames of the current render that ffmpeg has *)
(* not taken yet, and the render loop never has more than one above the    *)
(* mark in memory.                                                         *)
Backpressure ==
    Apart =>
        /\ pendingwrites \in 0 .. High + 1
        /\ cur # 0 => pendingwrites = Len(job[cur].queue)

(* Once the overlay is ready for another video nothing of the last one is  *)
(* left: no encoder runs and no callback of its chains is still to come,   *)
(* an audio mix that lost against the timeout apart.  Of the temporary     *)
(* files, if the host removes what it is told to, only those are left      *)
(* whose name the code has let go of: a mix that failed, or that was made  *)
(* after the 30 s timeout had saved the silent video, and a wav that could *)
(* not be written; and the wav a late mix still reads.                     *)
NothingRunsOn ==
    /\ live = {} /\ kills = {} /\ ffhandle = Null
    /\ \A g \in Render :
         /\ job[g].start \notin {"temp", "spawn"}
         /\ job[g].queue = <<>>
         /\ job[g].export \in {"no", "done"}

OnlyUnusedLeft ==
    \A f \in disk :
        /\ f[1] # "video"
        /\ f[1] = "mux" => job[f[2]].final # f
        /\ f[1] = "wav" => job[f[2]].audio = "mux" \/ job[f[2]].source = NoFile

NothingLeft ==
    Undisturbed /\ vidphase = "none" =>
        NothingRunsOn /\ ("remove" \in scenario.faults \/ OnlyUnusedLeft)

(* The file offered to the user is chosen once: an audio answer after the  *)
(* timeout, or a timeout after the answer, changes nothing (`done` in      *)
(* finishoffline).                                                         *)
SavedOnce ==
    [][\A g \in Render :
          job[g].final # NoFile => job'[g].final = job[g].final]_vars

(* Every export comes to an end and gives the input back to the user, if   *)
(* the user stays in the level: its HUD is what ends the last phase.       *)
ExportEnds ==
    vidphase # "none" ~> vidphase = "none" \/ "leave" \in scenario.faults

(* A render paused for ffmpeg to catch up is resumed.                      *)
PauseEnds ==
    offpaused /\ vidphase = "render"
        ~> \/ ~offpaused \/ vidphase # "render"
           \/ ~Apart \/ "leave" \in scenario.faults

(* "abort key for video exports" (6listeners.js): a render of which the    *)
(* user was told that it is stopped is not saved afterwards.               *)
AbortIsFinal ==
    [][\A s \in saved' \ saved : s.render \notin stopped]_vars

(* "press esc during recording to abort" (3recordplayback.js): once        *)
(* nothing of an aborted render is still on its way, no encoder of it is   *)
(* running.                                                                *)
AbortStopsEncoder ==
    \A g \in stopped :
        kills = {} /\ vidphase = "none" /\ job[g].start \notin {"temp", "spawn"}
            => \A h \in live : owner[h] # g
===============================================================================
