--------------------------- MODULE VideoExport_proof ---------------------------
(* Proofs about VideoExport, for any number of renders and frames, any marks of
   the pause and any scenarios: what is saved is whole, what is taken from the user
   is given back, and nothing is left behind.  These are about the behaviours that
   are Apart: without interruptions, or with a single render and all of them.  The
   types, and that a file is chosen once, are proved of every behaviour. *)
EXTENDS VideoExport, FiniteSets, FiniteSetTheorems, TLAPS

(* Nothing of the chains of a render is still to come, late audio apart. *)
Quiet(g) ==
    /\ job[g].start \notin {"temp", "spawn"}
    /\ job[g].queue = <<>> /\ job[g].flight = NoCall
    /\ job[g].export \in {"no", "done"}

AllFrames(g) == [i \in 1 .. job[g].sent |-> <<g, i>>]

(* Only the latest render is at work; the next one starts when it is through. *)
Ordered ==
    /\ cur <= scenario.renders
    /\ \A g \in Render : g # cur => Quiet(g)
    /\ \A g \in Render : g > cur => job[g] = NotStarted
    /\ cur = 0 => vidphase = "none" /\ ~vidblock
    /\ cur # 0 => job[cur].start # "no"
    /\ countdown =>
         cur < scenario.renders /\ vidphase = "none" /\ (cur # 0 => Quiet(cur))

(* The latest handle is that of the latest render, once its encoder is started. *)
Encoder ==
    /\ issued <= cur
    /\ \A h \in Handle : owner[h] <= cur
    /\ \A h \in Handle : h > issued => owner[h] = Null /\ content[h] = <<>>
    /\ cur # 0 =>
         /\ job[cur].start = "ok" => issued # 0
         /\ job[cur].start # "ok" => issued < cur
         /\ \A h \in Handle : owner[h] = cur <=> h = issued /\ job[cur].start = "ok"
         /\ job[cur].start \in {"spawn", "ok"} => offtmp = Video(cur)
    /\ ffhandle # Null => cur # 0 /\ ffhandle = issued /\ job[cur].start = "ok"

(* The chains of the latest render: frames after the start, the end after the
   frames, the audio after the end. *)
InTurn ==
    cur # 0 =>
        /\ job[cur].start # "ok" =>
             /\ job[cur].sent = 0 /\ job[cur].queue = <<>>
             /\ job[cur].flight = NoCall /\ job[cur].export = "no"
        /\ job[cur].flight # NoCall =>
             /\ job[cur].queue # <<>>
             /\ job[cur].flight = issued \/ (job[cur].flight = Null /\ ffhandle = Null)
        /\ job[cur].queue # <<>> => job[cur].export \in {"no", "drain"}
        /\ vidphase = "render" => job[cur].export = "no"
        /\ job[cur].export = "finishing" => job[cur].closing \in {Null, issued}
        /\ job[cur].export \in {"no", "drain", "finishing"} => job[cur].audio = "no"

(* What the encoder has received and what is queued are all frames painted ... *)
Whole ==
    LET done == Len(content[issued]) IN
    /\ done + Len(job[cur].queue) = job[cur].sent
    /\ \A i \in 1 .. done : content[issued][i] = <<cur, i>>
    /\ \A i \in 1 .. Len(job[cur].queue) : job[cur].queue[i] = done + i

(* ... or the render is lost: its encoder has failed or gone, or its handle is
   forgotten and no call knows it. *)
Lost ==
    \/ issued \notin live \ dead
    \/ /\ ffhandle = Null /\ job[cur].flight # issued
       /\ job[cur].export = "finishing" => job[cur].closing # issued

Contents ==
    cur # 0 =>
        /\ job[cur].start = "ok" => Whole \/ Lost
        /\ job[cur].export \in {"muxing", "saving"} => content[issued] = AllFrames(cur)
        /\ job[cur].export = "muxing" /\ job[cur].audio = "mux" =>
             job[cur].source = Video(cur)
        /\ job[cur].export = "saving" =>
             \/ job[cur].final = Video(cur)
             \/ /\ job[cur].final = Mux(cur) /\ job[cur].source = Video(cur)
                /\ job[cur].audio = "end"

(* A saved render is over, so nothing is added to what was saved of it. *)
Saves ==
    \A s \in saved :
        job[s.render].export = "done" /\ s.frames = AllFrames(s.render)

Pressure ==
    /\ pendingwrites \in 0 .. High + 1
    /\ pendingwrites > High => offpaused
    /\ cur # 0 => pendingwrites = Len(job[cur].queue)

Hooks == hooked <=> vidphase = "render"

(* Without interruptions the phase shows how far the latest render has come, and
   its encoder runs exactly until it is finished. *)
Calm ==
    Undisturbed =>
        /\ vidblock <=> vidphase # "none"
        /\ dead = {} /\ kills = {}
        /\ cur # 0 =>
             /\ job[cur].start \in {"temp", "spawn"} => vidphase = "render"
             /\ fferr => job[cur].start = "failed"
             /\ vidphase = "exported" => job[cur].export = "done"
             /\ job[cur].start # "ok" => live = {}
             /\ job[cur].start = "ok" =>
                  /\ job[cur].export = "no" => vidphase = "render"
                  /\ job[cur].export = "finishing" => job[cur].closing = issued
                  /\ job[cur].export \in {"drain", "finishing", "muxing", "saving"} =>
                       vidphase = "export"
                  /\ job[cur].export \in {"no", "drain", "finishing"} =>
                       ffhandle = issued /\ live = {issued}
                  /\ job[cur].export \in {"muxing", "saving", "done"} =>
                       ffhandle = Null /\ live = {}

(* When nothing interrupts and the host removes what it is told to ... *)
Tidy == Undisturbed /\ "remove" \notin scenario.faults

(* ... the wav and the mix of a render, whose chains are c, are removed, those apart
   whose name the code has let go of, ... *)
Held(g, c, files) ==
    /\ Wav(g) \in files => c.audio = "mux" \/ (c.audio = "end" /\ c.source = NoFile)
    /\ Mux(g) \in files => c.audio = "end" /\ (c.final = Mux(g) => c.export = "saving")
    /\ c.final = Mux(g) => c.audio = "end"
    /\ c.audio \in {"no", "build"} => c.source = NoFile

(* ... and so is its video. *)
Files ==
    Tidy => \A g \in Render :
        /\ Video(g) \in disk =>
             g = cur /\ job[g].start = "ok" /\ job[g].export # "done"
        /\ Held(g, job[g], disk)

Good ==
    /\ TypeOK
    /\ Ordered
    /\ Encoder
    /\ InTurn
    /\ Contents
    /\ Saves
    /\ Pressure
    /\ Hooks
    /\ Calm
    /\ Files

(* The inductive invariant. *)
IInv == Apart => Good

-----------------------------------------------------------------------------
(* The scenario of a behaviour is one of those given. *)
LEMMA ScenarioIs ==
    ASSUME TypeOK
    PROVE  /\ scenario.renders \in 0 .. MaxRenders
           /\ scenario.frames \in 1 .. MaxFrames
BY ScenariosAssumption DEF TypeOK, Scenario

(* More than one render there is only when nothing interrupts. *)
LEMMA OneOrCalm ==
    ASSUME Good, Apart
    PROVE  /\ cur \in Nat /\ cur <= MaxRenders /\ (cur # 0 => cur \in Render)
           /\ Undisturbed \/ cur <= 1
BY ScenarioIs, BoundsAssumption DEF Good, TypeOK, Ordered, Apart, Render

(* Without interruptions, no phase means that the latest render is through. *)
LEMMA CalmRest ==
    ASSUME Good, Apart, Undisturbed, vidphase = "none"
    PROVE  /\ live = {} /\ ffhandle = Null
           /\ cur # 0 => Quiet(cur) /\ (job[cur].start = "ok" => job[cur].export = "done")
<1>1. CASE cur = 0
    <2>1. issued = 0 /\ live \subseteq 1 .. issued
        BY <1>1 DEF Good, TypeOK, Encoder
    <2>2. live = {}
        BY <2>1
    <2>3. QED
        BY <1>1, <2>2 DEF Good, Encoder
<1>2. CASE cur # 0
    <2>1. /\ job[cur].start \notin {"temp", "spawn"}
          /\ job[cur].start = "ok" =>
               job[cur].export = "done" /\ live = {} /\ ffhandle = Null
          /\ job[cur].start # "ok" => live = {} /\ ffhandle = Null
        BY <1>2, OneOrCalm DEF Good, Calm, TypeOK, Chains, Encoder
    <2>2. job[cur].queue = <<>> /\ job[cur].flight = NoCall
        BY <1>2, <2>1 DEF Good, InTurn
    <2>3. QED
        BY <1>2, <2>1, <2>2 DEF Good, InTurn, Quiet
<1>3. QED
    BY <1>1, <1>2

(* The temporary files of the renders have names of their own. *)
LEMMA FileNames ==
    /\ \A g, k :
         /\ Video(g) # Wav(k) /\ Video(g) # Mux(k) /\ Wav(g) # Mux(k)
         /\ Video(g) = Video(k) => g = k
         /\ Wav(g) = Wav(k) => g = k
         /\ Mux(g) = Mux(k) => g = k
    /\ \A g \in Render :
         /\ Video(g) \in File /\ Wav(g) \in File /\ Mux(g) \in File
         /\ Video(g) # NoFile /\ Wav(g) # NoFile /\ Mux(g) # NoFile
BY DEF Video, Wav, Mux, File, NoFile

(* Taking the first of a queue, and adding one to a file. *)
LEMMA TailOf ==
    ASSUME NEW S, NEW q \in Seq(S), q # <<>>
    PROVE  /\ Tail(q) \in Seq(S) /\ Head(q) \in S /\ Head(q) = q[1]
           /\ Len(q) \in Nat /\ Len(q) >= 1 /\ Len(Tail(q)) = Len(q) - 1
           /\ \A i \in 1 .. Len(q) - 1 : Tail(q)[i] = q[i + 1]
OBVIOUS

LEMMA AppendOf ==
    ASSUME NEW S, NEW q \in Seq(S), NEW e \in S
    PROVE  /\ Append(q, e) \in Seq(S)
           /\ Len(q) \in Nat /\ Len(Append(q, e)) = Len(q) + 1
           /\ Append(q, e)[Len(q) + 1] = e
           /\ \A i \in 1 .. Len(q) : Append(q, e)[i] = q[i]
OBVIOUS

(* A step of the chains of one render. *)
LEMMA JobStep ==
    ASSUME TypeOK, NEW g \in Render, NEW c \in Chains, job' = [job EXCEPT ![g] = c]
    PROVE  /\ job' \in [Render -> Chains]
           /\ job'[g] = c
           /\ \A k \in Render : k # g => job'[k] = job[k]
BY DEF TypeOK

(* Frames that stay where they are. *)
LEMMA WholeStays ==
    ASSUME Whole, cur' = cur, issued' = issued, content'[issued] = content[issued],
           job'[cur].sent = job[cur].sent, job'[cur].queue = job[cur].queue
    PROVE  Whole'
<1>1. content'[issued'] = content[issued] /\ job'[cur'].sent = job[cur].sent
      /\ job'[cur'].queue = job[cur].queue
    OBVIOUS
<1>2. QED
    BY ONLY <1>1, Whole, cur' = cur DEF Whole

LEMMA TypeInit ==
    ASSUME Init
    PROVE  TypeOK
<1> USE BoundsAssumption
<1>e. <<>> \in Seq(1 .. MaxFrames) /\ <<>> \in Seq(Render \X (1 .. MaxFrames))
    OBVIOUS
<1>c. NotStarted \in Chains
    BY <1>e DEF NotStarted, Chains, NoCall, Null
<1>t. /\ job \in [Render -> Chains]
      /\ owner \in [Handle -> Render \cup {Null}]
      /\ content \in [Handle -> Seq(Render \X (1 .. MaxFrames))]
    BY <1>c, <1>e DEF Init
<1>u. /\ ffhandle \in Handle \cup {Null} /\ offtmp \in File \cup {NoFile}
      /\ pendingwrites \in Int /\ cur \in 0 .. MaxRenders /\ issued \in 0 .. MaxRenders
      /\ vidphase \in Phase
    BY DEF Init, Phase
<1>1. QED
    BY <1>t, <1>u DEF Init, TypeOK

LEMMA InvInit == Init => IInv
<1> SUFFICES ASSUME Init PROVE Good
    BY DEF IInv
<1> USE BoundsAssumption
<1>0. scenario.renders \in 0 .. MaxRenders
    BY ScenariosAssumption DEF Init, Scenario
<1>1. TypeOK
    BY TypeInit
<1>2. \A g \in Render : Quiet(g)
    BY DEF Init, Quiet, NotStarted
<1>3. Ordered
    BY <1>0, <1>2 DEF Init, Ordered
<1>4. Encoder /\ InTurn /\ Contents /\ Saves /\ Hooks
    BY DEF Init, Encoder, InTurn, Contents, Saves, Hooks, Null, Handle
<1>5. Pressure
    BY PressureAssumption DEF Init, Pressure
<1>6. Calm /\ Files
    BY FileNames DEF Init, Calm, Files, Held, NotStarted
<1>7. QED
    BY <1>1, <1>3, <1>4, <1>5, <1>6 DEF Good

-----------------------------------------------------------------------------
(* The user and the game loop. *)
LEMMA RequestInv ==
    ASSUME Good, Apart, RequestVideo
    PROVE  Good'
<1> USE DEF RequestVideo, rec, runs, host
<1>1. TypeOK'
    BY DEF Good, TypeOK
<1>2. Ordered'
    <2>1. cur # 0 => Quiet(cur)
        <3>1. CASE Undisturbed
            BY <3>1, CalmRest
        <3>2. CASE ~Undisturbed
            <4>1. scenario.renders = 1 /\ cur \in Nat
                BY <3>2, OneOrCalm DEF Apart
            <4>2. QED
                BY <4>1
        <3>3. QED
            BY <3>1, <3>2
    <2>2. QED
        BY <2>1 DEF Good, Ordered, Quiet
<1>3. Encoder' /\ InTurn'
    BY DEF Good, Encoder, InTurn
<1>4. Contents' /\ Saves'
    BY DEF Good, Contents, Whole, Lost, Saves, AllFrames
<1>5. Pressure' /\ Hooks' /\ Calm' /\ Files'
    BY DEF Good, Pressure, Hooks, Calm, Files, Held, Tidy, Undisturbed
<1>6. QED
    BY <1>1, <1>2, <1>3, <1>4, <1>5 DEF Good

LEMMA CancelInv ==
    ASSUME Good, Apart, CancelCountdown
    PROVE  Good'
<1> USE DEF CancelCountdown, rec, runs, host
<1>1. TypeOK'
    BY DEF Good, TypeOK
<1>2. Ordered'
    BY DEF Good, Ordered, Quiet
<1>3. Encoder' /\ InTurn'
    BY DEF Good, Encoder, InTurn
<1>4. Contents' /\ Saves'
    BY DEF Good, Contents, Whole, Lost, Saves, AllFrames
<1>5. Pressure' /\ Hooks' /\ Calm' /\ Files'
    BY DEF Good, Pressure, Hooks, Calm, Files, Held, Tidy, Undisturbed
<1>6. QED
    BY <1>1, <1>2, <1>3, <1>4, <1>5 DEF Good

LEMMA StartInv ==
    ASSUME Good, Apart, StartOffline
    PROVE  Good'
<1> DEFINE n == cur + 1
<1> USE BoundsAssumption
<1>0. /\ countdown /\ countdown' = FALSE /\ cur' = n
      /\ offtmp' = NoFile /\ ffhandle' = Null /\ fferr' = FALSE /\ offpaused' = FALSE
      /\ pendingwrites' = 0
      /\ job' = [job EXCEPT ![n].start = "temp"]
      /\ vidphase' = "render" /\ vidblock' = TRUE /\ hooked' = TRUE
      /\ UNCHANGED <<scenario, inlevel, issued, live, owner, content, dead,
                     kills, disk, saved, stopped>>
    BY DEF StartOffline, host
<1>1. /\ n \in Render /\ n <= scenario.renders /\ n \in Nat /\ n # 0 /\ cur \in Nat
      /\ vidphase = "none" /\ (cur # 0 => Quiet(cur))
      /\ job[n] = NotStarted
    BY <1>0, OneOrCalm, ScenarioIs DEF Good, Ordered, Render
<1>j. /\ job' \in [Render -> Chains]
      /\ \A g \in Render : g # n => job'[g] = job[g]
      /\ job'[n].start = "temp" /\ job'[n].sent = 0 /\ job'[n].queue = <<>>
      /\ job'[n].flight = NoCall /\ job'[n].export = "no" /\ job'[n].audio = "no"
      /\ job'[n].final = NoFile /\ job'[n].source = NoFile
    <2> DEFINE c == [job[n] EXCEPT !.start = "temp"]
    <2>1. job[n] \in Chains /\ TypeOK /\ job' = [job EXCEPT ![n] = c]
        BY <1>0, <1>1 DEF Good, TypeOK
    <2>2. c \in Chains
        BY <2>1 DEF Chains
    <2>3. /\ c.start = "temp" /\ c.sent = 0 /\ c.queue = <<>>
          /\ c.flight = NoCall /\ c.export = "no" /\ c.audio = "no" /\ c.final = NoFile
          /\ c.source = NoFile
        BY <1>1 DEF NotStarted
    <2> HIDE DEF c
    <2>4. QED
        BY <1>1, <2>1, <2>2, <2>3, JobStep
<1> HIDE DEF n
<1>2. TypeOK'
    <2>1. cur' \in 0 .. MaxRenders /\ vidphase' \in Phase /\ pendingwrites' \in Int
        BY <1>0, <1>1 DEF Render, Phase
    <2>2. countdown' \in BOOLEAN /\ vidblock' \in BOOLEAN /\ hooked' \in BOOLEAN
          /\ fferr' \in BOOLEAN /\ offpaused' \in BOOLEAN
        BY <1>0
    <2>3. QED
        BY <1>0, <1>j, <2>1, <2>2 DEF Good, TypeOK
<1>3. Ordered'
    <2>1. \A g \in Render : g # n => Quiet(g)'
        BY <1>1, <1>j DEF Good, Ordered, Quiet, Render
    <2>2. \A g \in Render : g > n => job'[g] = NotStarted
        BY <1>1, <1>j DEF Good, Ordered, Render, n
    <2>3. QED
        BY <1>0, <1>1, <1>j, <2>1, <2>2 DEF Ordered
<1>4. Encoder'
    <2>1. issued <= cur /\ issued \in Nat /\ \A h \in Handle : owner[h] <= cur /\ owner[h] \in Nat
        BY DEF Good, Encoder, TypeOK, Render, Null
    <2>2. issued < n /\ \A h \in Handle : owner[h] <= n /\ owner[h] # n
        BY <1>1, <2>1 DEF n
    <2>3. QED
        BY <1>0, <1>j, <2>1, <2>2 DEF Good, Encoder
<1>5. InTurn' /\ Contents'
    BY <1>0, <1>j DEF InTurn, Contents
<1>6. Saves'
    BY <1>0, <1>1, <1>j DEF Good, TypeOK, Saves, AllFrames, NotStarted
<1>7. Pressure' /\ Hooks'
    BY <1>0, <1>j, PressureAssumption DEF Pressure, Hooks
<1>8. Calm'
    BY <1>0, <1>1, <1>j, CalmRest DEF Good, Calm, Undisturbed
<1>9. Files'
    <2> SUFFICES ASSUME Tidy, NEW g \in Render
                 PROVE  Video(g) \notin disk /\ Held(g, job'[g], disk)
        BY <1>0 DEF Files, Held, Tidy, Undisturbed
    <2>1. /\ Video(g) \in disk =>
               g = cur /\ job[g].start = "ok" /\ job[g].export # "done"
          /\ Held(g, job[g], disk)
        BY DEF Good, Files
    <2>2. Video(g) \notin disk
        BY <1>1, <2>1, CalmRest DEF Render, Tidy
    <2>3. CASE g # n
        BY <1>j, <2>1, <2>2, <2>3
    <2>4. CASE g = n
        <3>1. job'[n].audio = "no" /\ job'[n].source = NoFile /\ job'[n].final = NoFile
            BY <1>1, <1>j DEF NotStarted
        <3>2. Wav(n) \notin disk /\ Mux(n) \notin disk
            BY <1>1, <2>1, <2>4 DEF NotStarted, Held
        <3>3. QED
            BY <1>1, <2>2, <2>4, <3>1, <3>2, FileNames DEF Held
    <2>5. QED
        BY <2>3, <2>4
<1>10. QED
    BY <1>2, <1>3, <1>4, <1>5, <1>6, <1>7, <1>8, <1>9 DEF Good

(* abortoffline without a countdown: the handle and the phase are forgotten. *)
LEMMA AbortInv ==
    ASSUME Good, Apart, AbortOffline,
           ~countdown', ~Undisturbed \/ (job[cur].start = "failed" /\ cur # 0),
           UNCHANGED <<offtmp, fferr, offpaused, pendingwrites, runs, job, host,
                       disk, saved>>,
           inlevel' \in BOOLEAN, countdown' \in BOOLEAN, stopped' \subseteq Render
    PROVE  Good'
<1> USE DEF AbortOffline, runs, host
<1>1. TypeOK'
    BY DEF Good, TypeOK, Phase
<1>2. Ordered'
    BY DEF Good, Ordered, Quiet
<1>3. Encoder'
    BY DEF Good, Encoder
<1>4. InTurn'
    BY DEF Good, InTurn
<1>5. Contents' /\ Saves'
    BY DEF Good, Contents, Whole, Lost, Saves, AllFrames
<1>6. Pressure' /\ Hooks' /\ Files'
    BY DEF Good, Pressure, Hooks, Files, Held, Tidy, Undisturbed
<1>7. Calm'
    <2>1. CASE ~Undisturbed
        BY <2>1 DEF Calm, Undisturbed
    <2>2. CASE job[cur].start = "failed" /\ cur # 0
        <3>1. ffhandle = Null
            BY <2>2 DEF Good, Encoder
        <3>2. QED
            BY <2>2, <3>1 DEF Good, Calm, Undisturbed
    <2>3. QED
        BY <2>1, <2>2
<1>8. QED
    BY <1>1, <1>2, <1>3, <1>4, <1>5, <1>6, <1>7 DEF Good


LEMMA AbortKeyInv ==
    ASSUME Good, Apart, AbortKey
    PROVE  Good'
<1>0. /\ ~Undisturbed /\ ~countdown'
      /\ UNCHANGED <<inlevel, countdown>>
      /\ UNCHANGED <<offtmp, fferr, offpaused, pendingwrites, runs, job, host,
                     disk, saved>>
    BY DEF AbortKey, Undisturbed
<1>1. inlevel' \in BOOLEAN /\ countdown' \in BOOLEAN /\ stopped' \subseteq Render
    <2>1. cur # 0
        BY DEF AbortKey, Good, Ordered, Hooks
    <2>2. QED
        BY <1>0, <2>1, OneOrCalm DEF AbortKey, Good, TypeOK
<1>2. CASE AbortOffline
    BY <1>0, <1>1, <1>2, AbortInv
<1>3. CASE UNCHANGED <<kills, ffhandle, hooked, vidphase, vidblock>>
    <2> USE DEF runs, host
    <2>1. TypeOK' /\ Ordered'
        BY <1>0, <1>1, <1>3 DEF Good, TypeOK, Ordered, Quiet
    <2>2. Encoder' /\ InTurn' /\ Contents' /\ Saves'
        BY <1>0, <1>3 DEF Good, Encoder, InTurn, Contents, Whole, Lost, Saves, AllFrames
    <2>3. Pressure' /\ Hooks' /\ Calm' /\ Files'
        BY <1>0, <1>3 DEF Good, Pressure, Hooks, Calm, Files, Held, Tidy, Undisturbed
    <2>4. QED
        BY <2>1, <2>2, <2>3 DEF Good
<1>4. QED
    BY <1>2, <1>3 DEF AbortKey

LEMMA TickErrorInv ==
    ASSUME Good, Apart, TickError
    PROVE  Good'
<1>1. ~countdown /\ cur # 0
    BY DEF TickError, Good, Ordered
<1>2. ~Undisturbed \/ job[cur].start = "failed"
    BY <1>1 DEF TickError, Good, Calm
<1>3. inlevel' \in BOOLEAN /\ countdown' \in BOOLEAN /\ stopped' \subseteq Render
    BY DEF TickError, Good, TypeOK
<1>4. QED
    <2>1. /\ AbortOffline /\ ~countdown'
          /\ UNCHANGED <<offtmp, fferr, offpaused, pendingwrites, runs, job, host,
                         disk, saved>>
        BY <1>1 DEF TickError, runs, host
    <2>2. QED
        BY <1>1, <1>2, <1>3, <2>1, AbortInv

LEMMA ShownInv ==
    ASSUME Good, Apart, ExportedShown
    PROVE  Good'
<1> USE DEF ExportedShown, rec, runs, host
<1>1. TypeOK' /\ Ordered'
    BY DEF Good, TypeOK, Phase, Ordered, Quiet
<1>2. Encoder' /\ InTurn' /\ Contents' /\ Saves'
    BY DEF Good, Encoder, InTurn, Contents, Whole, Lost, Saves, AllFrames
<1>3. Pressure' /\ Hooks' /\ Files'
    BY DEF Good, Pressure, Hooks, Files, Held, Tidy, Undisturbed
<1>4. Calm'
    BY DEF Good, Calm, Undisturbed
<1>5. QED
    BY <1>1, <1>2, <1>3, <1>4 DEF Good

LEMMA LeaveInv ==
    ASSUME Good, Apart, LeaveLevel
    PROVE  Good'
<1>0. /\ ~Undisturbed /\ inlevel' = FALSE
      /\ UNCHANGED <<offtmp, fferr, offpaused, pendingwrites, runs, job, host,
                     disk, saved>>
      /\ stopped' = stopped
    BY DEF LeaveLevel, Undisturbed
<1>1. inlevel' \in BOOLEAN /\ countdown' \in BOOLEAN /\ stopped' \subseteq Render
    BY <1>0 DEF LeaveLevel, Good, TypeOK
<1>2. CASE countdown' = FALSE /\ AbortOffline
    BY <1>0, <1>1, <1>2, AbortInv
<1>3. CASE /\ ~countdown' \/ UNCHANGED countdown
           /\ (vidphase' = "none" /\ vidblock' = FALSE /\ vidphase # "render")
                 \/ UNCHANGED <<vidphase, vidblock>>
           /\ UNCHANGED <<kills, ffhandle, hooked>>
    <2> USE DEF runs, host
    <2>1. TypeOK'
        BY <1>0, <1>1, <1>3 DEF Good, TypeOK, Phase
    <2>2. Ordered'
        BY <1>0, <1>1, <1>3 DEF Good, Ordered, Quiet
    <2>3. Encoder' /\ InTurn' /\ Contents' /\ Saves'
        BY <1>0, <1>3 DEF Good, Encoder, InTurn, Contents, Whole, Lost, Saves, AllFrames
    <2>4. Pressure' /\ Hooks' /\ Calm' /\ Files'
        BY <1>0, <1>3 DEF Good, Pressure, Hooks, Calm, Files, Held, Tidy, Undisturbed
    <2>5. QED
        BY <2>1, <2>2, <2>3, <2>4 DEF Good
<1>4. QED
    BY <1>2, <1>3 DEF LeaveLevel

LEMMA EnterInv ==
    ASSUME Good, Apart, EnterLevel
    PROVE  Good'
<1> USE DEF EnterLevel, rec, runs, host
<1>1. TypeOK' /\ Ordered'
    BY DEF Good, TypeOK, Ordered, Quiet
<1>2. Encoder' /\ InTurn' /\ Contents' /\ Saves'
    BY DEF Good, Encoder, InTurn, Contents, Whole, Lost, Saves, AllFrames
<1>3. Pressure' /\ Hooks' /\ Calm' /\ Files'
    BY DEF Good, Pressure, Hooks, Calm, Files, Held, Tidy, Undisturbed
<1>4. QED
    BY <1>1, <1>2, <1>3 DEF Good

(* The host: a killed or failed encoder loses the render, and no more. *)
LEMMA HostInv ==
    ASSUME Good, Apart, NEW h \in Handle, KillJob(h) \/ EncoderFails(h)
    PROVE  Good'
<1>0. /\ ~Undisturbed
      /\ issued' = issued /\ live' \subseteq live /\ dead \subseteq dead'
      /\ dead' \subseteq Handle /\ kills' \subseteq Handle
      /\ UNCHANGED <<ui, rec, runs, job, owner, content, disk, saved, stopped>>
    BY DEF KillJob, EncoderFails, Table!TRemove, Undisturbed, Good, Calm, TypeOK
<1> USE DEF ui, rec, runs
<1>1. TypeOK' /\ Ordered'
    BY <1>0 DEF Good, TypeOK, Ordered, Quiet
<1>2. Encoder' /\ InTurn' /\ Saves'
    BY <1>0 DEF Good, Encoder, InTurn, Saves, AllFrames
<1>3. Contents'
    BY <1>0 DEF Good, Contents, Whole, Lost, AllFrames
<1>4. Pressure' /\ Hooks' /\ Calm' /\ Files'
    BY <1>0 DEF Good, Pressure, Hooks, Calm, Files, Held, Tidy, Undisturbed
<1>5. QED
    BY <1>1, <1>2, <1>3, <1>4 DEF Good

-----------------------------------------------------------------------------
(* The start chain.  Only the latest render has one. *)
LEMMA TempInv ==
    ASSUME Good, Apart, NEW g \in Render, TempPath(g)
    PROVE  Good'
<1>0. /\ job[g].start = "temp" /\ offtmp' = Video(g)
      /\ job' = [job EXCEPT ![g].start = "spawn"]
      /\ UNCHANGED <<ui, ffhandle, fferr, offpaused, pendingwrites, runs, host,
                     kills, disk, saved, stopped>>
    BY DEF TempPath
<1> USE DEF ui, runs, host
<1>1. g = cur /\ cur # 0 /\ ~countdown
    BY <1>0 DEF Good, Ordered, Quiet, Render
<1>j. /\ job' \in [Render -> Chains]
      /\ \A k \in Render : k # g => job'[k] = job[k]
      /\ job'[g].start = "spawn" /\ job'[g].sent = job[g].sent
      /\ job'[g].queue = job[g].queue /\ job'[g].flight = job[g].flight
      /\ job'[g].export = job[g].export /\ job'[g].closing = job[g].closing
      /\ job'[g].audio = job[g].audio /\ job'[g].source = job[g].source
      /\ job'[g].final = job[g].final
    <2> DEFINE c == [job[g] EXCEPT !.start = "spawn"]
    <2>1. job[g] \in Chains /\ TypeOK /\ job' = [job EXCEPT ![g] = c]
        BY <1>0 DEF Good, TypeOK
    <2>2. /\ c \in Chains
          /\ c.start = "spawn" /\ c.sent = job[g].sent
          /\ c.queue = job[g].queue /\ c.flight = job[g].flight
          /\ c.export = job[g].export /\ c.closing = job[g].closing
          /\ c.audio = job[g].audio /\ c.source = job[g].source
          /\ c.final = job[g].final
        BY <2>1 DEF Chains
    <2> HIDE DEF c
    <2>3. QED
        BY <2>1, <2>2, JobStep
<1>2. TypeOK'
    <2>1. offtmp' \in File
        BY <1>0 DEF Video, File
    <2>2. QED
        BY <1>0, <1>j, <2>1 DEF Good, TypeOK
<1>3. Ordered'
    BY <1>0, <1>1, <1>j DEF Good, Ordered, Quiet, Render
<1>4. Encoder' /\ InTurn' /\ Contents'
    BY <1>0, <1>1, <1>j DEF Good, Encoder, InTurn, Contents
<1>5. Saves'
    BY <1>0, <1>1, <1>j DEF Good, TypeOK, Saves, AllFrames, InTurn
<1>6. Pressure' /\ Hooks' /\ Calm'
    BY <1>0, <1>1, <1>j DEF Good, Pressure, Hooks, Calm, Undisturbed
<1>7. Files'
    BY <1>0, <1>1, <1>j DEF Good, Files, Held, Tidy, Undisturbed
<1>8. QED
    BY <1>2, <1>3, <1>4, <1>5, <1>6, <1>7 DEF Good

LEMMA StartFailsInv ==
    ASSUME Good, Apart, NEW g \in Render, StartFails(g)
    PROVE  Good'
<1>0. /\ job[g].start \in {"temp", "spawn"} /\ fferr' = TRUE
      /\ job' = [job EXCEPT ![g].start = "failed"]
      /\ UNCHANGED <<ui, ffhandle, offtmp, offpaused, pendingwrites, runs, host,
                     kills, disk, saved, stopped>>
    BY DEF StartFails
<1> USE DEF ui, runs, host
<1>1. g = cur /\ cur # 0 /\ ~countdown
    BY <1>0 DEF Good, Ordered, Quiet, Render
<1>j. /\ job' \in [Render -> Chains]
      /\ \A k \in Render : k # g => job'[k] = job[k]
      /\ job'[g].start = "failed" /\ job'[g].sent = job[g].sent
      /\ job'[g].queue = job[g].queue /\ job'[g].flight = job[g].flight
      /\ job'[g].export = job[g].export /\ job'[g].closing = job[g].closing
      /\ job'[g].audio = job[g].audio /\ job'[g].source = job[g].source
      /\ job'[g].final = job[g].final
    <2> DEFINE c == [job[g] EXCEPT !.start = "failed"]
    <2>1. job[g] \in Chains /\ TypeOK /\ job' = [job EXCEPT ![g] = c]
        BY <1>0 DEF Good, TypeOK
    <2>2. /\ c \in Chains
          /\ c.start = "failed" /\ c.sent = job[g].sent
          /\ c.queue = job[g].queue /\ c.flight = job[g].flight
          /\ c.export = job[g].export /\ c.closing = job[g].closing
          /\ c.audio = job[g].audio /\ c.source = job[g].source
          /\ c.final = job[g].final
        BY <2>1 DEF Chains
    <2> HIDE DEF c
    <2>3. QED
        BY <2>1, <2>2, JobStep
<1>2. TypeOK'
    <2>1. fferr' \in BOOLEAN
        BY <1>0
    <2>2. QED
        BY <1>0, <1>j, <2>1 DEF Good, TypeOK
<1>3. Ordered'
    BY <1>0, <1>1, <1>j DEF Good, Ordered, Quiet, Render
<1>4. Encoder' /\ InTurn' /\ Contents'
    BY <1>0, <1>1, <1>j DEF Good, Encoder, InTurn, Contents
<1>5. Saves'
    BY <1>0, <1>1, <1>j DEF Good, TypeOK, Saves, AllFrames, InTurn
<1>6. Pressure' /\ Hooks' /\ Calm'
    BY <1>0, <1>1, <1>j DEF Good, Pressure, Hooks, Calm, Undisturbed
<1>7. Files'
    BY <1>0, <1>1, <1>j DEF Good, Files, Held, Tidy, Undisturbed
<1>8. QED
    BY <1>2, <1>3, <1>4, <1>5, <1>6, <1>7 DEF Good

LEMMA FfmpegStartInv ==
    ASSUME Good, Apart, NEW g \in Render, FfmpegStart(g)
    PROVE  Good'
<1> DEFINE h == issued + 1
<1>0. /\ job[g].start = "spawn"
      /\ issued' = h /\ live' = live \cup {h}
      /\ owner' = [owner EXCEPT ![h] = g]
      /\ disk' = disk \cup {Video(g)}
      /\ ffhandle' = h
      /\ job' = [job EXCEPT ![g].start = "ok"]
      /\ UNCHANGED <<ui, offtmp, fferr, offpaused, pendingwrites, runs, content,
                     dead, kills, saved, stopped>>
    BY DEF FfmpegStart, Table!TStart
<1> USE DEF ui, runs
<1>1. g = cur /\ cur # 0 /\ ~countdown
    BY <1>0 DEF Good, Ordered, Quiet, Render
<1>2. /\ h \in Handle /\ h \in Nat /\ h <= cur /\ cur \in Nat /\ issued \in Nat /\ h # 0
      /\ owner \in [Handle -> Render \cup {Null}]
      /\ content[h] = <<>>
      /\ \A k \in Handle : k > h => k > issued
      /\ \A k \in Handle : k # h => owner'[k] = owner[k]
      /\ owner'[h] = g
    <2>1. /\ issued \in 0 .. MaxRenders /\ issued < cur /\ cur <= MaxRenders /\ cur \in Nat
          /\ owner \in [Handle -> Render \cup {Null}]
        BY <1>0, <1>1, OneOrCalm DEF Good, TypeOK, Encoder
    <2>2. h \in Handle /\ h \in Nat /\ h <= cur /\ issued \in Nat /\ h # 0 /\ h > issued
        BY <2>1, BoundsAssumption DEF Handle
    <2>3. \A k \in Handle : k > h => k > issued
        BY <2>1, BoundsAssumption DEF Handle
    <2>4. content[h] = <<>>
        BY <2>2 DEF Good, Encoder
    <2> HIDE DEF h
    <2>5. owner'[h] = g /\ \A k \in Handle : k # h => owner'[k] = owner[k]
        BY <1>0, <2>1, <2>2
    <2>6. QED
        BY <2>1, <2>2, <2>3, <2>4, <2>5
<1>j. /\ job' \in [Render -> Chains]
      /\ \A k \in Render : k # g => job'[k] = job[k]
      /\ job'[g].start = "ok" /\ job'[g].sent = 0
      /\ job'[g].queue = <<>> /\ job'[g].flight = NoCall
      /\ job'[g].export = "no" /\ job'[g].closing = job[g].closing
      /\ job'[g].audio = "no" /\ job'[g].source = job[g].source
      /\ job'[g].final = job[g].final
    <2> DEFINE c == [job[g] EXCEPT !.start = "ok"]
    <2>1. job[g] \in Chains /\ TypeOK /\ job' = [job EXCEPT ![g] = c]
        BY <1>0 DEF Good, TypeOK
    <2>2. /\ job[g].sent = 0 /\ job[g].queue = <<>> /\ job[g].flight = NoCall
          /\ job[g].export = "no" /\ job[g].audio = "no"
        BY <1>0, <1>1 DEF Good, InTurn
    <2>3. /\ c \in Chains
          /\ c.start = "ok" /\ c.sent = job[g].sent
          /\ c.queue = job[g].queue /\ c.flight = job[g].flight
          /\ c.export = job[g].export /\ c.closing = job[g].closing
          /\ c.audio = job[g].audio /\ c.source = job[g].source
          /\ c.final = job[g].final
        BY <2>1 DEF Chains
    <2> HIDE DEF c
    <2>4. QED
        BY <2>1, <2>2, <2>3, JobStep
<1>3. TypeOK'
    <2>1. issued' \in 0 .. MaxRenders /\ live' \subseteq 1 .. issued'
        BY <1>0, <1>2 DEF Good, TypeOK, Handle
    <2>2. owner' \in [Handle -> Render \cup {Null}] /\ ffhandle' \in Handle
        BY <1>0, <1>2
    <2>3. disk' \subseteq File
        BY <1>0 DEF Good, TypeOK, Video, File
    <2> HIDE DEF h
    <2>4. QED
        BY <1>0, <1>j, <2>1, <2>2, <2>3 DEF Good, TypeOK
<1> HIDE DEF h
<1>4. Ordered'
    BY <1>0, <1>1, <1>j DEF Good, Ordered, Quiet, Render
<1>5. Encoder'
    <2>1. \A k \in Handle : owner'[k] <= cur
        BY <1>0, <1>1, <1>2 DEF Good, Encoder
    <2>2. \A k \in Handle : k > h => owner'[k] = Null /\ content[k] = <<>>
        BY <1>0, <1>2 DEF Good, Encoder, Handle
    <2>3. \A k \in Handle : owner'[k] = cur <=> k = h
        BY <1>0, <1>1, <1>2 DEF Good, Encoder
    <2>4. offtmp = Video(cur)
        BY <1>0, <1>1 DEF Good, Encoder
    <2>5. QED
        BY <1>0, <1>1, <1>2, <1>j, <2>1, <2>2, <2>3, <2>4 DEF Encoder
<1>6. InTurn'
    BY <1>0, <1>1, <1>j DEF InTurn
<1>7. Contents'
    <2>1. Whole'
        BY <1>0, <1>1, <1>2, <1>j DEF Whole
    <2>2. QED
        BY <1>0, <1>1, <1>j, <2>1 DEF Contents
<1>8. Saves'
    BY <1>0, <1>1, <1>j DEF Good, TypeOK, Saves, AllFrames, InTurn
<1>9. Pressure' /\ Hooks'
    BY <1>0, <1>1, <1>j DEF Good, Pressure, Hooks, InTurn
<1>10. Calm'
    <2>1. Undisturbed => live = {} /\ ~fferr /\ vidphase = "render"
        BY <1>0, <1>1 DEF Good, Calm
    <2>2. QED
        BY <1>0, <1>1, <1>j, <2>1 DEF Good, Calm, Undisturbed
<1>11. Files'
    BY <1>0, <1>1, <1>j, FileNames DEF Good, Files, Held, Tidy, Undisturbed
<1>12. QED
    BY <1>3, <1>4, <1>5, <1>6, <1>7, <1>8, <1>9, <1>10, <1>11 DEF Good

-----------------------------------------------------------------------------
(* The write chain. *)
LEMMA WriteCallInv ==
    ASSUME Good, Apart, NEW g \in Render, WriteCall(g)
    PROVE  Good'
<1>0. /\ job[g].queue # <<>> /\ job[g].flight = NoCall
      /\ job' = [job EXCEPT ![g].flight = ffhandle]
      /\ UNCHANGED <<ui, rec, runs, host, kills, disk, saved, stopped>>
    BY DEF WriteCall
<1> USE DEF ui, rec, runs, host
<1>1. g = cur /\ cur # 0 /\ ~countdown
    BY <1>0 DEF Good, Ordered, Quiet, Render
<1>j. /\ job' \in [Render -> Chains]
      /\ \A k \in Render : k # g => job'[k] = job[k]
      /\ job'[g].flight = ffhandle /\ job'[g].start = job[g].start
      /\ job'[g].queue = job[g].queue /\ job'[g].sent = job[g].sent
      /\ job'[g].export = job[g].export /\ job'[g].closing = job[g].closing
      /\ job'[g].audio = job[g].audio /\ job'[g].source = job[g].source
      /\ job'[g].final = job[g].final
    <2> DEFINE c == [job[g] EXCEPT !.flight = ffhandle]
    <2>1. job[g] \in Chains /\ TypeOK /\ job' = [job EXCEPT ![g] = c]
        BY <1>0 DEF Good, TypeOK
    <2>2. ffhandle \in Handle \cup {Null, NoCall}
        BY DEF Good, TypeOK
    <2>3. /\ c \in Chains
          /\ c.flight = ffhandle /\ c.start = job[g].start
          /\ c.queue = job[g].queue /\ c.sent = job[g].sent
          /\ c.export = job[g].export /\ c.closing = job[g].closing
          /\ c.audio = job[g].audio /\ c.source = job[g].source
          /\ c.final = job[g].final
        BY <2>1, <2>2 DEF Chains
    <2> HIDE DEF c
    <2>4. QED
        BY <2>1, <2>3, JobStep
<1>2. job[g].start = "ok" /\ job[g].export \in {"no", "drain"} /\ issued # 0
    BY <1>0, <1>1 DEF Good, InTurn, Encoder
<1>3. TypeOK'
    BY <1>0, <1>j DEF Good, TypeOK
<1>4. Ordered'
    BY <1>0, <1>1, <1>j DEF Good, Ordered, Quiet, Render
<1>5. Encoder' /\ InTurn'
    BY <1>0, <1>1, <1>2, <1>j DEF Good, Encoder, InTurn
<1>6. Contents'
    <2>1. Whole => Whole'
        BY <1>0, <1>1, <1>j, WholeStays
    <2>2. Lost => Lost'
        BY <1>0, <1>1, <1>2, <1>j DEF Lost, Null
    <2>3. QED
        BY <1>0, <1>1, <1>2, <1>j, <2>1, <2>2 DEF Good, Contents
<1>7. Saves'
    BY <1>0, <1>1, <1>j DEF Good, TypeOK, Saves, AllFrames
<1>8. Pressure' /\ Hooks' /\ Calm'
    BY <1>0, <1>1, <1>j DEF Good, Pressure, Hooks, Calm, Undisturbed
<1>9. Files'
    BY <1>0, <1>1, <1>j DEF Good, Files, Held, Tidy, Undisturbed
<1>10. QED
    BY <1>3, <1>4, <1>5, <1>6, <1>7, <1>8, <1>9 DEF Good

LEMMA WriteDoneInv ==
    ASSUME Good, Apart, NEW g \in Render, WriteDone(g)
    PROVE  Good'
<1> DEFINE h == job[g].flight
           frame == <<g, Head(job[g].queue)>>
<1>0. /\ h # NoCall
      /\ job' = [job EXCEPT ![g].queue = Tail(@), ![g].flight = NoCall]
      /\ pendingwrites' = pendingwrites - 1
      /\ IF h \in live \ dead
         THEN content' = [content EXCEPT ![h] = Append(@, frame)] /\ UNCHANGED fferr
         ELSE fferr' = TRUE /\ UNCHANGED content
      /\ UNCHANGED <<ui, ffhandle, offtmp, offpaused, runs, issued, live, owner,
                     dead, kills, disk, saved, stopped>>
    BY DEF WriteDone
<1> USE DEF ui, runs
<1>1. g = cur /\ cur # 0 /\ ~countdown
    BY <1>0 DEF Good, Ordered, Quiet, Render
<1>2. /\ job[g].start = "ok" /\ job[g].export \in {"no", "drain"} /\ issued # 0
      /\ job[g].queue # <<>> /\ job[g].queue \in Seq(1 .. MaxFrames)
      /\ h = issued \/ (h = Null /\ ffhandle = Null)
    BY <1>0, <1>1 DEF Good, InTurn, Encoder, TypeOK, Chains
<1>q. /\ Tail(job[g].queue) \in Seq(1 .. MaxFrames) /\ Head(job[g].queue) \in 1 .. MaxFrames
      /\ Head(job[g].queue) = job[g].queue[1]
      /\ Len(job[g].queue) \in Nat /\ Len(job[g].queue) >= 1
      /\ Len(Tail(job[g].queue)) = Len(job[g].queue) - 1
      /\ \A i \in 1 .. Len(job[g].queue) - 1 : Tail(job[g].queue)[i] = job[g].queue[i + 1]
    BY <1>2, TailOf
<1>j. /\ job' \in [Render -> Chains]
      /\ \A k \in Render : k # g => job'[k] = job[k]
      /\ job'[g].flight = NoCall /\ job'[g].start = job[g].start
      /\ job'[g].queue = Tail(job[g].queue) /\ job'[g].sent = job[g].sent
      /\ job'[g].export = job[g].export /\ job'[g].closing = job[g].closing
      /\ job'[g].audio = job[g].audio /\ job'[g].source = job[g].source
      /\ job'[g].final = job[g].final
    <2> DEFINE c == [job[g] EXCEPT !.queue = Tail(@), !.flight = NoCall]
    <2>1. job[g] \in Chains /\ TypeOK /\ job' = [job EXCEPT ![g] = c]
        BY <1>0 DEF Good, TypeOK
    <2>2. /\ c \in Chains
          /\ c.flight = NoCall /\ c.start = job[g].start
          /\ c.queue = Tail(job[g].queue) /\ c.sent = job[g].sent
          /\ c.export = job[g].export /\ c.closing = job[g].closing
          /\ c.audio = job[g].audio /\ c.source = job[g].source
          /\ c.final = job[g].final
        BY <2>1, <1>q DEF Chains
    <2> HIDE DEF c
    <2>3. QED
        BY <2>1, <2>2, JobStep
<1>h. h \in live \ dead => h = issued /\ h \in Handle
    BY <1>2 DEF Good, TypeOK, Handle, Null
<1>c. /\ content' \in [Handle -> Seq(Render \X (1 .. MaxFrames))]
      /\ \A k \in Handle : k > issued => content'[k] = content[k]
      /\ fferr' \in BOOLEAN
    <2>1. CASE h \in live \ dead
        <3>1. frame \in Render \X (1 .. MaxFrames)
            BY <1>q
        <3>2. content \in [Handle -> Seq(Render \X (1 .. MaxFrames))] /\ issued \in Nat
            BY DEF Good, TypeOK
        <3> HIDE DEF h, frame
        <3>3. Append(content[h], frame) \in Seq(Render \X (1 .. MaxFrames))
            BY <1>h, <2>1, <3>1, <3>2, AppendOf
        <3>4. content' = [content EXCEPT ![h] = Append(content[h], frame)] /\ fferr' = fferr
            BY <1>0, <2>1
        <3>5. \A k \in Handle : k > issued => k # h
            BY <1>h, <2>1, <3>2 DEF Handle
        <3>6. QED
            BY <3>2, <3>3, <3>4, <3>5 DEF Good, TypeOK
    <2>2. CASE h \notin live \ dead
        BY <1>0, <2>2 DEF Good, TypeOK
    <2>3. QED
        BY <2>1, <2>2
<1>3. TypeOK'
    <2>1. pendingwrites' \in Int
        BY <1>0 DEF Good, TypeOK
    <2>2. QED
        BY <1>0, <1>j, <1>c, <2>1 DEF Good, TypeOK
<1>4. Ordered'
    BY <1>0, <1>1, <1>j DEF Good, Ordered, Quiet, Render
<1>5. Encoder' /\ InTurn'
    BY <1>0, <1>1, <1>2, <1>c, <1>j DEF Good, Encoder, InTurn
<1>6. Contents'
    <2>1. CASE h \in live \ dead
        <3>1. Whole
            BY <1>1, <1>2, <1>h, <2>1 DEF Good, Contents, Lost
        <3>2. /\ content[issued] \in Seq(Render \X (1 .. MaxFrames)) /\ issued \in Handle
              /\ frame \in Render \X (1 .. MaxFrames)
            BY <1>h, <1>q, <2>1 DEF Good, TypeOK
        <3>3. content'[issued] = Append(content[issued], frame)
            BY <1>0, <1>h, <2>1, <3>2 DEF Good, TypeOK
        <3>4. frame = <<cur, job[cur].queue[1]>>
            BY <1>1, <1>q
        <3>n. job[cur].sent \in Nat
            BY <1>1 DEF Good, TypeOK, Chains
        <3> HIDE DEF h, frame
        <3>5. /\ Len(content[issued]) \in Nat
              /\ Len(content'[issued]) = Len(content[issued]) + 1
              /\ content'[issued][Len(content[issued]) + 1] = frame
              /\ \A i \in 1 .. Len(content[issued]) : content'[issued][i] = content[issued][i]
            BY <3>2, <3>3, AppendOf
        <3>6. job[cur].queue[1] = Len(content[issued]) + 1
            BY <1>1, <1>q, <3>1, <3>5 DEF Whole
        <3>7. \A i \in 1 .. Len(content'[issued]) : content'[issued][i] = <<cur, i>>
            BY <3>1, <3>4, <3>5, <3>6 DEF Whole
        <3>8. \A i \in 1 .. Len(job[cur].queue) - 1 :
                  job[cur].queue[i + 1] = Len(content[issued]) + 1 + i
            BY <1>1, <1>q, <3>1, <3>5 DEF Whole
        <3>9. Whole'
            <4>1. /\ cur' = cur /\ issued' = issued /\ job'[cur].sent = job[cur].sent
                  /\ job'[cur].queue = Tail(job[cur].queue)
                BY <1>0, <1>1, <1>j
            <4>w. Len(content[issued]) + Len(job[cur].queue) = job[cur].sent
                BY <3>1 DEF Whole
            <4>l. /\ Len(Tail(job[cur].queue)) = Len(job[cur].queue) - 1
                  /\ Len(job[cur].queue) \in Nat
                BY <1>1, <1>q
            <4>a. /\ Len(content[issued]) \in Nat
                  /\ Len(content'[issued]) = Len(content[issued]) + 1
                BY ONLY <3>5
            <4>2. Len(content'[issued]) + Len(Tail(job[cur].queue)) = job[cur].sent
                <5> DEFINE a == Len(content[issued])
                           b == Len(job[cur].queue)
                           x == Len(content'[issued])
                           y == Len(Tail(job[cur].queue))
                <5>1. a + b = job[cur].sent /\ y = b - 1 /\ x = a + 1
                      /\ a \in Nat /\ b \in Nat
                    BY ONLY <4>w, <4>l, <4>a
                <5> HIDE DEF a, b, x, y
                <5>2. x + y = job[cur].sent
                    BY ONLY <5>1, <3>n
                <5>3. QED
                    BY ONLY <5>2 DEF x, y
            <4>3. \A i \in 1 .. Len(Tail(job[cur].queue)) :
                      Tail(job[cur].queue)[i] = Len(content'[issued]) + i
                BY <1>1, <1>q, <3>5, <3>8
            <4>4. QED
                BY ONLY <3>7, <4>1, <4>2, <4>3 DEF Whole
        <3>10. QED
            BY <1>0, <1>1, <1>2, <1>j, <3>9 DEF Contents
    <2>2. CASE h \notin live \ dead
        <3>1. Lost'
            BY <1>0, <1>1, <1>2, <1>j, <2>2 DEF Lost, NoCall, Good, TypeOK
        <3>2. QED
            BY <1>0, <1>1, <1>2, <1>j, <3>1 DEF Contents
    <2>3. QED
        BY <2>1, <2>2
<1>7. Saves'
    BY <1>0, <1>1, <1>2, <1>j DEF Good, TypeOK, Saves, AllFrames
<1>8. Pressure' /\ Hooks'
    BY <1>0, <1>1, <1>j, <1>q, PressureAssumption DEF Good, Pressure, Hooks
<1>9. Calm'
    <2>1. Undisturbed => h \in live \ dead
        BY <1>1, <1>2 DEF Good, Calm, Null
    <2> HIDE DEF h
    <2>2. Undisturbed => fferr' = fferr
        BY <1>0, <2>1
    <2>3. QED
        BY <1>0, <1>1, <1>j, <2>2 DEF Good, Calm, Undisturbed
<1>10. Files'
    BY <1>0, <1>1, <1>j DEF Good, Files, Held, Tidy, Undisturbed
<1>11. QED
    BY <1>3, <1>4, <1>5, <1>6, <1>7, <1>8, <1>9, <1>10 DEF Good

-----------------------------------------------------------------------------
(* The export chain, to the end of the encoder. *)
LEMMA FinishCallInv ==
    ASSUME Good, Apart, NEW g \in Render, FinishCall(g)
    PROVE  Good'
<1>0. /\ job[g].export = "drain" /\ job[g].queue = <<>>
      /\ job' = [job EXCEPT ![g].export = "finishing", ![g].closing = ffhandle]
      /\ UNCHANGED <<ui, rec, runs, host, kills, disk, saved, stopped>>
    BY DEF FinishCall
<1> USE DEF ui, rec, runs, host
<1>1. g = cur /\ cur # 0 /\ ~countdown
    BY <1>0 DEF Good, Ordered, Quiet, Render
<1>t. ffhandle \in Handle \cup {Null}
    BY DEF Good, TypeOK
<1>j. /\ job' \in [Render -> Chains]
      /\ \A k \in Render : k # g => job'[k] = job[k]
      /\ job'[g].export = "finishing" /\ job'[g].closing = ffhandle
      /\ job'[g].start = job[g].start /\ job'[g].sent = job[g].sent
      /\ job'[g].queue = job[g].queue /\ job'[g].flight = job[g].flight
      /\ job'[g].audio = job[g].audio /\ job'[g].source = job[g].source
      /\ job'[g].final = job[g].final
    <2> DEFINE c == [job[g] EXCEPT !.export = "finishing", !.closing = ffhandle]
    <2>1. job[g] \in Chains /\ TypeOK /\ job' = [job EXCEPT ![g] = c]
        BY <1>0 DEF Good, TypeOK
    <2>2. /\ c \in Chains
          /\ c.export = "finishing" /\ c.closing = ffhandle
          /\ c.start = job[g].start /\ c.sent = job[g].sent
          /\ c.queue = job[g].queue /\ c.flight = job[g].flight
          /\ c.audio = job[g].audio /\ c.source = job[g].source
          /\ c.final = job[g].final
        BY <2>1, <1>t DEF Chains
    <2> HIDE DEF c
    <2>3. QED
        BY <2>1, <2>2, JobStep
<1>2. /\ job[g].start = "ok" /\ issued # 0 /\ job[g].flight = NoCall
      /\ job[g].audio = "no" /\ ffhandle \in {Null, issued}
    BY <1>0, <1>1 DEF Good, InTurn, Encoder
<1>3. TypeOK'
    BY <1>0, <1>j DEF Good, TypeOK
<1>4. Ordered'
    BY <1>0, <1>1, <1>j DEF Good, Ordered, Quiet, Render
<1>5. Encoder' /\ InTurn'
    BY <1>0, <1>1, <1>2, <1>j DEF Good, Encoder, InTurn
<1>6. Contents'
    <2>1. Whole => Whole'
        BY <1>0, <1>1, <1>j, WholeStays
    <2>2. Lost => Lost'
        BY <1>0, <1>1, <1>2, <1>j DEF Lost, Null
    <2>3. QED
        BY <1>0, <1>1, <1>2, <1>j, <2>1, <2>2 DEF Good, Contents
<1>7. Saves'
    BY <1>0, <1>1, <1>j DEF Good, TypeOK, Saves, AllFrames
<1>8. Pressure' /\ Hooks' /\ Calm'
    BY <1>0, <1>1, <1>j DEF Good, Pressure, Hooks, Calm, Undisturbed
<1>9. Files'
    BY <1>0, <1>1, <1>j DEF Good, Files, Held, Tidy, Undisturbed
<1>10. QED
    BY <1>3, <1>4, <1>5, <1>6, <1>7, <1>8, <1>9 DEF Good

(* The encoder has taken everything, or the export ends with a message. *)
LEMMA FinishDoneInv ==
    ASSUME Good, Apart, NEW g \in Render, FinishDone(g)
    PROVE  Good'
<1> DEFINE h == job[g].closing
<1>0. /\ job[g].export = "finishing" /\ ffhandle' = Null
      /\ issued' = issued /\ live' = live \ {h}
      /\ UNCHANGED <<inlevel, countdown, vidblock, hooked, offtmp, fferr, offpaused,
                     pendingwrites, runs, owner, content, dead, kills, disk,
                     saved, stopped>>
    BY DEF FinishDone, Table!TRemove
<1> USE DEF runs
<1>1. g = cur /\ cur # 0 /\ ~countdown
    BY <1>0 DEF Good, Ordered, Quiet, Render
<1>2. /\ job[g].start = "ok" /\ issued # 0 /\ job[g].queue = <<>>
      /\ job[g].flight = NoCall /\ job[g].audio = "no"
      /\ h \in {Null, issued} /\ vidphase # "render"
    BY <1>0, <1>1 DEF Good, InTurn, Encoder
<1>3. CASE h \in live \ dead
    <2>0. job' = [job EXCEPT ![g].export = "muxing", ![g].audio = "build"]
          /\ vidphase' = vidphase
        BY <1>3 DEF FinishDone
    <2>j. /\ job' \in [Render -> Chains]
          /\ \A k \in Render : k # g => job'[k] = job[k]
          /\ job'[g].export = "muxing" /\ job'[g].audio = "build"
          /\ job'[g].start = job[g].start /\ job'[g].sent = job[g].sent
          /\ job'[g].queue = job[g].queue /\ job'[g].flight = job[g].flight
          /\ job'[g].closing = job[g].closing /\ job'[g].source = job[g].source
          /\ job'[g].final = job[g].final
        <3> DEFINE c == [job[g] EXCEPT !.export = "muxing", !.audio = "build"]
        <3>1. job[g] \in Chains /\ TypeOK /\ job' = [job EXCEPT ![g] = c]
            BY <2>0 DEF Good, TypeOK
        <3>2. /\ c \in Chains
              /\ c.export = "muxing" /\ c.audio = "build"
              /\ c.start = job[g].start /\ c.sent = job[g].sent
              /\ c.queue = job[g].queue /\ c.flight = job[g].flight
              /\ c.closing = job[g].closing /\ c.source = job[g].source
              /\ c.final = job[g].final
            BY <3>1 DEF Chains
        <3> HIDE DEF c
        <3>3. QED
            BY <3>1, <3>2, JobStep
    <2> DEFINE got == content[issued]
    <2>1. h = issued /\ issued \in Handle
        BY <1>2, <1>3 DEF Good, TypeOK, Handle, Null
    <2>2. got = AllFrames(cur)
        <3>1. Whole
            BY <1>0, <1>1, <1>2, <1>3, <2>1 DEF Good, Contents, Lost
        <3>2. got \in Seq(Render \X (1 .. MaxFrames))
            BY <2>1 DEF Good, TypeOK
        <3>3. Len(job[cur].queue) = 0
            BY <1>1, <1>2
        <3>n. job[cur].sent \in Nat
            BY <1>1 DEF Good, TypeOK, Chains
        <3>4. Len(got) = job[cur].sent /\ \A i \in 1 .. Len(got) : got[i] = <<cur, i>>
            <4>1. /\ Len(got) + Len(job[cur].queue) = job[cur].sent
                  /\ \A i \in 1 .. Len(got) : got[i] = <<cur, i>>
                BY <3>1 DEF Whole
            <4>2. Len(got) \in Nat
                BY <3>2
            <4> HIDE DEF got
            <4>3. QED
                BY <3>3, <3>n, <4>1, <4>2
        <3> HIDE DEF got
        <3>5. got = [i \in 1 .. Len(got) |-> got[i]]
            BY <3>2
        <3>6. QED
            BY <3>4, <3>5 DEF AllFrames
    <2>3. TypeOK'
        BY <1>0, <2>0, <2>j DEF Good, TypeOK
    <2>4. Ordered'
        BY <1>0, <1>1, <2>0, <2>j DEF Good, Ordered, Quiet, Render
    <2>5. Encoder' /\ InTurn'
        BY <1>0, <1>1, <1>2, <2>0, <2>j DEF Good, Encoder, InTurn
    <2>6. Contents'
        <3>1. Lost'
            BY <1>0, <2>1 DEF Lost
        <3>2. AllFrames(cur)' = AllFrames(cur)
            BY <1>0, <1>1, <2>j DEF AllFrames
        <3>3. QED
            BY <1>0, <1>1, <2>2, <2>j, <3>1, <3>2 DEF Contents
    <2>7. Saves'
        BY <1>0, <1>1, <2>j DEF Good, TypeOK, Saves, AllFrames
    <2>8. Pressure' /\ Hooks'
        BY <1>0, <1>1, <2>0, <2>j DEF Good, Pressure, Hooks
    <2>9. Calm'
        BY <1>0, <1>1, <1>2, <2>0, <2>1, <2>j DEF Good, Calm, Undisturbed
    <2>10. Files'
        BY <1>0, <1>1, <1>2, <2>0, <2>j DEF Good, Files, Held, Tidy, Undisturbed
    <2>11. QED
        BY <2>3, <2>4, <2>5, <2>6, <2>7, <2>8, <2>9, <2>10 DEF Good
<1>4. CASE h \notin live \ dead
    <2>0. job' = [job EXCEPT ![g].export = "done"] /\ vidphase' = "exported"
        BY <1>4 DEF FinishDone
    <2>j. /\ job' \in [Render -> Chains]
          /\ \A k \in Render : k # g => job'[k] = job[k]
          /\ job'[g].export = "done" /\ job'[g].start = job[g].start
          /\ job'[g].sent = job[g].sent /\ job'[g].queue = job[g].queue
          /\ job'[g].flight = job[g].flight /\ job'[g].closing = job[g].closing
          /\ job'[g].audio = job[g].audio /\ job'[g].source = job[g].source
          /\ job'[g].final = job[g].final
        <3> DEFINE c == [job[g] EXCEPT !.export = "done"]
        <3>1. job[g] \in Chains /\ TypeOK /\ job' = [job EXCEPT ![g] = c]
            BY <2>0 DEF Good, TypeOK
        <3>2. /\ c \in Chains
              /\ c.export = "done" /\ c.start = job[g].start
              /\ c.sent = job[g].sent /\ c.queue = job[g].queue
              /\ c.flight = job[g].flight /\ c.closing = job[g].closing
              /\ c.audio = job[g].audio /\ c.source = job[g].source
              /\ c.final = job[g].final
            BY <3>1 DEF Chains
        <3> HIDE DEF c
        <3>3. QED
            BY <3>1, <3>2, JobStep
    <2>1. ~Undisturbed
        <3>1. Undisturbed => h = issued /\ live = {issued} /\ dead = {}
            BY <1>0, <1>1, <1>2 DEF Good, Calm
        <3>2. QED
            BY <1>4, <3>1
    <2>3. TypeOK'
        BY <1>0, <2>0, <2>j DEF Good, TypeOK, Phase
    <2>4. Ordered'
        BY <1>0, <1>1, <2>0, <2>j DEF Good, Ordered, Quiet, Render
    <2>5. Encoder' /\ InTurn'
        BY <1>0, <1>1, <1>2, <2>0, <2>j DEF Good, Encoder, InTurn
    <2>6. Contents'
        <3>1. Lost'
            BY <1>0, <1>1, <1>2, <2>j DEF Lost, NoCall, Good, TypeOK
        <3>2. QED
            BY <1>0, <1>1, <2>j, <3>1 DEF Contents
    <2>7. Saves'
        BY <1>0, <1>1, <2>j DEF Good, TypeOK, Saves, AllFrames
    <2>8. Pressure' /\ Hooks'
        BY <1>0, <1>1, <1>2, <2>0, <2>j DEF Good, Pressure, Hooks
    <2>9. Calm' /\ Files'
        BY <1>0, <2>1 DEF Calm, Files, Held, Tidy, Undisturbed
    <2>10. QED
        BY <2>3, <2>4, <2>5, <2>6, <2>7, <2>8, <2>9 DEF Good
<1>5. QED
    BY <1>3, <1>4

(* The audio of a render, and the choice of the file to save.  The audio may come
   after the timeout has settled the choice, and even after the next render began. *)
LEMMA AudioStep ==
    ASSUME Good, Apart, NEW g \in Render, NEW c \in Chains, job' = [job EXCEPT ![g] = c],
           c.start = job[g].start, c.sent = job[g].sent, c.queue = job[g].queue,
           c.flight = job[g].flight, c.closing = job[g].closing,
           job[g].audio \in {"build", "mux"} \/ job[g].export = "muxing",
           \/ c.export = job[g].export /\ c.final = job[g].final
           \/ job[g].export = "muxing" /\ c.export = "saving",
           g = cur /\ c.export = "muxing" /\ c.audio = "mux" => c.source = Video(g),
           g = cur /\ c.export = "saving" =>
             \/ c.final = Video(g)
             \/ c.final = Mux(g) /\ c.source = Video(g) /\ c.audio = "end",
           disk' \subseteq disk \cup {Wav(g), Mux(g)},
           Tidy => Held(g, c, disk'),
           UNCHANGED <<ui, rec, runs, host, kills, saved, stopped>>
    PROVE  Good'
<1> USE DEF ui, rec, runs, host
<1>j. /\ job' \in [Render -> Chains] /\ job'[g] = c
      /\ \A k \in Render : k # g => job'[k] = job[k]
    BY JobStep DEF Good
<1>1. cur # 0 /\ cur \in Render /\ ~(g > cur)
    <2>1. ~(g > cur)
        BY DEF Good, Ordered, NotStarted
    <2>2. QED
        BY <2>1, OneOrCalm DEF Render
<1>2. g # cur => c.export = job[g].export
    BY DEF Good, Ordered, Quiet
<1>3. g = cur =>
        /\ job[g].start = "ok" /\ job[g].export \in {"muxing", "saving", "done"}
        /\ job[g].queue = <<>> /\ job[g].flight = NoCall /\ vidphase # "render"
        /\ countdown => job[g].export = "done"
        /\ c.export \in {"muxing", "saving", "done"}
        /\ c.export \in {"muxing", "saving"} => job[g].export \in {"muxing", "saving"}
        /\ c.export = "done" => job[g].export = "done"
    <2> SUFFICES ASSUME g = cur
                 PROVE  /\ job[g].start = "ok" /\ job[g].export \in {"muxing", "saving", "done"}
                        /\ job[g].queue = <<>> /\ job[g].flight = NoCall /\ vidphase # "render"
                        /\ countdown => job[g].export = "done"
        OBVIOUS
    <2>1. job[g].export \in {"muxing", "saving", "done"}
        BY <1>1 DEF Good, InTurn, TypeOK, Chains
    <2>2. QED
        BY <1>1, <2>1 DEF Good, InTurn, Ordered, Quiet
<1>4. TypeOK'
    <2>1. disk' \subseteq File
        BY FileNames DEF Good, TypeOK
    <2>2. QED
        BY <1>j, <2>1 DEF Good, TypeOK
<1>5. Ordered'
    <2>1. \A k \in Render : k # cur => Quiet(k)'
        BY <1>j, <1>2 DEF Good, Ordered, Quiet
    <2>2. \A k \in Render : k > cur => job'[k] = NotStarted
        BY <1>j, <1>1 DEF Good, Ordered
    <2>3. job'[cur].start # "no"
        BY <1>j, <1>1 DEF Good, Ordered
    <2>4. countdown => Quiet(cur)'
        BY <1>j, <1>1, <1>3 DEF Good, Ordered, Quiet
    <2>5. QED
        BY <1>1, <2>1, <2>2, <2>3, <2>4 DEF Good, Ordered
<1>6. Encoder' /\ InTurn'
    BY <1>j, <1>1, <1>3 DEF Good, Encoder, InTurn
<1>7. Contents'
    <2>1. Whole => Whole'
        BY <1>j, <1>1, WholeStays
    <2>2. Lost => Lost'
        BY <1>j, <1>1, <1>3 DEF Lost
    <2>3. AllFrames(cur)' = AllFrames(cur)
        BY <1>j, <1>1 DEF AllFrames
    <2>4. CASE g # cur
        BY <1>j, <1>1, <2>1, <2>2, <2>3, <2>4 DEF Good, Contents
    <2>5. CASE g = cur
        BY <1>j, <1>1, <1>3, <2>1, <2>2, <2>3, <2>5 DEF Good, Contents
    <2>6. QED
        BY <2>4, <2>5
<1>8. Saves'
    <2> SUFFICES ASSUME NEW s \in saved
                 PROVE  /\ job'[s.render].export = "done"
                        /\ s.frames = AllFrames(s.render)'
        BY DEF Saves
    <2>1. s.render \in Render /\ job[s.render].export = "done"
          /\ s.frames = AllFrames(s.render)
        BY DEF Good, TypeOK, Saves
    <2>2. job'[s.render].sent = job[s.render].sent /\ job'[s.render].export = "done"
        BY <1>j, <2>1
    <2>3. QED
        BY <2>1, <2>2 DEF AllFrames
<1>9. Pressure' /\ Hooks'
    BY <1>j, <1>1 DEF Good, Pressure, Hooks
<1>10. Calm'
    BY <1>j, <1>1, <1>3 DEF Good, Calm, Undisturbed
<1>11. Files'
    <2> SUFFICES ASSUME Tidy, NEW k \in Render
                 PROVE  /\ Video(k) \in disk' =>
                             k = cur /\ job'[k].start = "ok" /\ job'[k].export # "done"
                        /\ Held(k, job'[k], disk')
        BY DEF Files, Held, Tidy, Undisturbed
    <2>1. /\ Video(k) \in disk' => Video(k) \in disk
          /\ k # g => /\ Wav(k) \in disk' => Wav(k) \in disk
                      /\ Mux(k) \in disk' => Mux(k) \in disk
        BY FileNames
    <2>2. /\ Video(k) \in disk =>
               k = cur /\ job[k].start = "ok" /\ job[k].export # "done"
          /\ Held(k, job[k], disk)
        BY DEF Good, Files
    <2>3. CASE k # g
        BY <1>j, <2>1, <2>2, <2>3 DEF Held
    <2>4. CASE k = g
        BY <1>j, <1>3, <2>1, <2>2, <2>4
    <2>5. QED
        BY <2>3, <2>4
<1>12. QED
    BY <1>4, <1>5, <1>6, <1>7, <1>8, <1>9, <1>10, <1>11 DEF Good

LEMMA DeliverIs ==
    ASSUME NEW g \in Render, NEW jobs \in [Render -> Chains], NEW path
    PROVE  Deliver(jobs, g, path) =
             IF jobs[g].export = "muxing"
             THEN [jobs EXCEPT ![g] = [jobs[g] EXCEPT !.export = "saving", !.final = path]]
             ELSE jobs
BY DEF Deliver

(* The end of the audio, which delivers a file unless another was faster. *)
LEMMA AudioEnds ==
    ASSUME TypeOK, NEW g \in Render, NEW path \in File \cup {NoFile},
           job' = Deliver([job EXCEPT ![g].audio = "end"], g, path)
    PROVE  \E c \in Chains :
             /\ job' = [job EXCEPT ![g] = c]
             /\ c.start = job[g].start /\ c.sent = job[g].sent /\ c.queue = job[g].queue
             /\ c.flight = job[g].flight /\ c.closing = job[g].closing
             /\ c.audio = "end" /\ c.source = job[g].source
             /\ IF job[g].export = "muxing"
                THEN c.export = "saving" /\ c.final = path
                ELSE c.export = job[g].export /\ c.final = job[g].final
<1> DEFINE e == [job[g] EXCEPT !.audio = "end"]
           c == IF job[g].export = "muxing"
                THEN [e EXCEPT !.export = "saving", !.final = path]
                ELSE e
           jobs == [job EXCEPT ![g] = e]
<1>0. job \in [Render -> Chains] /\ job[g] \in Chains
    BY DEF TypeOK
<1>1. /\ e \in Chains /\ e.export = job[g].export
      /\ [job EXCEPT ![g].audio = "end"] = jobs
    BY <1>0 DEF Chains
<1>2. /\ c \in Chains
      /\ c.start = job[g].start /\ c.sent = job[g].sent /\ c.queue = job[g].queue
      /\ c.flight = job[g].flight /\ c.closing = job[g].closing
      /\ c.audio = "end" /\ c.source = job[g].source
      /\ IF job[g].export = "muxing"
         THEN c.export = "saving" /\ c.final = path
         ELSE c.export = job[g].export /\ c.final = job[g].final
    BY <1>0 DEF Chains
<1>3. job' = [job EXCEPT ![g] = c]
    <2>1. job' = Deliver(jobs, g, path)
        BY <1>1
    <2> HIDE DEF e
    <2>2. jobs \in [Render -> Chains] /\ jobs[g] = e
        BY <1>0, <1>1
    <2> HIDE DEF jobs
    <2>3. job' = IF jobs[g].export = "muxing"
                 THEN [jobs EXCEPT ![g] = [jobs[g] EXCEPT !.export = "saving", !.final = path]]
                 ELSE jobs
        BY <2>1, <2>2, DeliverIs
    <2>4. QED
        BY <1>0, <1>1, <2>2, <2>3 DEF jobs
<1> HIDE DEF c
<1>4. QED
    BY <1>2, <1>3

(* The file t.offtmp names is that of the latest render. *)
LEMMA OfftmpIs ==
    ASSUME Good, Apart, NEW g \in Render,
           job[g].audio = "build" \/ job[g].audio = "mux" \/ job[g].export = "muxing"
    PROVE  /\ job[g].export = "muxing" => g = cur
           /\ g = cur => offtmp = Video(g)
           /\ offtmp \in File \cup {NoFile}
<1>1. job[g].export = "muxing" => g = cur
    BY DEF Good, Ordered, Quiet
<1>2. g = cur => cur # 0 /\ job[g].start = "ok"
    <2> SUFFICES ASSUME g = cur PROVE cur # 0 /\ job[g].start = "ok"
        OBVIOUS
    <2>1. cur # 0
        BY DEF Render
    <2>2. job[g].export # "no"
        BY <2>1 DEF Good, InTurn
    <2>3. QED
        BY <2>1, <2>2 DEF Good, InTurn
<1>3. QED
    BY <1>1, <1>2 DEF Good, Encoder, TypeOK

LEMMA MuxTimeoutInv ==
    ASSUME Good, Apart, NEW g \in Render, MuxTimeout(g)
    PROVE  Good'
<1> DEFINE c == [job[g] EXCEPT !.export = "saving", !.final = offtmp]
<1>1. job \in [Render -> Chains] /\ job[g] \in Chains
    BY DEF Good, TypeOK
<1>2. /\ job[g].export = "muxing" /\ job' = [job EXCEPT ![g] = c]
      /\ disk' = disk
      /\ UNCHANGED <<ui, rec, runs, host, kills, saved, stopped>>
    BY <1>1, DeliverIs DEF MuxTimeout
<1>3. g = cur /\ offtmp = Video(g) /\ offtmp \in File \cup {NoFile}
    BY <1>2, OfftmpIs
<1>4. /\ c \in Chains
      /\ c.start = job[g].start /\ c.sent = job[g].sent /\ c.queue = job[g].queue
      /\ c.flight = job[g].flight /\ c.closing = job[g].closing
      /\ c.audio = job[g].audio /\ c.source = job[g].source
      /\ c.export = "saving" /\ c.final = offtmp
    BY <1>1, <1>3 DEF Chains
<1>5. Tidy => Held(g, job[g], disk)
    BY DEF Good, Files
<1> HIDE DEF c
<1>6. Tidy => Held(g, c, disk')
    BY <1>2, <1>3, <1>4, <1>5, FileNames DEF Held
<1>7. disk' \subseteq disk \cup {Wav(g), Mux(g)}
    BY <1>2
<1>8. QED
    BY <1>2, <1>3, <1>4, <1>6, <1>7, AudioStep

LEMMA BuildAudioInv ==
    ASSUME Good, Apart, NEW g \in Render, BuildAudio(g)
    PROVE  Good'
<1>1. job \in [Render -> Chains] /\ job[g] \in Chains
    BY DEF Good, TypeOK
<1>2. job[g].audio = "build" /\ UNCHANGED <<ui, rec, runs, host, kills, saved, stopped>>
    BY DEF BuildAudio
<1>3. /\ job[g].export = "muxing" => g = cur
      /\ g = cur => offtmp = Video(g)
      /\ offtmp \in File \cup {NoFile}
    BY <1>2, OfftmpIs
<1>4. g = cur => (job[g].export = "saving" => job[g].final = Video(g))
    BY <1>2 DEF Good, Contents, Render
<1>5. Tidy =>
        /\ Wav(g) \notin disk /\ Mux(g) \notin disk
        /\ job[g].final # Mux(g) /\ job[g].source = NoFile
    BY <1>2 DEF Good, Files, Held
<1>6. CASE /\ disk' = disk \cup {Wav(g)}
           /\ job' = [job EXCEPT ![g].audio = "mux", ![g].source = offtmp]
    <2> DEFINE c == [job[g] EXCEPT !.audio = "mux", !.source = offtmp]
    <2>1. job' = [job EXCEPT ![g] = c]
        BY <1>6
    <2>2. /\ c \in Chains
          /\ c.start = job[g].start /\ c.sent = job[g].sent /\ c.queue = job[g].queue
          /\ c.flight = job[g].flight /\ c.closing = job[g].closing
          /\ c.audio = "mux" /\ c.source = offtmp
          /\ c.export = job[g].export /\ c.final = job[g].final
        BY <1>1, <1>3 DEF Chains
    <2> HIDE DEF c
    <2>3. Tidy => Held(g, c, disk')
        BY <1>5, <1>6, <2>2, FileNames DEF Held
    <2>4. disk' \subseteq disk \cup {Wav(g), Mux(g)}
        BY <1>6
    <2>5. QED
        BY <1>2, <1>3, <1>4, <2>1, <2>2, <2>3, <2>4, AudioStep
<1>7. CASE /\ job' = Deliver([job EXCEPT ![g].audio = "end"], g, offtmp)
           /\ disk' \in {disk, disk \cup {Wav(g)}}
    <2>1. PICK c \in Chains :
             /\ job' = [job EXCEPT ![g] = c]
             /\ c.start = job[g].start /\ c.sent = job[g].sent /\ c.queue = job[g].queue
             /\ c.flight = job[g].flight /\ c.closing = job[g].closing
             /\ c.audio = "end" /\ c.source = job[g].source
             /\ IF job[g].export = "muxing"
                THEN c.export = "saving" /\ c.final = offtmp
                ELSE c.export = job[g].export /\ c.final = job[g].final
        BY <1>1, <1>3, <1>7, AudioEnds DEF Good
    <2>2. Tidy => Held(g, c, disk')
        BY <1>5, <1>7, <2>1, FileNames DEF Held
    <2>3. disk' \subseteq disk \cup {Wav(g), Mux(g)}
        BY <1>7
    <2>4. QED
        BY <1>2, <1>3, <1>4, <2>1, <2>2, <2>3, AudioStep
<1>8. QED
    BY <1>6, <1>7 DEF BuildAudio

LEMMA MuxDoneInv ==
    ASSUME Good, Apart, NEW g \in Render, MuxDone(g)
    PROVE  Good'
<1>2. job[g].audio = "mux" /\ UNCHANGED <<ui, rec, runs, host, kills, saved, stopped>>
    BY DEF MuxDone
<1>3. /\ job[g].export = "muxing" => g = cur /\ job[g].source = Video(g)
      /\ g = cur => offtmp = Video(g)
      /\ offtmp \in File \cup {NoFile} /\ Mux(g) \in File \cup {NoFile}
    BY <1>2, OfftmpIs, FileNames DEF Good, Contents, Render
<1>4. g = cur => (job[g].export = "saving" => job[g].final = Video(g))
    BY <1>2 DEF Good, Contents, Render
<1>5. Tidy => Mux(g) \notin disk /\ job[g].final # Mux(g)
    BY <1>2 DEF Good, Files, Held
<1>6. PICK path \in {Mux(g), offtmp}, gone \in Removals({Wav(g)}), left \in SUBSET {Mux(g)} :
        /\ job' = Deliver([job EXCEPT ![g].audio = "end"], g, path)
        /\ disk' = (disk \ gone) \cup left
    BY DEF MuxDone
<1>p. path \in File \cup {NoFile} /\ TypeOK
    BY <1>3, <1>6 DEF Good
<1>7. PICK c \in Chains :
         /\ job' = [job EXCEPT ![g] = c]
         /\ c.start = job[g].start /\ c.sent = job[g].sent /\ c.queue = job[g].queue
         /\ c.flight = job[g].flight /\ c.closing = job[g].closing
         /\ c.audio = "end" /\ c.source = job[g].source
         /\ IF job[g].export = "muxing"
            THEN c.export = "saving" /\ c.final = path
            ELSE c.export = job[g].export /\ c.final = job[g].final
    BY <1>6, <1>p, AudioEnds
<1>8. /\ disk' \subseteq disk \cup {Wav(g), Mux(g)}
      /\ Tidy => Wav(g) \notin disk'
    BY <1>6, FileNames DEF Tidy, Removals
<1>9. Tidy => Held(g, c, disk')
    BY <1>5, <1>7, <1>8 DEF Held
<1>10. g = cur /\ c.export = "saving" =>
         \/ c.final = Video(g)
         \/ c.final = Mux(g) /\ c.source = Video(g) /\ c.audio = "end"
    BY <1>3, <1>4, <1>6, <1>7
<1>11. QED
    BY <1>2, <1>7, <1>8, <1>9, <1>10, AudioStep

LEMMA SaveDoneInv ==
    ASSUME Good, Apart, NEW g \in Render, SaveDone(g)
    PROVE  Good'
<1> DEFINE f == job[g].final
           entry == [render |-> g, file |-> f, frames |-> Frames(f)]
<1>0. /\ job[g].export = "saving"
      /\ (f \in disk /\ saved' = saved \cup {entry}) \/ saved' = saved
      /\ disk' \subseteq disk
      /\ "remove" \notin scenario.faults => disk' = disk \ {offtmp, f}
      /\ vidphase' = "exported" /\ ffhandle' = Null
      /\ job' = [job EXCEPT ![g].export = "done"]
      /\ UNCHANGED <<inlevel, countdown, vidblock, hooked, offtmp, fferr, offpaused,
                     pendingwrites, runs, host, kills, stopped>>
    BY DEF SaveDone, Cleanup, Removals
<1> USE DEF runs, host
<1>1. g = cur /\ cur # 0 /\ ~countdown
    BY <1>0 DEF Good, Ordered, Quiet, Render
<1>j. /\ job' \in [Render -> Chains]
      /\ \A k \in Render : k # g => job'[k] = job[k]
      /\ job'[g].export = "done" /\ job'[g].start = job[g].start
      /\ job'[g].sent = job[g].sent /\ job'[g].queue = job[g].queue
      /\ job'[g].flight = job[g].flight /\ job'[g].closing = job[g].closing
      /\ job'[g].audio = job[g].audio /\ job'[g].source = job[g].source
      /\ job'[g].final = job[g].final
    <2> DEFINE c == [job[g] EXCEPT !.export = "done"]
    <2>1. job[g] \in Chains /\ TypeOK /\ job' = [job EXCEPT ![g] = c]
        BY <1>0 DEF Good, TypeOK
    <2>2. /\ c \in Chains
          /\ c.export = "done" /\ c.start = job[g].start
          /\ c.sent = job[g].sent /\ c.queue = job[g].queue
          /\ c.flight = job[g].flight /\ c.closing = job[g].closing
          /\ c.audio = job[g].audio /\ c.source = job[g].source
          /\ c.final = job[g].final
        BY <2>1 DEF Chains
    <2> HIDE DEF c
    <2>3. QED
        BY <2>1, <2>2, JobStep
<1>2. /\ job[g].start = "ok" /\ issued # 0 /\ job[g].queue = <<>>
      /\ job[g].flight = NoCall /\ vidphase # "render"
      /\ offtmp = Video(g) /\ content[issued] = AllFrames(cur)
      /\ \/ f = Video(g)
         \/ f = Mux(g) /\ job[g].source = Video(g) /\ job[g].audio = "end"
    BY <1>0, <1>1 DEF Good, InTurn, Encoder, Contents
<1>3. f \in File /\ content[issued] \in Seq(Render \X (1 .. MaxFrames))
      /\ Frames(f) = content[issued]
    <2>1. issued \in Handle /\ content[issued] \in Seq(Render \X (1 .. MaxFrames))
        BY <1>2 DEF Good, TypeOK, Handle
    <2>2. \A k \in Handle : owner[k] = cur <=> k = issued
        BY <1>1, <1>2 DEF Good, Encoder
    <2> DEFINE video == IF f[1] = "mux" THEN job[f[2]].source ELSE f
    <2>3. video = Video(g)
        BY <1>2 DEF Video, Mux
    <2>4. video[2] = cur
        BY <1>1, <2>3 DEF Video
    <2> HIDE DEF video, f
    <2>5. (CHOOSE k \in Handle : owner[k] = video[2]) = issued
        BY <2>1, <2>2, <2>4
    <2>6. Frames(f) = content[CHOOSE k \in Handle : owner[k] = video[2]]
        BY DEF Frames, video
    <2>7. f \in File
        BY <1>2, FileNames
    <2>8. QED
        BY <2>1, <2>5, <2>6, <2>7
<1> HIDE DEF f
<1>4. TypeOK'
    <2>1. saved' \subseteq [render : Render, file : File,
                           frames : Seq(Render \X (1 .. MaxFrames))]
        BY <1>0, <1>3 DEF Good, TypeOK
    <2>2. disk' \subseteq File /\ vidphase' \in Phase /\ ffhandle' \in Handle \cup {Null}
        BY <1>0 DEF Good, TypeOK, Phase
    <2>3. QED
        BY <1>0, <1>j, <2>1, <2>2 DEF Good, TypeOK
<1>5. Ordered'
    BY <1>0, <1>1, <1>j DEF Good, Ordered, Quiet, Render
<1>6. Encoder' /\ InTurn'
    BY <1>0, <1>1, <1>2, <1>j DEF Good, Encoder, InTurn
<1>7. Contents'
    <2>1. Lost'
        BY <1>0, <1>1, <1>2, <1>j DEF Lost, NoCall, Good, TypeOK
    <2>2. QED
        BY <1>0, <1>1, <1>j, <2>1 DEF Contents
<1>8. Saves'
    <2> SUFFICES ASSUME NEW s \in saved'
                 PROVE  /\ job'[s.render].export = "done"
                        /\ s.frames = AllFrames(s.render)'
        BY DEF Saves
    <2>1. CASE s \in saved
        <3>1. s.render \in Render /\ job[s.render].export = "done"
              /\ s.frames = AllFrames(s.render)
            BY <2>1 DEF Good, TypeOK, Saves
        <3>2. job'[s.render] = job[s.render]
            BY <1>0, <1>j, <3>1
        <3>3. QED
            BY <3>1, <3>2 DEF AllFrames
    <2>2. CASE s = entry
        <3>1. s.render = g /\ s.frames = AllFrames(g)
            BY <1>1, <1>2, <1>3, <2>2
        <3>2. job'[g].sent = job[g].sent /\ job'[g].export = "done"
            BY <1>j
        <3>3. QED
            BY <3>1, <3>2 DEF AllFrames
    <2>3. QED
        BY <1>0, <2>1, <2>2
<1>9. Pressure' /\ Hooks'
    BY <1>0, <1>1, <1>2, <1>j DEF Good, Pressure, Hooks
<1>10. Calm'
    BY <1>0, <1>1, <1>2, <1>j DEF Good, Calm, Undisturbed
<1>11. Files'
    <2> SUFFICES ASSUME Tidy, NEW k \in Render
                 PROVE  Video(k) \notin disk' /\ Held(k, job'[k], disk')
        BY <1>0 DEF Files, Held, Tidy, Undisturbed
    <2>1. /\ Video(k) \in disk => k = cur
          /\ Held(k, job[k], disk)
        BY DEF Good, Files
    <2>2. Video(g) \notin disk' /\ f \notin disk' /\ disk' \subseteq disk
        BY <1>0, <1>2 DEF Tidy
    <2>3. CASE k # g
        BY <1>1, <1>j, <2>1, <2>2, <2>3 DEF Held
    <2>4. CASE k = g
        BY <1>j, <2>1, <2>2, <2>4 DEF f, Held
    <2>5. QED
        BY <2>3, <2>4
<1>12. QED
    BY <1>4, <1>5, <1>6, <1>7, <1>8, <1>9, <1>10, <1>11 DEF Good

-----------------------------------------------------------------------------
(* The render loop: one more frame painted, queued for the encoder, and after
   the last the export begins. *)
LEMMA TickFrameInv ==
    ASSUME Good, Apart, TickFrame
    PROVE  Good'
<1> USE BoundsAssumption
<1> USE DEF runs, host
<1>g. PICK g \in Render : g = cur
    <2>1. cur # 0
        BY DEF TickFrame, Good, Ordered
    <2>2. QED
        BY <2>1, OneOrCalm
<1>k. PICK n : n = job[g].sent + 1
    OBVIOUS
<1>0. /\ vidphase = "render" /\ ~fferr /\ ffhandle # Null
      /\ offpaused => pendingwrites <= Low
      /\ n <= scenario.frames
      /\ pendingwrites' = pendingwrites + 1
      /\ offpaused' = (pendingwrites + 1 > High)
      /\ UNCHANGED <<inlevel, countdown, ffhandle, offtmp, fferr, runs, host,
                     kills, disk, saved, stopped>>
    BY <1>g, <1>k DEF TickFrame, MayPaint
<1>1. g \in Render /\ g = cur /\ cur # 0 /\ ~countdown
    BY <1>0, <1>g DEF Good, Ordered
<1>2. /\ job[g].start = "ok" /\ job[g].export = "no" /\ job[g].audio = "no"
      /\ ffhandle = issued /\ issued # 0
      /\ pendingwrites = Len(job[g].queue)
      /\ job[g] \in Chains
    BY <1>0, <1>1 DEF Good, InTurn, Encoder, Pressure, TypeOK
<1>n. job[g].sent \in Nat /\ n \in 1 .. MaxFrames /\ job[g].queue \in Seq(1 .. MaxFrames)
    BY <1>0, <1>2, <1>k, ScenarioIs DEF Chains, Good
<1>p. PICK queue : queue = Append(job[g].queue, n)
    OBVIOUS
<1>q. /\ queue \in Seq(1 .. MaxFrames)
      /\ Len(job[g].queue) \in Nat /\ Len(queue) = Len(job[g].queue) + 1
      /\ queue[Len(job[g].queue) + 1] = n
      /\ \A i \in 1 .. Len(job[g].queue) : queue[i] = job[g].queue[i]
    BY <1>n, <1>p, AppendOf
<1>e. queue # <<>>
    BY <1>q
<1>l. PICK last \in BOOLEAN :
        /\ job' = [job EXCEPT ![cur].sent = job[cur].sent + 1,
                              ![cur].queue = Append(@, job[cur].sent + 1),
                              ![cur].export = IF last THEN "drain" ELSE @]
        /\ IF last
           THEN vidphase' = "export" /\ vidblock' = TRUE /\ hooked' = FALSE
           ELSE UNCHANGED <<vidphase, vidblock, hooked>>
    BY DEF TickFrame, FinishOffline
<1>x. PICK export : export = IF last THEN "drain" ELSE "no"
    OBVIOUS
<1>3. /\ export = "drain" => vidphase' = "export" /\ vidblock' = TRUE /\ hooked' = FALSE
      /\ export # "drain" => export = "no" /\ UNCHANGED <<vidphase, vidblock, hooked>>
      /\ export \in {"no", "drain"}
    BY <1>l, <1>x
<1>j. /\ job' \in [Render -> Chains]
      /\ \A k \in Render : k # g => job'[k] = job[k]
      /\ job'[g].export = export /\ job'[g].sent = n /\ job'[g].queue = queue
      /\ job'[g].start = job[g].start /\ job'[g].flight = job[g].flight
      /\ job'[g].closing = job[g].closing /\ job'[g].audio = job[g].audio
      /\ job'[g].source = job[g].source /\ job'[g].final = job[g].final
    <2> DEFINE c == [job[g] EXCEPT !.sent = n, !.queue = queue, !.export = export]
    <2>1. job[g] \in Chains /\ TypeOK /\ job \in [Render -> Chains]
        BY DEF Good, TypeOK
    <2>2. /\ c \in Chains
          /\ c.export = export /\ c.sent = n /\ c.queue = queue
          /\ c.start = job[g].start /\ c.flight = job[g].flight
          /\ c.closing = job[g].closing /\ c.audio = job[g].audio
          /\ c.source = job[g].source /\ c.final = job[g].final
        <3>1. n \in 0 .. MaxFrames /\ queue \in Seq(1 .. MaxFrames) /\ export \in {"no", "drain"}
            BY <1>3, <1>n, <1>q
        <3>2. QED
            BY <2>1, <3>1 DEF Chains
    <2>3. job' = [job EXCEPT ![g] = c]
        BY <1>g, <1>k, <1>l, <1>p, <1>x, <1>2, <2>1
    <2> HIDE DEF c
    <2>4. QED
        BY <2>1, <2>2, <2>3, JobStep
<1>4. TypeOK'
    <2>1. pendingwrites' \in Int /\ offpaused' \in BOOLEAN
        BY <1>0 DEF Good, TypeOK
    <2>2. vidphase' \in Phase /\ vidblock' \in BOOLEAN /\ hooked' \in BOOLEAN
        BY <1>3 DEF Good, TypeOK, Phase
    <2>3. QED
        BY <1>0, <1>j, <2>1, <2>2 DEF Good, TypeOK
<1>5. Ordered'
    BY <1>0, <1>1, <1>j DEF Good, Ordered, Quiet, Render
<1>6. Encoder' /\ InTurn'
    <2>1. Encoder'
        BY <1>0, <1>1, <1>2, <1>j DEF Good, Encoder
    <2>2. InTurn'
        BY <1>0, <1>1, <1>2, <1>3, <1>e, <1>j DEF Good, InTurn
    <2>3. QED
        BY <2>1, <2>2
<1>7. Contents'
    <2>1. CASE Whole
        <3> DEFINE done == Len(content[issued])
        <3>1. /\ done + Len(job[g].queue) = job[g].sent
              /\ \A i \in 1 .. done : content[issued][i] = <<cur, i>>
              /\ \A i \in 1 .. Len(job[g].queue) : job[g].queue[i] = done + i
            BY <1>1, <2>1 DEF Whole
        <3>2. done \in Nat
            BY <1>2 DEF Good, TypeOK, Handle
        <3>3. done + (Len(job[g].queue) + 1) = n /\ done + Len(queue) = n
            <4> DEFINE a == Len(job[g].queue)
                       b == job[g].sent
                       l == Len(queue)
            <4>1. l = a + 1 /\ done + a = b /\ n = b + 1 /\ a \in Nat /\ b \in Nat
                BY <1>n, <1>k, <1>q, <3>1
            <4> HIDE DEF done, a, b, l
            <4>2. done + (a + 1) = n /\ done + l = n
                BY ONLY <3>2, <4>1
            <4>3. QED
                BY <4>2 DEF a, l
        <3>4. \A i \in 1 .. Len(queue) : queue[i] = done + i
            <4> HIDE DEF done
            <4> SUFFICES ASSUME NEW i \in 1 .. Len(queue) PROVE queue[i] = done + i
                OBVIOUS
            <4>1. CASE i \in 1 .. Len(job[g].queue)
                BY <1>q, <3>1, <4>1
            <4>2. CASE i = Len(job[g].queue) + 1
                BY <1>q, <3>2, <3>3, <4>2
            <4>3. QED
                BY <1>q, <4>1, <4>2
        <3>5. /\ cur' = cur /\ content' = content /\ issued' = issued
              /\ job'[cur].queue = queue /\ job'[cur].sent = n
            BY <1>0, <1>1, <1>j
        <3>6. Whole'
            BY ONLY <3>1, <3>3, <3>4, <3>5 DEF Whole
        <3>7. QED
            BY <1>0, <1>1, <1>2, <1>3, <1>j, <3>6 DEF Contents
    <2>2. CASE Lost
        <3>1. Lost'
            BY <1>0, <1>2, <2>2 DEF Lost
        <3>2. QED
            BY <1>0, <1>1, <1>2, <1>3, <1>j, <3>1 DEF Contents
    <2>3. QED
        BY <1>1, <1>2, <2>1, <2>2 DEF Good, Contents
<1>8. Saves'
    <2> SUFFICES ASSUME NEW s \in saved
                 PROVE  /\ job'[s.render].export = "done"
                        /\ s.frames = AllFrames(s.render)'
        BY <1>0 DEF Saves
    <2>1. s.render \in Render /\ job[s.render].export = "done"
          /\ s.frames = AllFrames(s.render)
        BY DEF Good, TypeOK, Saves
    <2>2. job'[s.render] = job[s.render]
        BY <1>2, <1>j, <2>1
    <2>3. QED
        BY <2>1, <2>2 DEF AllFrames
<1>9. Pressure'
    <2>1. pendingwrites \in 0 .. High + 1 /\ (pendingwrites > High => offpaused)
        BY DEF Good, Pressure
    <2>2. pendingwrites <= High
        BY <1>0, <2>1, PressureAssumption
    <2>3. /\ pendingwrites' \in 0 .. High + 1
          /\ pendingwrites' > High => offpaused'
        <3>1. /\ pendingwrites' \in 0 .. High + 1
              /\ pendingwrites' > High <=> pendingwrites + 1 > High
            BY <1>0, <2>1, <2>2, PressureAssumption
        <3>2. QED
            BY <1>0, <3>1, Zenon
    <2>4. cur' = cur /\ pendingwrites' = Len(job'[cur].queue)
        BY <1>0, <1>1, <1>2, <1>j, <1>q
    <2>5. QED
        BY <2>3, <2>4 DEF Pressure
<1>10. Hooks'
    <2>1. CASE export = "drain"
        BY <1>3, <2>1 DEF Hooks
    <2>2. CASE export # "drain"
        BY <1>3, <2>2 DEF Good, Hooks
    <2>3. QED
        BY <2>1, <2>2
<1>11. Calm'
    BY <1>0, <1>1, <1>2, <1>3, <1>j DEF Good, Calm, Undisturbed
<1>12. Files'
    BY <1>0, <1>1, <1>2, <1>3, <1>j DEF Good, Files, Held, Tidy, Undisturbed
<1>13. QED
    BY <1>4, <1>5, <1>6, <1>7, <1>8, <1>9, <1>10, <1>11, <1>12 DEF Good

-----------------------------------------------------------------------------
LEMMA StutterInv ==
    ASSUME Good, UNCHANGED vars
    PROVE  Good'
<1> USE DEF vars, ui, rec, runs, host
<1>1. TypeOK' /\ Ordered'
    BY DEF Good, TypeOK, Ordered, Quiet
<1>2. Encoder' /\ InTurn' /\ Saves'
    BY DEF Good, Encoder, InTurn, Saves, AllFrames
<1>3. Contents'
    BY DEF Good, Contents, Whole, Lost, AllFrames
<1>4. Pressure' /\ Hooks' /\ Calm' /\ Files'
    BY DEF Good, Pressure, Hooks, Calm, Files, Held, Tidy, Undisturbed
<1>5. QED
    BY <1>1, <1>2, <1>3, <1>4 DEF Good

(* A behaviour stays in its scenario. *)
LEMMA ScenarioStays ==
    ASSUME [Next]_vars
    PROVE  scenario' = scenario
<1>1. CASE User
    BY <1>1 DEF User, RequestVideo, CancelCountdown, AbortKey, LeaveLevel, EnterLevel, runs
<1>2. CASE Loop
    BY <1>2 DEF Loop, StartOffline, TickError, TickFrame, ExportedShown, runs
<1>3. CASE \E g \in Render : Callback(g)
    BY <1>3 DEF Callback, TempPath, FfmpegStart, StartFails, WriteCall, WriteDone,
                FinishCall, FinishDone, MuxTimeout, BuildAudio, MuxDone, SaveDone, runs
<1>4. CASE \E h \in Handle : KillJob(h) \/ EncoderFails(h)
    BY <1>4 DEF KillJob, EncoderFails, runs
<1>5. CASE UNCHANGED vars
    BY <1>5 DEF vars, runs
<1>6. QED
    BY <1>1, <1>2, <1>3, <1>4, <1>5 DEF Next

LEMMA InvNext == IInv /\ [Next]_vars => IInv'
<1> SUFFICES ASSUME IInv, [Next]_vars, Apart'
             PROVE  Good'
    BY DEF IInv
<1>1. Apart /\ Good
    <2>1. scenario' = scenario
        BY ScenarioStays
    <2>2. QED
        BY <2>1 DEF IInv, Apart, Undisturbed
<1>2. CASE User
    BY <1>1, <1>2, RequestInv, CancelInv, AbortKeyInv, LeaveInv, EnterInv DEF User
<1>3. CASE Loop
    BY <1>1, <1>3, StartInv, TickErrorInv, TickFrameInv, ShownInv DEF Loop
<1>4. CASE \E g \in Render : Callback(g)
    BY <1>1, <1>4, TempInv, FfmpegStartInv, StartFailsInv, WriteCallInv, WriteDoneInv,
       FinishCallInv, FinishDoneInv, MuxTimeoutInv, BuildAudioInv, MuxDoneInv, SaveDoneInv
       DEF Callback
<1>5. CASE \E h \in Handle : KillJob(h) \/ EncoderFails(h)
    BY <1>1, <1>5, HostInv
<1>6. CASE UNCHANGED vars
    BY <1>1, <1>6, StutterInv
<1>7. QED
    BY <1>2, <1>3, <1>4, <1>5, <1>6 DEF Next

(* The inductive invariant holds throughout. *)
THEOREM Invariant == Spec => []IInv
<1>1. Init => IInv
    BY InvInit
<1>2. IInv /\ [Next]_vars => IInv'
    BY InvNext
<1>3. QED
    BY <1>1, <1>2, PTL DEF Spec

(* A saved file holds every frame its render painted, in order and no other, for
   any number of renders and frames and any marks of the pause
   (readbackandwrite and savemp4). *)
THEOREM SavedWholeAlways == Spec => []SavedWhole
<1>1. IInv => SavedWhole
    BY DEF IInv, Good, Saves, AllFrames, SavedWhole
<1>2. QED
    BY <1>1, Invariant, PTL

(* Input and sound are taken from the user exactly as long as an export needs
   them, whatever ends it (finishoffline, abortoffline, endplayback). *)
THEOREM WithheldAlways == Spec => []Withheld
<1>1. IInv => Withheld
    BY DEF IInv, Good, Apart, Calm, Hooks, Withheld
<1>2. QED
    BY <1>1, Invariant, PTL

(* The render loop has at most one frame above the mark in memory, and
   t.pendingwrites counts them, for any marks (offlinetick). *)
THEOREM BackpressureAlways == Spec => []Backpressure
<1>1. IInv => Backpressure
    BY DEF IInv, Good, Pressure, Backpressure
<1>2. QED
    BY <1>1, Invariant, PTL

(* When nothing interrupts, an overlay ready for another video has left nothing
   behind: no encoder, no callback, and no file but those whose name the code has let
   go of, if the host removes what it is told to (finishoffline, muxav, savemp4). *)
THEOREM NothingLeftAlways == Spec => []NothingLeft
<1>1. IInv => NothingLeft
    <2> SUFFICES ASSUME Good, Apart, Undisturbed, vidphase = "none"
                 PROVE  NothingRunsOn /\ ("remove" \in scenario.faults \/ OnlyUnusedLeft)
        BY DEF IInv, Apart, NothingLeft
    <2>1. /\ live = {} /\ ffhandle = Null /\ kills = {}
          /\ cur # 0 => Quiet(cur) /\ (job[cur].start = "ok" => job[cur].export = "done")
        BY CalmRest DEF Good, Calm
    <2>2. \A g \in Render : Quiet(g)
        BY <2>1 DEF Good, Ordered, Render
    <2>3. NothingRunsOn
        BY <2>1, <2>2 DEF NothingRunsOn, Quiet
    <2>4. ASSUME "remove" \notin scenario.faults
          PROVE  OnlyUnusedLeft
        <3> SUFFICES ASSUME NEW f \in disk
                     PROVE  /\ f[1] # "video"
                            /\ f[1] = "mux" => job[f[2]].final # f
                            /\ f[1] = "wav" =>
                                 job[f[2]].audio = "mux" \/ job[f[2]].source = NoFile
            BY DEF OnlyUnusedLeft
        <3>t. Tidy
            BY <2>4 DEF Tidy
        <3>1. PICK g \in Render : f \in {Video(g), Wav(g), Mux(g)} /\ f[2] = g
            BY DEF Good, TypeOK, File, Video, Wav, Mux
        <3>2. CASE f = Video(g)
            <4>1. g = cur /\ job[g].start = "ok" /\ job[g].export # "done"
                BY <3>2, <3>t DEF Good, Files
            <4>2. QED
                BY <2>1, <4>1 DEF Render
        <3>3. CASE f = Wav(g)
            BY <3>1, <3>3, <3>t DEF Good, Files, Held, Wav
        <3>4. CASE f = Mux(g)
            <4>1. job[g].final # Mux(g)
                BY <2>2, <3>4, <3>t DEF Good, Files, Held, Quiet
            <4>2. QED
                BY <3>1, <3>4, <4>1 DEF Mux
        <3>5. QED
            BY <3>1, <3>2, <3>3, <3>4
    <2>5. QED
        BY <2>3, <2>4
<1>2. QED
    BY <1>1, Invariant, PTL

-------------------------------------------------------------------------------
(* What holds in every scenario, interruptions of overlapping renders included: the
   types, and that the file offered to the user is chosen once *)

(* The files t.offtmp may name. *)
VideoFile == {Video(g) : g \in Render} \cup {NoFile}

(* A job of the host encodes the file of this render. *)
Encodes(g) == \E h \in Handle : owner[h] = g

(* The chains of one render: writes while there is something to write, audio after
   the end of the encoder, a file to save once the audio has ended or is late. *)
Course(g, c) ==
    /\ c.flight # NoCall => c.queue # <<>>
    /\ c.export \in {"no", "drain", "finishing"} => c.audio = "no"
    /\ c.final # NoFile => c.export \in {"saving", "done"}
    /\ c.final \in VideoFile \cup {Mux(g)}
    /\ c.source \in VideoFile

(* The renders whose encoder was started: each has a handle of its own. *)
Spawned == {g \in Render : job[g].start = "ok"}

(* Renders are begun one after the other, from the countdown. *)
Begun ==
    /\ countdown => cur < scenario.renders
    /\ cur = 0 => vidphase = "none" /\ ~vidblock
    /\ vidphase = "render" => job[cur].export = "no"
    /\ \A g \in Render :
         g > cur => job[g].start = "no" /\ job[g].queue = <<>> /\ job[g].export = "no"

(* The video a mix was made from has an encoder. *)
Encoded(f) == f \in File /\ Encodes(f[2])

(* A video on disk was made by an encoder, and so was the input of a mix that is to
   be saved. *)
Made ==
    /\ \A h \in Handle : h > issued => owner[h] = Null
    /\ \A g \in Render : Video(g) \in disk => Encodes(g)
    /\ \A g \in Render : job[g].final = Mux(g) =>
         job[g].audio = "end" /\ Encoded(job[g].source)

(* The inductive invariant of all scenarios. *)
EInv ==
    /\ TypeOK
    /\ offtmp \in VideoFile
    /\ \A g \in Render : Course(g, job[g])
    /\ Begun
    /\ Made
    /\ issued = Cardinality(Spawned)

(* A file chosen stays the one. *)
Chosen == \A g \in Render : job[g].final # NoFile => job'[g].final = job[g].final

-----------------------------------------------------------------------------
LEMMA RenderIsFinite == IsFiniteSet(Render) /\ Cardinality(Render) = MaxRenders
BY BoundsAssumption, FS_Interval DEF Render

(* A render without an encoder leaves a handle for it. *)
LEMMA HandleLeft ==
    ASSUME EInv, NEW g \in Render, job[g].start # "ok"
    PROVE  issued + 1 \in Handle /\ Cardinality(Spawned \cup {g}) = issued + 1
<1>1. IsFiniteSet(Spawned) /\ IsFiniteSet(Spawned \cup {g})
      /\ Cardinality(Spawned \cup {g}) = Cardinality(Spawned) + 1
    <2>1. IsFiniteSet(Spawned)
        BY RenderIsFinite, FS_Subset DEF Spawned
    <2>2. g \notin Spawned
        BY DEF Spawned
    <2>3. QED
        BY <2>1, <2>2, FS_AddElement
<1>2. Spawned \cup {g} \in SUBSET Render
    BY DEF Spawned
<1>3. Cardinality(Spawned \cup {g}) <= MaxRenders
    BY <1>2, RenderIsFinite, FS_Subset
<1>4. QED
    BY <1>1, <1>3, BoundsAssumption DEF EInv, TypeOK, Handle

LEMMA EveryInit == Init => EInv
<1> SUFFICES ASSUME Init PROVE EInv
    OBVIOUS
<1>1. TypeOK
    BY TypeInit
<1>2. \A g \in Render : job[g] = NotStarted
    BY DEF Init
<1>3. offtmp \in VideoFile /\ \A g \in Render : Course(g, job[g])
    BY <1>2 DEF Init, VideoFile, Course, NotStarted
<1>4. Begun /\ Made
    BY <1>2, FileNames DEF Init, Begun, Made, NotStarted
<1>5. issued = Cardinality(Spawned)
    <2>1. Spawned = {}
        BY <1>2 DEF Spawned, NotStarted
    <2>2. QED
        BY <2>1, FS_EmptySet DEF Init
<1>6. QED
    BY <1>1, <1>3, <1>4, <1>5 DEF EInv

-----------------------------------------------------------------------------
(* A step that leaves the chains and the files alone. *)
LEMMA RestStep ==
    ASSUME EInv,
           UNCHANGED <<scenario, cur, job, offtmp, issued, owner, content, disk, saved>>,
           inlevel' \in BOOLEAN, countdown' \in BOOLEAN, vidphase' \in Phase,
           vidblock' \in BOOLEAN, hooked' \in BOOLEAN, ffhandle' \in Handle \cup {Null},
           fferr' \in BOOLEAN, offpaused' \in BOOLEAN, pendingwrites' \in Int,
           live' \subseteq live, dead' \subseteq Handle, kills' \subseteq Handle,
           stopped' \subseteq Render,
           countdown' => countdown \/ cur < scenario.renders,
           vidphase' \in {vidphase, "none"}, vidblock' \in {vidblock, FALSE}
    PROVE  EInv' /\ Chosen
<1>1. TypeOK'
    BY DEF EInv, TypeOK
<1>2. offtmp' \in VideoFile /\ (\A g \in Render : Course(g, job[g]))'
    BY DEF EInv
<1>3. Begun'
    BY DEF EInv, Begun
<1>4. Made'
    BY DEF EInv, Made, Encodes, Encoded
<1>5. (issued = Cardinality(Spawned))'
    <2>1. Spawned' = Spawned
        BY DEF Spawned
    <2>2. QED
        BY <2>1 DEF EInv
<1>6. Chosen
    BY DEF Chosen
<1>7. QED
    BY <1>1, <1>2, <1>3, <1>4, <1>5, <1>6 DEF EInv

(* A step of the chains of one render, its start apart. *)
LEMMA CourseStep ==
    ASSUME EInv, NEW g \in Render, NEW c \in Chains, job' = [job EXCEPT ![g] = c],
           Course(g, c), c.start = "ok" <=> job[g].start = "ok",
           job[g].final # NoFile => c.final = job[g].final,
           ~(g > cur),
           vidphase' = "render" => vidphase = "render" /\ (g = cur => c.export = "no"),
           job[g].audio = "end" => c.audio = "end" /\ c.source = job[g].source,
           c.final = Mux(g) => c.audio = "end" /\ Encoded(c.source),
           disk' \subseteq disk \cup {Wav(g), Mux(g)},
           UNCHANGED <<scenario, cur, inlevel, countdown, issued, owner, dead, kills, stopped>>,
           live' \subseteq live,
           offtmp' \in VideoFile, ffhandle' \in Handle \cup {Null}, vidphase' \in Phase,
           vidblock' \in BOOLEAN, hooked' \in BOOLEAN, fferr' \in BOOLEAN,
           offpaused' \in BOOLEAN, pendingwrites' \in Int,
           content' \in [Handle -> Seq(Render \X (1 .. MaxFrames))],
           saved' \subseteq [render : Render, file : File,
                             frames : Seq(Render \X (1 .. MaxFrames))]
    PROVE  EInv' /\ Chosen
<1>j. /\ job' \in [Render -> Chains] /\ job'[g] = c
      /\ \A k \in Render : k # g => job'[k] = job[k]
    BY JobStep DEF EInv
<1>1. TypeOK'
    <2>1. disk' \subseteq File
        BY FileNames DEF EInv, TypeOK
    <2>2. offtmp' \in File \cup {NoFile}
        BY FileNames DEF VideoFile
    <2>3. QED
        BY <1>j, <2>1, <2>2 DEF EInv, TypeOK
<1>2. \A k \in Render : Course(k, job[k])'
    <2> SUFFICES ASSUME NEW k \in Render PROVE Course(k, job[k])'
        OBVIOUS
    <2>1. CASE k = g
        BY <1>j, <2>1 DEF Course, VideoFile
    <2>2. CASE k # g
        BY <1>j, <2>2 DEF EInv, Course, VideoFile
    <2>3. QED
        BY <2>1, <2>2
<1>3. Begun'
    <2>1. cur # 0 /\ cur \in Render
        BY BoundsAssumption DEF EInv, TypeOK, Render
    <2>2. QED
        BY <1>j, <2>1 DEF EInv, Begun
<1>4. Made'
    <2>1. \A k : Encodes(k)' <=> Encodes(k)
        BY DEF Encodes
    <2>e. \A f : Encoded(f)' <=> Encoded(f)
        BY <2>1 DEF Encoded
    <2>2. \A k \in Render : Video(k) \in disk' => Encodes(k)
        BY FileNames DEF EInv, Made
    <2>3. \A k \in Render : job'[k].final = Mux(k) =>
              job'[k].audio = "end" /\ Encoded(job'[k].source)
        BY <1>j DEF EInv, Made
    <2>4. QED
        BY <2>1, <2>2, <2>3, <2>e DEF EInv, Made
<1>5. (issued = Cardinality(Spawned))'
    <2>1. Spawned' = Spawned
        BY <1>j DEF Spawned
    <2>2. QED
        BY <2>1 DEF EInv
<1>6. Chosen
    BY <1>j DEF Chosen
<1>7. QED
    BY <1>1, <1>2, <1>3, <1>4, <1>5, <1>6 DEF EInv, VideoFile

-----------------------------------------------------------------------------
LEMMA UserRest ==
    ASSUME EInv,
           \/ RequestVideo \/ CancelCountdown \/ AbortKey \/ LeaveLevel \/ EnterLevel
           \/ TickError \/ ExportedShown
    PROVE  EInv' /\ Chosen
<1>1. AbortOffline =>
        /\ vidphase' = "none" /\ vidblock' = FALSE /\ hooked' \in BOOLEAN
        /\ ffhandle' \in Handle \cup {Null} /\ kills' \subseteq Handle
    BY DEF AbortOffline, EInv, TypeOK
<1>2. /\ UNCHANGED <<scenario, cur, job, offtmp, issued, owner, content, disk, saved>>
      /\ UNCHANGED <<fferr, offpaused, pendingwrites, live, dead>>
      /\ inlevel' \in BOOLEAN /\ countdown' \in BOOLEAN
      /\ countdown' => countdown \/ cur < scenario.renders
    <2>1. /\ UNCHANGED <<scenario, cur, job, offtmp, issued, owner, content, disk, saved>>
          /\ UNCHANGED <<fferr, offpaused, pendingwrites, live, dead>>
        BY DEF RequestVideo, CancelCountdown, AbortKey, LeaveLevel, EnterLevel, TickError,
               ExportedShown, rec, runs, host
    <2>2. /\ inlevel' = inlevel \/ inlevel' = TRUE \/ inlevel' = FALSE
          /\ countdown' = countdown \/ countdown' = FALSE
                \/ (countdown' = TRUE /\ cur < scenario.renders)
        BY DEF RequestVideo, CancelCountdown, AbortKey, LeaveLevel, EnterLevel, TickError,
               ExportedShown
    <2>3. inlevel \in BOOLEAN /\ countdown \in BOOLEAN
        BY DEF EInv, TypeOK
    <2>4. inlevel' \in BOOLEAN
        BY <2>2, <2>3
    <2>5. countdown' \in BOOLEAN
        BY <2>2, <2>3
    <2>6. countdown' => countdown \/ cur < scenario.renders
        BY <2>2, Zenon
    <2>7. QED
        BY <2>1, <2>4, <2>5, <2>6
<1>3. /\ vidphase' \in {vidphase, "none"} /\ vidblock' \in {vidblock, FALSE}
      /\ hooked' \in BOOLEAN /\ ffhandle' \in Handle \cup {Null} /\ kills' \subseteq Handle
    <2>1. CASE AbortOffline
        BY <1>1, <2>1
    <2>2. CASE /\ UNCHANGED <<kills, ffhandle, hooked>>
               /\ \/ vidphase' = "none" /\ vidblock' = FALSE
                  \/ UNCHANGED <<vidphase, vidblock>>
        BY <2>2 DEF EInv, TypeOK
    <2>3. QED
        BY <2>1, <2>2 DEF RequestVideo, CancelCountdown, AbortKey, LeaveLevel, EnterLevel,
                          TickError, ExportedShown, rec
<1>4. stopped' \subseteq Render
    <2>1. CASE AbortKey
        <3>1. cur \in Render
            BY <2>1, BoundsAssumption DEF AbortKey, EInv, Begun, TypeOK, Render
        <3>2. QED
            BY <2>1, <3>1 DEF AbortKey, EInv, TypeOK
    <2>2. CASE ~AbortKey
        BY <2>2 DEF RequestVideo, CancelCountdown, LeaveLevel, EnterLevel, TickError,
                    ExportedShown, EInv, TypeOK
    <2>3. QED
        BY <2>1, <2>2
<1>5. vidphase' \in Phase /\ vidblock' \in BOOLEAN
    BY <1>3 DEF EInv, TypeOK, Phase
<1>6. /\ fferr' \in BOOLEAN /\ offpaused' \in BOOLEAN /\ pendingwrites' \in Int
      /\ live' \subseteq live /\ dead' \subseteq Handle
    BY <1>2 DEF EInv, TypeOK
<1>7. QED
    BY <1>2, <1>3, <1>4, <1>5, <1>6, RestStep

LEMMA HostRest ==
    ASSUME EInv, NEW h \in Handle, KillJob(h) \/ EncoderFails(h)
    PROVE  EInv' /\ Chosen
<1>1. /\ UNCHANGED <<ui, rec, runs, job, issued, owner, content, disk, saved, stopped>>
      /\ live' \subseteq live /\ dead' \subseteq Handle /\ kills' \subseteq Handle
    BY DEF KillJob, EncoderFails, Table!TRemove, EInv, TypeOK
<1>2. UNCHANGED <<scenario, cur, job, offtmp, issued, owner, content, disk, saved>>
    BY <1>1 DEF rec, runs
<1>3. /\ inlevel' \in BOOLEAN /\ countdown' \in BOOLEAN /\ vidphase' \in Phase
      /\ vidblock' \in BOOLEAN /\ hooked' \in BOOLEAN /\ ffhandle' \in Handle \cup {Null}
      /\ fferr' \in BOOLEAN /\ offpaused' \in BOOLEAN /\ pendingwrites' \in Int
      /\ stopped' \subseteq Render
      /\ countdown' => countdown \/ cur < scenario.renders
      /\ vidphase' \in {vidphase, "none"} /\ vidblock' \in {vidblock, FALSE}
    BY <1>1 DEF EInv, TypeOK, ui, rec
<1>4. QED
    BY <1>1, <1>2, <1>3, RestStep

(* Only renders that were started have chains. *)
LEMMA AtWork ==
    ASSUME EInv, NEW g \in Render,
           \/ job[g].start # "no" \/ job[g].queue # <<>> \/ job[g].flight # NoCall
           \/ job[g].export # "no" \/ job[g].audio # "no"
    PROVE  ~(g > cur)
BY DEF EInv, Begun, Course

(* A render that keeps its audio, and saves no mix it did not save before. *)
LEMMA MixIs ==
    ASSUME EInv, NEW g \in Render, NEW c, disk' = disk,
           c.audio = job[g].audio, c.source = job[g].source,
           c.final = job[g].final \/ c.final \in VideoFile
    PROVE  /\ c.final = Mux(g) => c.audio = "end" /\ Encoded(c.source)
           /\ job[g].audio = "end" => c.audio = "end" /\ c.source = job[g].source
           /\ disk' \subseteq disk \cup {Wav(g), Mux(g)}
<1>1. \A path \in VideoFile : path # Mux(g)
    BY FileNames DEF VideoFile
<1>2. QED
    BY <1>1 DEF EInv, Made

(* What a step leaves alone keeps its type. *)
LEMMA Typed ==
    ASSUME EInv
    PROVE  /\ UNCHANGED ui => /\ vidphase' \in Phase /\ vidblock' \in BOOLEAN
                              /\ hooked' \in BOOLEAN
                              /\ UNCHANGED <<inlevel, countdown, vidphase>>
           /\ UNCHANGED rec => /\ ffhandle' \in Handle \cup {Null} /\ offtmp' \in VideoFile
                               /\ fferr' \in BOOLEAN /\ offpaused' \in BOOLEAN
                               /\ pendingwrites' \in Int
           /\ UNCHANGED host =>
                /\ UNCHANGED <<issued, owner, dead>> /\ live' \subseteq live
                /\ content' \in [Handle -> Seq(Render \X (1 .. MaxFrames))]
           /\ UNCHANGED saved =>
                saved' \subseteq [render : Render, file : File,
                                  frames : Seq(Render \X (1 .. MaxFrames))]
           /\ UNCHANGED runs => UNCHANGED <<scenario, cur>>
BY DEF EInv, TypeOK, ui, rec, host, runs, VideoFile

LEMMA TempStep ==
    ASSUME EInv, NEW g \in Render, TempPath(g)
    PROVE  EInv' /\ Chosen
<1> DEFINE c == [job[g] EXCEPT !.start = "spawn"]
<1>1. job[g] \in Chains /\ Course(g, job[g])
    BY DEF EInv, TypeOK
<1>2. /\ c \in Chains /\ Course(g, c) /\ c.start = "spawn" /\ c.export = job[g].export
      /\ c.audio = job[g].audio /\ c.source = job[g].source /\ c.final = job[g].final
    BY <1>1 DEF Chains, Course
<1>3. /\ job[g].start = "temp" /\ offtmp' \in VideoFile /\ job' = [job EXCEPT ![g] = c]
      /\ UNCHANGED <<ui, runs, host, kills, disk, saved, stopped>>
      /\ UNCHANGED <<ffhandle, fferr, offpaused, pendingwrites>>
    BY DEF TempPath, VideoFile
<1>4. /\ ffhandle' \in Handle \cup {Null} /\ fferr' \in BOOLEAN /\ offpaused' \in BOOLEAN
      /\ pendingwrites' \in Int
      /\ vidphase' = "render" => vidphase = "render" /\ (g = cur => job[g].export = "no")
    BY <1>3 DEF EInv, TypeOK, Begun, ui
<1> HIDE DEF c
<1>5. QED
    BY <1>2, <1>3, <1>4, Typed, AtWork, MixIs, CourseStep

LEMMA StartFailsStep ==
    ASSUME EInv, NEW g \in Render, StartFails(g)
    PROVE  EInv' /\ Chosen
<1> DEFINE c == [job[g] EXCEPT !.start = "failed"]
<1>1. job[g] \in Chains /\ Course(g, job[g])
    BY DEF EInv, TypeOK
<1>2. /\ c \in Chains /\ Course(g, c) /\ c.start = "failed" /\ c.export = job[g].export
      /\ c.audio = job[g].audio /\ c.source = job[g].source /\ c.final = job[g].final
    BY <1>1 DEF Chains, Course
<1>3. /\ job[g].start \in {"temp", "spawn"} /\ fferr' = TRUE
      /\ job' = [job EXCEPT ![g] = c]
      /\ UNCHANGED <<ui, runs, host, kills, disk, saved, stopped>>
      /\ UNCHANGED <<ffhandle, offtmp, offpaused, pendingwrites>>
    BY DEF StartFails
<1>4. /\ ffhandle' \in Handle \cup {Null} /\ fferr' \in BOOLEAN /\ offpaused' \in BOOLEAN
      /\ pendingwrites' \in Int /\ offtmp' \in VideoFile
      /\ vidphase' = "render" => vidphase = "render" /\ (g = cur => job[g].export = "no")
    BY <1>3 DEF EInv, TypeOK, Begun, ui
<1> HIDE DEF c
<1>5. QED
    BY <1>2, <1>3, <1>4, Typed, AtWork, MixIs, CourseStep

LEMMA WriteCallStep ==
    ASSUME EInv, NEW g \in Render, WriteCall(g)
    PROVE  EInv' /\ Chosen
<1> DEFINE c == [job[g] EXCEPT !.flight = ffhandle]
<1>1. job[g] \in Chains /\ Course(g, job[g]) /\ ffhandle \in Handle \cup {Null, NoCall}
    BY DEF EInv, TypeOK
<1>2. /\ job[g].queue # <<>> /\ job' = [job EXCEPT ![g] = c]
      /\ UNCHANGED <<ui, rec, runs, host, kills, disk, saved, stopped>>
    BY DEF WriteCall
<1>3. /\ c \in Chains /\ Course(g, c) /\ c.start = job[g].start /\ c.export = job[g].export
      /\ c.audio = job[g].audio /\ c.source = job[g].source /\ c.final = job[g].final
    BY <1>1, <1>2 DEF Chains, Course
<1>4. vidphase' = "render" => vidphase = "render" /\ (g = cur => job[g].export = "no")
    BY <1>2 DEF EInv, Begun, ui
<1> HIDE DEF c
<1>5. QED
    BY <1>2, <1>3, <1>4, Typed, AtWork, MixIs, CourseStep

LEMMA WriteDoneStep ==
    ASSUME EInv, NEW g \in Render, WriteDone(g)
    PROVE  EInv' /\ Chosen
<1> DEFINE c == [job[g] EXCEPT !.queue = Tail(@), !.flight = NoCall]
           h == job[g].flight
           frame == <<g, Head(job[g].queue)>>
<1>1. job[g] \in Chains /\ Course(g, job[g])
    BY DEF EInv, TypeOK
<1>2. /\ h # NoCall /\ job' = [job EXCEPT ![g] = c]
      /\ pendingwrites' = pendingwrites - 1
      /\ IF h \in live \ dead
         THEN content' = [content EXCEPT ![h] = Append(@, frame)] /\ UNCHANGED fferr
         ELSE fferr' = TRUE /\ UNCHANGED content
      /\ UNCHANGED <<ui, runs, kills, disk, saved, stopped>>
      /\ UNCHANGED <<ffhandle, offtmp, offpaused, issued, live, owner, dead>>
    BY DEF WriteDone
<1>3. /\ Tail(job[g].queue) \in Seq(1 .. MaxFrames)
      /\ frame \in Render \X (1 .. MaxFrames)
    <2>1. job[g].queue \in Seq(1 .. MaxFrames) /\ job[g].queue # <<>>
        BY <1>1, <1>2 DEF Chains, Course
    <2>2. QED
        BY <2>1, TailOf
<1>4. /\ c \in Chains /\ Course(g, c) /\ c.start = job[g].start /\ c.export = job[g].export
      /\ c.audio = job[g].audio /\ c.source = job[g].source /\ c.final = job[g].final
    BY <1>1, <1>3 DEF Chains, Course
<1>5. content' \in [Handle -> Seq(Render \X (1 .. MaxFrames))] /\ fferr' \in BOOLEAN
    <2>1. content \in [Handle -> Seq(Render \X (1 .. MaxFrames))] /\ fferr \in BOOLEAN
        BY DEF EInv, TypeOK
    <2>2. CASE h \in live \ dead
        <3>1. h \in Handle
            <4>1. live \subseteq 1 .. issued /\ issued \in 0 .. MaxRenders
                BY DEF EInv, TypeOK
            <4> HIDE DEF h
            <4>2. QED
                BY <2>2, <4>1, BoundsAssumption DEF Handle
        <3> HIDE DEF h, frame
        <3>2. Append(content[h], frame) \in Seq(Render \X (1 .. MaxFrames))
            BY <1>3, <2>1, <3>1, AppendOf
        <3>3. content' = [content EXCEPT ![h] = Append(content[h], frame)] /\ fferr' = fferr
            BY <1>2, <2>2
        <3>4. QED
            BY <2>1, <3>2, <3>3
    <2>3. CASE h \notin live \ dead
        BY <1>2, <2>1, <2>3
    <2>4. QED
        BY <2>2, <2>3
<1>6. /\ ffhandle' \in Handle \cup {Null} /\ offpaused' \in BOOLEAN
      /\ pendingwrites' \in Int /\ offtmp' \in VideoFile
      /\ vidphase' = "render" => vidphase = "render" /\ (g = cur => job[g].export = "no")
    BY <1>2 DEF EInv, TypeOK, Begun, ui
<1>7. UNCHANGED <<issued, owner, dead>> /\ live' \subseteq live
    BY <1>2
<1> HIDE DEF c, h, frame
<1>8. job[g].flight # NoCall
    BY <1>2 DEF h
<1>9. QED
    BY <1>2, <1>4, <1>5, <1>6, <1>7, <1>8, Typed, AtWork, MixIs, CourseStep

LEMMA FinishCallStep ==
    ASSUME EInv, NEW g \in Render, FinishCall(g)
    PROVE  EInv' /\ Chosen
<1> DEFINE c == [job[g] EXCEPT !.export = "finishing", !.closing = ffhandle]
<1>1. job[g] \in Chains /\ Course(g, job[g]) /\ ffhandle \in Handle \cup {Null}
    BY DEF EInv, TypeOK
<1>2. /\ job[g].export = "drain" /\ job' = [job EXCEPT ![g] = c]
      /\ UNCHANGED <<ui, rec, runs, host, kills, disk, saved, stopped>>
    BY DEF FinishCall
<1>3. /\ c \in Chains /\ Course(g, c) /\ c.start = job[g].start
      /\ c.audio = job[g].audio /\ c.source = job[g].source /\ c.final = job[g].final
    BY <1>1, <1>2 DEF Chains, Course
<1>4. vidphase' = "render" => vidphase = "render" /\ g # cur
    BY <1>2 DEF EInv, Begun, ui
<1> HIDE DEF c
<1>5. QED
    BY <1>2, <1>3, <1>4, Typed, AtWork, MixIs, CourseStep

LEMMA FinishDoneStep ==
    ASSUME EInv, NEW g \in Render, FinishDone(g)
    PROVE  EInv' /\ Chosen
<1>1. job[g] \in Chains /\ Course(g, job[g])
    BY DEF EInv, TypeOK
<1>2. /\ job[g].export = "finishing" /\ ffhandle' = Null
      /\ UNCHANGED <<runs, kills, disk, saved, stopped>>
      /\ UNCHANGED <<inlevel, countdown, vidblock, hooked, offtmp, fferr, offpaused,
                     pendingwrites, owner, content, dead>>
    BY DEF FinishDone
<1>3. PICK c \in Chains :
        /\ job' = [job EXCEPT ![g] = c]
        /\ Course(g, c) /\ c.start = job[g].start /\ c.final = job[g].final
    <2> DEFINE a == [job[g] EXCEPT !.export = "muxing", !.audio = "build"]
               b == [job[g] EXCEPT !.export = "done"]
    <2>1. /\ a \in Chains /\ Course(g, a) /\ a.start = job[g].start /\ a.final = job[g].final
        BY <1>1, <1>2 DEF Chains, Course
    <2>2. /\ b \in Chains /\ Course(g, b) /\ b.start = job[g].start /\ b.final = job[g].final
        BY <1>1, <1>2 DEF Chains, Course
    <2>3. job' = [job EXCEPT ![g] = a] \/ job' = [job EXCEPT ![g] = b]
        BY DEF FinishDone
    <2> HIDE DEF a, b
    <2>4. QED
        BY <2>1, <2>2, <2>3
<1>4. UNCHANGED issued /\ live' \subseteq live
    BY DEF FinishDone, Table!TRemove
<1>5. /\ vidphase' \in Phase /\ (vidphase' = "render" => vidphase = "render" /\ g # cur)
    BY <1>2 DEF FinishDone, EInv, TypeOK, Begun, Phase
<1>6. /\ ffhandle' \in Handle \cup {Null} /\ fferr' \in BOOLEAN /\ offpaused' \in BOOLEAN
      /\ pendingwrites' \in Int /\ offtmp' \in VideoFile
      /\ vidblock' \in BOOLEAN /\ hooked' \in BOOLEAN
      /\ content' \in [Handle -> Seq(Render \X (1 .. MaxFrames))]
    BY <1>2 DEF EInv, TypeOK
<1>7. job[g].audio = "no" /\ job[g].final # Mux(g)
    BY <1>1, <1>2 DEF EInv, Course, Made
<1>8. disk' \subseteq disk \cup {Wav(g), Mux(g)} /\ UNCHANGED <<scenario, cur>>
    BY <1>2 DEF runs
<1>9. QED
    BY <1>2, <1>3, <1>4, <1>5, <1>6, <1>7, <1>8, Typed, AtWork, CourseStep

LEMMA MuxTimeoutStep ==
    ASSUME EInv, NEW g \in Render, MuxTimeout(g)
    PROVE  EInv' /\ Chosen
<1> DEFINE c == [job[g] EXCEPT !.export = "saving", !.final = offtmp]
<1>1. /\ job[g] \in Chains /\ Course(g, job[g]) /\ job \in [Render -> Chains]
      /\ offtmp \in File \cup {NoFile} /\ offtmp \in VideoFile
    BY DEF EInv, TypeOK
<1>2. /\ job[g].export = "muxing" /\ job' = [job EXCEPT ![g] = c]
      /\ UNCHANGED <<ui, rec, runs, host, kills, disk, saved, stopped>>
    BY <1>1, DeliverIs DEF MuxTimeout
<1>3. /\ c \in Chains /\ Course(g, c) /\ c.start = job[g].start
      /\ c.audio = job[g].audio /\ c.source = job[g].source /\ c.final \in VideoFile
    <2>1. /\ c \in Chains /\ c.start = job[g].start /\ c.queue = job[g].queue
          /\ c.flight = job[g].flight /\ c.audio = job[g].audio
          /\ c.source = job[g].source /\ c.export = "saving" /\ c.final = offtmp
        BY <1>1 DEF Chains
    <2> HIDE DEF c
    <2>2. QED
        BY <1>1, <2>1 DEF Course
<1>4. job[g].final = NoFile
    BY <1>1, <1>2 DEF Course
<1>5. vidphase' = "render" => vidphase = "render" /\ g # cur
    BY <1>2 DEF EInv, Begun, ui
<1> HIDE DEF c
<1>6. QED
    BY <1>2, <1>3, <1>4, <1>5, Typed, AtWork, MixIs, CourseStep

(* The end of the audio as a step: what it delivers is a file of a render. *)
LEMMA AudioEndStep ==
    ASSUME EInv, NEW g \in Render, NEW path \in VideoFile \cup {Mux(g)},
           job[g].audio \in {"build", "mux"},
           job' = Deliver([job EXCEPT ![g].audio = "end"], g, path),
           disk' \subseteq disk \cup {Wav(g), Mux(g)},
           path = Mux(g) => Encoded(job[g].source),
           UNCHANGED <<ui, rec, runs, host, kills, saved, stopped>>
    PROVE  EInv' /\ Chosen
<1>1. TypeOK /\ Course(g, job[g]) /\ path \in File \cup {NoFile}
    BY FileNames DEF EInv, VideoFile
<1>2. PICK c \in Chains :
         /\ job' = [job EXCEPT ![g] = c]
         /\ c.start = job[g].start /\ c.sent = job[g].sent /\ c.queue = job[g].queue
         /\ c.flight = job[g].flight /\ c.closing = job[g].closing
         /\ c.audio = "end" /\ c.source = job[g].source
         /\ IF job[g].export = "muxing"
            THEN c.export = "saving" /\ c.final = path
            ELSE c.export = job[g].export /\ c.final = job[g].final
    BY <1>1, AudioEnds
<1>3. job[g].export \notin {"no", "drain", "finishing"}
    BY <1>1 DEF Course
<1>4. Course(g, c) /\ (job[g].final # NoFile => c.final = job[g].final)
    BY <1>1, <1>2, <1>3 DEF Course
<1>5. vidphase' = "render" => vidphase = "render" /\ g # cur
    BY <1>3 DEF EInv, Begun, ui
<1>6. ~(g > cur)
    BY AtWork
<1>7. c.final = Mux(g) => Encoded(c.source)
    BY <1>2 DEF EInv, Made
<1>8. QED
    BY <1>2, <1>4, <1>5, <1>6, <1>7, Typed, CourseStep

LEMMA BuildAudioStep ==
    ASSUME EInv, NEW g \in Render, BuildAudio(g)
    PROVE  EInv' /\ Chosen
<1> DEFINE c == [job[g] EXCEPT !.audio = "mux", !.source = offtmp]
<1>1. /\ job[g] \in Chains /\ Course(g, job[g])
      /\ offtmp \in File \cup {NoFile} /\ offtmp \in VideoFile
    BY DEF EInv, TypeOK
<1>2. job[g].audio = "build" /\ UNCHANGED <<ui, rec, runs, host, kills, saved, stopped>>
    BY DEF BuildAudio
<1>3. job[g].final # Mux(g) /\ offtmp # Mux(g)
    BY <1>1, <1>2, FileNames DEF EInv, Made, VideoFile
<1>4. CASE disk' = disk \cup {Wav(g)} /\ job' = [job EXCEPT ![g] = c]
    <2>1. job[g].export \notin {"no", "drain", "finishing"}
        BY <1>1, <1>2 DEF Course
    <2>2. /\ c \in Chains /\ Course(g, c) /\ c.start = job[g].start
          /\ c.final = job[g].final
        <3>1. /\ c \in Chains /\ c.start = job[g].start /\ c.queue = job[g].queue
              /\ c.flight = job[g].flight /\ c.audio = "mux" /\ c.source = offtmp
              /\ c.export = job[g].export /\ c.final = job[g].final
            BY <1>1 DEF Chains
        <3> HIDE DEF c
        <3>2. QED
            BY <1>1, <2>1, <3>1 DEF Course
    <2>3. vidphase' = "render" => vidphase = "render" /\ g # cur
        BY <1>2, <2>1 DEF EInv, Begun, ui
    <2>4. c.final # Mux(g) /\ disk' \subseteq disk \cup {Wav(g), Mux(g)}
        BY <1>3, <1>4, <2>2
    <2> HIDE DEF c
    <2>5. QED
        BY <1>2, <1>4, <2>2, <2>3, <2>4, Typed, AtWork, CourseStep
<1>5. CASE /\ job' = Deliver([job EXCEPT ![g].audio = "end"], g, offtmp)
           /\ disk' \in {disk, disk \cup {Wav(g)}}
    BY <1>1, <1>2, <1>3, <1>5, AudioEndStep
<1>6. QED
    BY <1>4, <1>5 DEF BuildAudio

LEMMA MuxDoneStep ==
    ASSUME EInv, NEW g \in Render, MuxDone(g)
    PROVE  EInv' /\ Chosen
<1> DEFINE src == job[g].source
<1>1. job[g].audio = "mux" /\ UNCHANGED <<ui, rec, runs, host, kills, saved, stopped>>
    BY DEF MuxDone
<1>2. offtmp \in VideoFile /\ offtmp # Mux(g)
    BY FileNames DEF EInv, VideoFile
<1>s. PICK gone \in Removals({Wav(g)}), left \in SUBSET {Mux(g)} :
        \/ /\ src \in disk
           /\ disk' = (disk \ gone) \cup {Mux(g)}
           /\ job' = Deliver([job EXCEPT ![g].audio = "end"], g, Mux(g))
        \/ /\ disk' = (disk \ gone) \cup left
           /\ job' = Deliver([job EXCEPT ![g].audio = "end"], g, offtmp)
    BY DEF MuxDone
<1>3. CASE /\ src \in disk
           /\ disk' = (disk \ gone) \cup {Mux(g)}
           /\ job' = Deliver([job EXCEPT ![g].audio = "end"], g, Mux(g))
    <2>1. PICK k \in Render : src = Video(k)
        <3>1. src \in VideoFile
            BY DEF EInv, Course
        <3>2. src # NoFile
            <4>1. NoFile \notin File
                BY DEF NoFile, File
            <4>2. disk \subseteq File
                BY DEF EInv, TypeOK
            <4>3. QED
                BY <1>3, <4>1, <4>2
        <3> HIDE DEF src
        <3>3. QED
            BY <3>1, <3>2 DEF VideoFile
    <2>2. Encoded(src)
        BY <1>3, <2>1, FileNames DEF EInv, Made, Encoded, Video
    <2>3. QED
        BY <1>1, <1>3, <2>2, AudioEndStep
<1>4. CASE /\ disk' = (disk \ gone) \cup left
           /\ job' = Deliver([job EXCEPT ![g].audio = "end"], g, offtmp)
    BY <1>1, <1>2, <1>4, AudioEndStep
<1>5. QED
    BY <1>s, <1>3, <1>4

LEMMA SaveDoneStep ==
    ASSUME EInv, NEW g \in Render, SaveDone(g)
    PROVE  EInv' /\ Chosen
<1> DEFINE c == [job[g] EXCEPT !.export = "done"]
           f == job[g].final
           entry == [render |-> g, file |-> f, frames |-> Frames(f)]
<1>1. job[g] \in Chains /\ Course(g, job[g])
    BY DEF EInv, TypeOK
<1>2. /\ job[g].export = "saving"
      /\ (f \in disk /\ saved' = saved \cup {entry}) \/ saved' = saved
      /\ disk' \subseteq disk
      /\ vidphase' = "exported" /\ ffhandle' = Null
      /\ job' = [job EXCEPT ![g] = c]
      /\ UNCHANGED <<runs, host, kills, stopped>>
      /\ UNCHANGED <<inlevel, countdown, vidblock, hooked, offtmp, fferr, offpaused,
                     pendingwrites>>
    BY DEF SaveDone, Removals
<1>3. /\ c \in Chains /\ Course(g, c) /\ c.start = job[g].start
      /\ c.audio = job[g].audio /\ c.source = job[g].source /\ c.final = job[g].final
    BY <1>1, <1>2 DEF Chains, Course
<1>4. f \in disk => f \in File /\ Frames(f) \in Seq(Render \X (1 .. MaxFrames))
    <2> SUFFICES ASSUME f \in disk
                 PROVE  f \in File /\ Frames(f) \in Seq(Render \X (1 .. MaxFrames))
        OBVIOUS
    <2> DEFINE video == IF f[1] = "mux" THEN job[f[2]].source ELSE f
    <2>1. f \in File
        BY DEF EInv, TypeOK
    <2>2. Encodes(video[2])
        <3>1. CASE f = Mux(g)
            <4>1. video = job[g].source
                BY <3>1 DEF Mux
            <4>2. Encoded(job[g].source)
                BY <3>1 DEF EInv, Made
            <4> HIDE DEF video
            <4>3. QED
                BY <4>1, <4>2 DEF Encoded
        <3>2. CASE f # Mux(g)
            <4>1. PICK k \in Render : f = Video(k)
                BY <1>1, <2>1, <3>2 DEF Course, VideoFile, File, NoFile
            <4>2. video[2] = k
                BY <4>1 DEF Video
            <4>3. Encodes(k)
                BY <4>1 DEF EInv, Made
            <4> HIDE DEF video
            <4>4. QED
                BY <4>2, <4>3
        <3>3. QED
            BY <3>1, <3>2
    <2> HIDE DEF video, f
    <2>3. (CHOOSE k \in Handle : owner[k] = video[2]) \in Handle
        BY <2>2 DEF Encodes
    <2>4. Frames(f) = content[CHOOSE k \in Handle : owner[k] = video[2]]
        BY DEF Frames, video
    <2>5. QED
        BY <2>1, <2>3, <2>4 DEF EInv, TypeOK
<1>5. saved' \subseteq [render : Render, file : File,
                       frames : Seq(Render \X (1 .. MaxFrames))]
    <2>1. saved \subseteq [render : Render, file : File,
                          frames : Seq(Render \X (1 .. MaxFrames))]
        BY DEF EInv, TypeOK
    <2> HIDE DEF f
    <2>2. QED
        BY <1>2, <1>4, <2>1
<1>6. /\ ffhandle' \in Handle \cup {Null} /\ fferr' \in BOOLEAN /\ offpaused' \in BOOLEAN
      /\ pendingwrites' \in Int /\ offtmp' \in VideoFile
      /\ vidblock' \in BOOLEAN /\ hooked' \in BOOLEAN
      /\ vidphase' \in Phase /\ vidphase' # "render"
    BY <1>2 DEF EInv, TypeOK, Phase
<1>7. /\ c.final = Mux(g) => c.audio = "end" /\ Encoded(c.source)
      /\ disk' \subseteq disk \cup {Wav(g), Mux(g)}
    BY <1>2, <1>3 DEF EInv, Made
<1> HIDE DEF c, f, entry
<1>8. QED
    BY <1>2, <1>3, <1>5, <1>6, <1>7, Typed, AtWork, CourseStep

LEMMA TickFrameStep ==
    ASSUME EInv, TickFrame
    PROVE  EInv' /\ Chosen
<1> USE BoundsAssumption
<1>g. PICK g \in Render : g = cur
    BY DEF TickFrame, EInv, Begun, TypeOK, Render
<1>1. job[g] \in Chains /\ Course(g, job[g]) /\ job[g].export = "no"
    BY <1>g DEF TickFrame, EInv, TypeOK, Begun
<1>k. PICK n : n = job[g].sent + 1
    OBVIOUS
<1>2. /\ vidphase = "render" /\ n <= scenario.frames
      /\ pendingwrites' = pendingwrites + 1
      /\ offpaused' = (pendingwrites + 1 > High)
      /\ UNCHANGED <<runs, host, kills, disk, saved, stopped>>
      /\ UNCHANGED <<inlevel, countdown, ffhandle, offtmp, fferr>>
    BY <1>g, <1>k DEF TickFrame
<1>n. n \in 0 .. MaxFrames /\ n \in 1 .. MaxFrames
    BY <1>1, <1>2, <1>k, ScenarioIs DEF Chains, EInv
<1>p. PICK queue : queue = Append(job[g].queue, n)
    OBVIOUS
<1>q. queue \in Seq(1 .. MaxFrames) /\ queue # <<>>
    <2>1. job[g].queue \in Seq(1 .. MaxFrames)
        BY <1>1 DEF Chains
    <2>2. queue \in Seq(1 .. MaxFrames) /\ Len(queue) = Len(job[g].queue) + 1
          /\ Len(job[g].queue) \in Nat
        BY <1>n, <1>p, <2>1, AppendOf
    <2>3. QED
        BY <2>2
<1>l. PICK last \in BOOLEAN :
        /\ job' = [job EXCEPT ![cur].sent = job[cur].sent + 1,
                              ![cur].queue = Append(@, job[cur].sent + 1),
                              ![cur].export = IF last THEN "drain" ELSE @]
        /\ IF last
           THEN vidphase' = "export" /\ vidblock' = TRUE /\ hooked' = FALSE
           ELSE UNCHANGED <<vidphase, vidblock, hooked>>
    BY DEF TickFrame, FinishOffline
<1>x. PICK export : export = IF last THEN "drain" ELSE "no"
    OBVIOUS
<1>3. /\ export \in {"no", "drain"}
      /\ vidphase' = "render" => export = "no"
    BY <1>l, <1>x
<1> DEFINE c == [job[g] EXCEPT !.sent = n, !.queue = queue, !.export = export]
<1>4. /\ c \in Chains /\ Course(g, c) /\ c.start = job[g].start /\ c.export = export
      /\ c.audio = job[g].audio /\ c.source = job[g].source /\ c.final = job[g].final
    BY <1>1, <1>3, <1>n, <1>q DEF Chains, Course
<1>5. job' = [job EXCEPT ![g] = c]
    BY <1>g, <1>k, <1>l, <1>p, <1>x, <1>1 DEF EInv, TypeOK
<1>6. /\ ffhandle' \in Handle \cup {Null} /\ fferr' \in BOOLEAN
      /\ pendingwrites' \in Int /\ offtmp' \in VideoFile
    BY <1>2 DEF EInv, TypeOK
<1>7. offpaused' \in BOOLEAN
    BY <1>2
<1>8. vidphase' \in Phase /\ vidblock' \in BOOLEAN /\ hooked' \in BOOLEAN
    BY <1>l DEF EInv, TypeOK, Phase
<1>9. ~(g > cur)
    BY <1>g DEF EInv, TypeOK
<1> HIDE DEF c
<1>10. QED
    BY <1>2, <1>3, <1>4, <1>5, <1>6, <1>7, <1>8, <1>9, Typed, MixIs, CourseStep

-----------------------------------------------------------------------------
(* A render begins. *)
LEMMA StartStep ==
    ASSUME EInv, StartOffline
    PROVE  EInv' /\ Chosen
<1> USE BoundsAssumption
<1>n. PICK n : n = cur + 1
    OBVIOUS
<1>0. /\ countdown /\ countdown' = FALSE /\ cur' = n
      /\ offtmp' = NoFile /\ ffhandle' = Null /\ fferr' = FALSE /\ offpaused' = FALSE
      /\ pendingwrites' = 0
      /\ vidphase' = "render" /\ vidblock' = TRUE /\ hooked' = TRUE
      /\ UNCHANGED <<scenario, inlevel, issued, live, owner, content, dead,
                     kills, disk, saved, stopped>>
    BY <1>n DEF StartOffline, host
<1>1. n \in Render /\ n > cur /\ cur \in Nat /\ n # 0 /\ cur' \in 0 .. MaxRenders
    BY <1>0, <1>n, ScenarioIs DEF EInv, TypeOK, Begun, Render
<1> DEFINE c == [job[n] EXCEPT !.start = "temp"]
<1>2. /\ job[n] \in Chains /\ Course(n, job[n])
      /\ job[n].start = "no" /\ job[n].export = "no"
    BY <1>1 DEF EInv, TypeOK, Begun
<1>3. /\ c \in Chains /\ Course(n, c) /\ c.start = "temp" /\ c.export = "no"
      /\ c.audio = job[n].audio /\ c.source = job[n].source /\ c.final = job[n].final
    BY <1>2 DEF Chains, Course
<1>4. job' = [job EXCEPT ![n] = c]
    BY <1>n, <1>1 DEF StartOffline, EInv, TypeOK
<1> HIDE DEF c
<1>j. /\ job' \in [Render -> Chains] /\ job'[n] = c
      /\ \A k \in Render : k # n => job'[k] = job[k]
    BY <1>1, <1>3, <1>4, JobStep DEF EInv
<1>5. TypeOK'
    <2>1. offtmp' \in File \cup {NoFile} /\ ffhandle' \in Handle \cup {Null}
          /\ pendingwrites' \in Int /\ vidphase' \in Phase
        BY <1>0 DEF Phase
    <2>2. countdown' \in BOOLEAN /\ vidblock' \in BOOLEAN /\ hooked' \in BOOLEAN
          /\ fferr' \in BOOLEAN /\ offpaused' \in BOOLEAN
        BY <1>0
    <2>3. QED
        BY <1>0, <1>1, <1>j, <2>1, <2>2 DEF EInv, TypeOK
<1>6. offtmp' \in VideoFile /\ VideoFile' = VideoFile
    BY <1>0 DEF VideoFile
<1>7. \A k \in Render : Course(k, job[k])'
    <2> SUFFICES ASSUME NEW k \in Render PROVE Course(k, job[k])'
        OBVIOUS
    <2>1. CASE k = n
        BY <1>3, <1>j, <2>1 DEF Course, VideoFile
    <2>2. CASE k # n
        BY <1>j, <2>2 DEF EInv, Course, VideoFile
    <2>3. QED
        BY <2>1, <2>2
<1>8. Begun'
    <2>1. \A k \in Render : k > n => k > cur /\ k # n
        BY <1>1 DEF Render
    <2>2. QED
        BY <1>0, <1>1, <1>3, <1>j, <2>1 DEF EInv, Begun
<1>9. Made'
    <2>1. \A k : Encodes(k)' <=> Encodes(k)
        BY <1>0 DEF Encodes
    <2>2. \A f : Encoded(f)' <=> Encoded(f)
        BY <2>1 DEF Encoded
    <2>3. \A k \in Render : job'[k].audio = job[k].audio /\ job'[k].source = job[k].source
                          /\ job'[k].final = job[k].final
        BY <1>3, <1>j
    <2>4. QED
        BY <1>0, <2>1, <2>2, <2>3 DEF EInv, Made
<1>10. (issued = Cardinality(Spawned))'
    <2>1. Spawned' = Spawned
        BY <1>2, <1>3, <1>j DEF Spawned
    <2>2. QED
        BY <1>0, <2>1 DEF EInv
<1>11. Chosen
    BY <1>3, <1>j DEF Chosen
<1>12. QED
    BY <1>5, <1>6, <1>7, <1>8, <1>9, <1>10, <1>11 DEF EInv

(* Its encoder is started, under a new handle. *)
LEMMA FfmpegStartStep ==
    ASSUME EInv, NEW g \in Render, FfmpegStart(g)
    PROVE  EInv' /\ Chosen
<1> USE BoundsAssumption
<1>h. PICK h : h = issued + 1
    OBVIOUS
<1> DEFINE c == [job[g] EXCEPT !.start = "ok"]
<1>0. /\ job[g].start = "spawn"
      /\ issued' = h /\ live' = live \cup {h}
      /\ owner' = [owner EXCEPT ![h] = g]
      /\ disk' = disk \cup {Video(g)}
      /\ ffhandle' = h
      /\ job' = [job EXCEPT ![g] = c]
      /\ UNCHANGED <<ui, offtmp, fferr, offpaused, pendingwrites, runs, content,
                     dead, kills, saved, stopped>>
    BY <1>h DEF FfmpegStart, Table!TStart
<1> USE DEF ui, runs
<1>1. /\ h \in Handle /\ Cardinality(Spawned \cup {g}) = h /\ ~(g > cur)
      /\ h \in 0 .. MaxRenders /\ issued \in Nat
    <2>1. h \in Handle /\ Cardinality(Spawned \cup {g}) = h /\ ~(g > cur)
        BY <1>0, <1>h, HandleLeft, AtWork
    <2>2. issued \in Nat
        BY DEF EInv, TypeOK
    <2>3. QED
        BY <2>1, <2>2 DEF Handle
<1>2. job[g] \in Chains /\ Course(g, job[g])
    BY DEF EInv, TypeOK
<1>3. /\ c \in Chains /\ Course(g, c) /\ c.start = "ok" /\ c.export = job[g].export
      /\ c.queue = job[g].queue
      /\ c.audio = job[g].audio /\ c.source = job[g].source /\ c.final = job[g].final
    BY <1>2 DEF Chains, Course
<1> HIDE DEF c
<1>j. /\ job' \in [Render -> Chains] /\ job'[g] = c
      /\ \A k \in Render : k # g => job'[k] = job[k]
    BY <1>0, <1>3, JobStep DEF EInv
<1>o. /\ owner' \in [Handle -> Render \cup {Null}] /\ owner'[h] = g
      /\ \A k \in Handle : k # h => owner'[k] = owner[k]
    BY <1>0, <1>1 DEF EInv, TypeOK
<1>4. TypeOK'
    <2>1. live' \subseteq 1 .. issued' /\ issued' \in 0 .. MaxRenders
        <3>1. live \subseteq 1 .. issued
            BY DEF EInv, TypeOK
        <3>2. h \in 1 .. h /\ 1 .. issued \subseteq 1 .. h
            BY <1>1, <1>h
        <3>3. QED
            BY <1>0, <1>1, <3>1, <3>2
    <2>2. disk' \subseteq File
        BY <1>0, FileNames DEF EInv, TypeOK
    <2>3. QED
        BY <1>0, <1>1, <1>j, <1>o, <2>1, <2>2 DEF EInv, TypeOK
<1>5. offtmp' \in VideoFile /\ VideoFile' = VideoFile
    BY <1>0 DEF EInv, VideoFile
<1>6. \A k \in Render : Course(k, job[k])'
    <2> SUFFICES ASSUME NEW k \in Render PROVE Course(k, job[k])'
        OBVIOUS
    <2>1. CASE k = g
        BY <1>3, <1>j, <2>1 DEF Course, VideoFile
    <2>2. CASE k # g
        BY <1>j, <2>2 DEF EInv, Course, VideoFile
    <2>3. QED
        BY <2>1, <2>2
<1>7. Begun'
    <2>1. cur # 0 /\ cur \in Render
        BY <1>1 DEF EInv, TypeOK, Render
    <2>2. QED
        BY <1>0, <1>1, <1>3, <1>j, <2>1 DEF EInv, Begun
<1>8. Made'
    <2>1. \A k \in Handle : k > h => owner'[k] = Null
        BY <1>h, <1>1, <1>o DEF EInv, Made, Handle
    <2>2. owner[h] = Null
        BY <1>h, <1>1 DEF EInv, Made
    <2>3. \A k \in Render : Encodes(k) => Encodes(k)'
        BY <1>o, <2>2 DEF Encodes, Render, Null
    <2>4. Encodes(g)'
        BY <1>1, <1>o DEF Encodes
    <2>5. \A f : Encoded(f) => Encoded(f)'
        BY <2>3 DEF Encoded, File
    <2>6. \A k \in Render : Video(k) \in disk' => Encodes(k)'
        <3> SUFFICES ASSUME NEW k \in Render, Video(k) \in disk' PROVE Encodes(k)'
            OBVIOUS
        <3>1. k = g \/ Video(k) \in disk
            BY <1>0, FileNames
        <3>2. QED
            BY <2>3, <2>4, <3>1 DEF EInv, Made
    <2>7. \A k \in Render : job'[k].final = Mux(k) =>
              job'[k].audio = "end" /\ Encoded(job[k].source)'
        <3> SUFFICES ASSUME NEW k \in Render, job'[k].final = Mux(k)
                     PROVE  job'[k].audio = "end" /\ Encoded(job[k].source)'
            OBVIOUS
        <3>1. job[k].final = Mux(k)
            BY <1>3, <1>j
        <3>2. job[k].audio = "end" /\ Encoded(job[k].source)
            BY <3>1 DEF EInv, Made
        <3>3. job'[k].audio = job[k].audio /\ job'[k].source = job[k].source
            BY <1>3, <1>j
        <3>f. PICK f : f = job[k].source
            OBVIOUS
        <3>4. f \in File /\ \E x \in Handle : owner'[x] = f[2]
            BY <2>5, <3>2, <3>f DEF Encoded, Encodes
        <3>5. QED
            BY <3>2, <3>3, <3>4, <3>f DEF Encoded, Encodes
    <2>8. QED
        BY <1>0, <2>1, <2>6, <2>7 DEF Made
<1>9. (issued = Cardinality(Spawned))'
    <2>1. Spawned' = Spawned \cup {g}
        BY <1>3, <1>j DEF Spawned
    <2>2. QED
        BY <1>0, <1>1, <2>1
<1>10. Chosen
    BY <1>3, <1>j DEF Chosen
<1>11. QED
    BY <1>4, <1>5, <1>6, <1>7, <1>8, <1>9, <1>10 DEF EInv

-----------------------------------------------------------------------------
LEMMA EveryNext ==
    ASSUME EInv, [Next]_vars
    PROVE  EInv' /\ Chosen
<1>1. CASE User
    BY <1>1, UserRest DEF User
<1>2. CASE Loop
    BY <1>2, StartStep, TickFrameStep, UserRest DEF Loop
<1>3. CASE \E g \in Render : Callback(g)
    BY <1>3, TempStep, FfmpegStartStep, StartFailsStep, WriteCallStep, WriteDoneStep,
       FinishCallStep, FinishDoneStep, MuxTimeoutStep, BuildAudioStep, MuxDoneStep,
       SaveDoneStep DEF Callback
<1>4. CASE \E h \in Handle : KillJob(h) \/ EncoderFails(h)
    BY <1>4, HostRest
<1>5. CASE UNCHANGED vars
    <2>1. UNCHANGED <<ui, rec, runs, host>> /\ UNCHANGED <<job, kills, disk, saved, stopped>>
        BY <1>5 DEF vars
    <2>2. UNCHANGED <<scenario, cur, job, offtmp, issued, owner, content, disk, saved>>
        BY <2>1 DEF rec, runs, host
    <2>3. /\ inlevel' \in BOOLEAN /\ countdown' \in BOOLEAN /\ vidphase' \in Phase
          /\ vidblock' \in BOOLEAN /\ hooked' \in BOOLEAN
          /\ ffhandle' \in Handle \cup {Null}
          /\ fferr' \in BOOLEAN /\ offpaused' \in BOOLEAN /\ pendingwrites' \in Int
          /\ live' \subseteq live /\ dead' \subseteq Handle /\ kills' \subseteq Handle
          /\ stopped' \subseteq Render
          /\ countdown' => countdown \/ cur < scenario.renders
          /\ vidphase' \in {vidphase, "none"} /\ vidblock' \in {vidblock, FALSE}
        BY <2>1 DEF EInv, TypeOK, ui, rec, host
    <2>4. QED
        BY <2>2, <2>3, RestStep
<1>6. QED
    BY <1>1, <1>2, <1>3, <1>4, <1>5 DEF Next

(* The inductive invariant of all scenarios holds throughout. *)
THEOREM EveryInvariant == Spec => []EInv
<1>1. Init => EInv
    BY EveryInit
<1>2. EInv /\ [Next]_vars => EInv'
    BY EveryNext
<1>3. QED
    BY <1>1, <1>2, PTL DEF Spec

(* Every variable of the exporter keeps its type, whatever interrupts it: no
   render starts more than one encoder, and what is saved had one (startoffline,
   ffmpeg_start, savemp4). *)
THEOREM TypeCorrect == Spec => []TypeOK
<1>1. EInv => TypeOK
    BY DEF EInv
<1>2. QED
    BY <1>1, EveryInvariant, PTL

(* Whatever interrupts a render, the file offered to the user is chosen once: the
   answer of the audio and its timeout may come in either order (`done` in
   finishoffline). *)
THEOREM SavedOnceAlways == Spec => SavedOnce
<1>1. EInv /\ [Next]_vars =>
        [\A g \in Render : job[g].final # NoFile => job'[g].final = job[g].final]_vars
    BY EveryNext DEF Chosen
<1>2. QED
    BY <1>1, EveryInvariant, PTL DEF Spec, SavedOnce
=============================================================================
