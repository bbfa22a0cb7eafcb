------------------------------ MODULE SavePersist ------------------------------
(***************************************************************************)
(* The save data of the desktop build: localStorage is mirrored to         *)
(* savedata.json by the script of lib.rs init_script, and loaded from it   *)
(* when the page loads.  The page's setItem is hooked: 400 ms after the    *)
(* last change it sends a snapshot to the host command save_data, which    *)
(* rewrites the file in place.  The text of the script, the file's content *)
(* included, is fixed when the program starts (initialization_script).     *)
(*                                                                         *)
(* A value is the number of the change that wrote it, 0 for a key that is  *)
(* not there; persisting and loading change its layout at most.  The game  *)
(* and the overlay only ever set keys.  save_data is a synchronous         *)
(* command: calls are served one at a time in the order of their arrival.  *)
(***************************************************************************)
EXTENDS Naturals, Sequences

CONSTANTS
    Keys,             \* what is stored: the game's save, the place of the overlay
    MaxChanges,       \* bound on the changes
    MaxStarts,        \* bound on the times the program is started
    Broken            \* a file that is not JSON

ASSUME BrokenAssumption == Broken \notin [Keys -> Nat]
ASSUME MaxAssumption == MaxChanges \in Nat /\ MaxStarts \in Nat

Faults ==
    {"kill",          \* the program ends at any moment
     "fails",         \* the file cannot be opened, or the disk is full
     "lazy",          \* the webview is late in writing localStorage to disk
     "reload"}        \* the user reloads the page

VARIABLES
    faults,           \* what may go wrong, chosen once
    running,          \* the program is running
    loaded,           \* the page has run the init script
    baked,            \* __SAVE__ in the text of the init script
    store,            \* localStorage
    kept,             \* localStorage as the webview has it on disk
    armed,            \* the timer of persist is set
    calls,            \* snapshots sent to save_data and not yet being written
    writing,          \* the one std::fs::write is writing: <<>> or one snapshot
    file,             \* savedata.json
    safe,             \* history: the last snapshot that was written completely
    fresh,            \* history: nothing changed or failed since the page loaded
    changes, starts   \* bounds

vars == <<faults, running, loaded, baked, store, kept, armed, calls, writing, file, safe,
          fresh, changes, starts>>

Snapshot == [Keys -> Nat]
Empty    == [k \in Keys |-> 0]

Flags ==
    /\ running \in BOOLEAN /\ loaded \in BOOLEAN
    /\ armed \in BOOLEAN /\ fresh \in BOOLEAN

TypeOK ==
    /\ Flags
    /\ faults \subseteq Faults
    /\ baked \in Snapshot /\ store \in Snapshot /\ kept \in Snapshot
    /\ calls \in Seq(Snapshot)
    /\ writing \in Seq(Snapshot) /\ Len(writing) <= 1
    /\ file \in Snapshot \cup {Broken}
    /\ safe \in Snapshot
    /\ changes \in 0 .. MaxChanges /\ starts \in 0 .. MaxStarts

(* A file that is not there is loaded like an empty one. *)
Init ==
    /\ faults \in SUBSET Faults
    /\ running = FALSE /\ loaded = FALSE /\ armed = FALSE
    /\ baked = Empty /\ store = Empty /\ kept = Empty
    /\ calls = <<>> /\ writing = <<>>
    /\ file = Empty /\ safe = Empty
    /\ fresh = TRUE /\ changes = 0 /\ starts = 0

(***************************************************************************)
(* A change of localStorage reaches the disk at once, or at some later     *)
(* moment if the webview is lazy.  Later is the same as with the next      *)
(* change, unless the program ends before.                                 *)
(***************************************************************************)
Stored(s) ==
    /\ store' = s
    /\ kept' \in {s} \cup (IF "lazy" \in faults THEN {kept} ELSE {})

(* load_savedata *)
LoadSaveData == IF file = Broken THEN Empty ELSE file

(* run: the init script is built, then the window. *)
Start ==
    /\ ~running /\ starts < MaxStarts
    /\ running' = TRUE /\ loaded' = FALSE
    /\ starts' = starts + 1
    /\ baked' = LoadSaveData
    /\ store' = kept
    /\ UNCHANGED <<faults, kept, armed, calls, writing, file, safe, fresh, changes>>

(* A mistake: the page keeps what it has in localStorage already. *)
MergedTheirsFirst(save, old) == [k \in Keys |-> IF old[k] # 0 THEN old[k] ELSE save[k]]

(* A mistake: the store becomes what the file says. *)
MergedFileOnly(save, old) == save

(* The loop over SAVE sets its keys and leaves the others. *)
Merged(save, old) == [k \in Keys |-> IF save[k] # 0 THEN save[k] ELSE old[k]]

(* The init script, before any script of the game. *)
Load ==
    /\ running /\ ~loaded
    /\ loaded' = TRUE
    /\ Stored(Merged(baked, store))
    /\ fresh' = TRUE
    /\ UNCHANGED <<faults, running, baked, armed, calls, writing, file, safe, changes, starts>>

(* A mistake: the key is set with the function from before the hook. *)
SetItemUnhooked(k) ==
    /\ loaded /\ changes < MaxChanges
    /\ changes' = changes + 1
    /\ Stored([store EXCEPT ![k] = changes + 1])
    /\ fresh' = FALSE
    /\ UNCHANGED <<faults, running, loaded, baked, armed, calls, writing, file, safe, starts>>

(* The hooked setItem: _set, then persist starts its timer again. *)
SetItem(k) ==
    /\ loaded /\ changes < MaxChanges
    /\ changes' = changes + 1
    /\ Stored([store EXCEPT ![k] = changes + 1])
    /\ armed' = TRUE
    /\ fresh' = FALSE
    /\ UNCHANGED <<faults, running, loaded, baked, calls, writing, file, safe, starts>>

(* A mistake: the timer of persist sends only what is new since the start. *)
PersistDifference ==
    /\ loaded /\ armed
    /\ armed' = FALSE
    /\ calls' = Append(calls, [k \in Keys |-> IF store[k] = baked[k] THEN 0 ELSE store[k]])
    /\ UNCHANGED <<faults, running, loaded, baked, store, kept, writing, file, safe, fresh,
                   changes, starts>>

(* The timer of persist fires: snap is sent, nobody waits for the answer. *)
Persist ==
    /\ loaded /\ armed
    /\ armed' = FALSE
    /\ calls' = Append(calls, store)
    /\ UNCHANGED <<faults, running, loaded, baked, store, kept, writing, file, safe, fresh,
                   changes, starts>>

(* A mistake: any call that has arrived may be served. *)
SaveBeginAny ==
    /\ running /\ writing = <<>>
    /\ \E i \in DOMAIN calls :
         /\ writing' = <<calls[i]>>
         /\ calls' = SubSeq(calls, 1, i - 1) \o SubSeq(calls, i + 1, Len(calls))
    /\ file' = Broken
    /\ UNCHANGED <<faults, running, loaded, baked, store, kept, armed, safe, fresh, changes, starts>>

(* save_data: std::fs::write opens the file and empties it ... *)
SaveBegin ==
    /\ running /\ writing = <<>> /\ calls # <<>>
    /\ writing' = <<Head(calls)>>
    /\ calls' = Tail(calls)
    /\ file' = Broken
    /\ UNCHANGED <<faults, running, loaded, baked, store, kept, armed, safe, fresh, changes, starts>>

(* ... and has written all of it. *)
SaveEnd ==
    /\ running /\ writing # <<>>
    /\ file' = writing[1]
    /\ safe' = writing[1]
    /\ writing' = <<>>
    /\ UNCHANGED <<faults, running, loaded, baked, store, kept, armed, calls, fresh, changes, starts>>

(* The file cannot be opened: it stays as it was, the error is dropped. *)
SaveRefused ==
    /\ "fails" \in faults
    /\ running /\ writing = <<>> /\ calls # <<>>
    /\ calls' = Tail(calls)
    /\ fresh' = TRUE
    /\ UNCHANGED <<faults, running, loaded, baked, store, kept, armed, writing, file, safe,
                   changes, starts>>

(* The disk is full: the file stays cut off, the error is dropped. *)
SaveFails ==
    /\ "fails" \in faults
    /\ running /\ writing # <<>>
    /\ writing' = <<>>
    /\ fresh' = TRUE
    /\ UNCHANGED <<faults, running, loaded, baked, store, kept, armed, calls, file, safe,
                   changes, starts>>

(* What the end of the program leaves behind. *)
Ended ==
    /\ running' = FALSE /\ loaded' = FALSE /\ armed' = FALSE
    /\ calls' = <<>> /\ writing' = <<>>
    /\ UNCHANGED <<faults, baked, store, kept, file, safe, fresh, changes, starts>>

(* The window is closed; the thread that closes it is the one that saves. *)
Quit == running /\ writing = <<>> /\ Ended

(* The program is killed, or the power fails. *)
Kill == "kill" \in faults /\ running /\ Ended

(* The user reloads the page: the same script runs again. *)
Reload ==
    /\ "reload" \in faults
    /\ loaded
    /\ loaded' = FALSE /\ armed' = FALSE
    /\ UNCHANGED <<faults, running, baked, store, kept, calls, writing, file, safe, fresh,
                   changes, starts>>

Next ==
    \/ Start \/ Load
    \/ \E k \in Keys : SetItem(k)
    \/ Persist
    \/ SaveBegin \/ SaveEnd \/ SaveRefused \/ SaveFails
    \/ Quit \/ Kill \/ Reload

Spec == Init /\ [][Next]_vars

(* A timer fires and the host serves its calls.  Nothing is assumed of the
   user, who may close the program at any moment. *)
FairSpec ==
    /\ Spec
    /\ WF_vars(Persist)
    /\ WF_vars(SaveBegin)
    /\ WF_vars(SaveEnd)

-----------------------------------------------------------------------------
AtLeast(s, old) == \A k \in Keys : s[k] >= old[k]

(***************************************************************************)
(* One of the two copies is sound: the file is never cut off, or what is   *)
(* in localStorage is on disk at once; and the script is run once for each *)
(* start.  Otherwise a save can be lost, and the code knows no remedy.     *)
(***************************************************************************)
Cuts    == faults \cap {"kill", "fails"} # {}
OneCopy == "reload" \notin faults /\ ~("lazy" \in faults /\ Cuts)

(***************************************************************************)
(* What has once been written completely is never lost: the game always    *)
(* sees, for every key, that value or a newer one, whatever has ended the  *)
(* program since (init_script, load_savedata).                             *)
(***************************************************************************)
SavedSurvives == OneCopy /\ loaded => AtLeast(store, safe)

(* The inductive invariant behind it.  The file is the last complete save, or cut off. *)
FileSound ==
    /\ file \in {safe, Broken}
    /\ file = Broken => writing # <<>> \/ Cuts

(* Before the page is loaded nothing has happened since the start. *)
Starting ==
    /\ ~running => ~loaded
    /\ ~loaded => ~armed /\ calls = <<>> /\ writing = <<>>
    /\ running /\ ~loaded => baked = LoadSaveData /\ store = kept

(* localStorage on disk is not behind. *)
KeptSound ==
    "lazy" \notin faults => /\ loaded => kept = store
                            /\ ~loaded => AtLeast(kept, safe)

(* The last save, the one under way, those to come and the store are in the
   order in which they were taken. *)
InOrder ==
    loaded => /\ AtLeast(store, safe)
              /\ \A i \in DOMAIN writing : /\ AtLeast(writing[i], safe)
                                           /\ AtLeast(store, writing[i])
              /\ \A i \in DOMAIN calls : /\ AtLeast(calls[i], safe)
                                         /\ AtLeast(store, calls[i])
                                         /\ \A j \in DOMAIN writing : AtLeast(calls[i], writing[j])
              /\ \A i, j \in DOMAIN calls : i <= j => AtLeast(calls[j], calls[i])

(* No value is newer than the last change. *)
NotFromTheFuture ==
    \A k \in Keys : /\ store[k] <= changes /\ kept[k] <= changes
                    /\ baked[k] <= changes /\ safe[k] <= changes

Sound == TypeOK /\ FileSound /\ Starting /\ KeptSound /\ InOrder /\ NotFromTheFuture

IInv == TypeOK /\ (OneCopy => Sound)

(***************************************************************************)
(* When nothing is under way the mirror is exact: the file holds what      *)
(* localStorage holds, if anything has changed since the page was loaded   *)
(* (persist, save_data).                                                   *)
(***************************************************************************)
QuietSaved ==
    (loaded /\ ~fresh /\ ~armed /\ calls = <<>> /\ writing = <<>>) => file = store

(* What makes it inductive: the last snapshot on its way is the store. *)
LastIsStore ==
    (loaded /\ ~fresh /\ ~armed) =>
        IF calls # <<>> THEN calls[Len(calls)] = store
        ELSE IF writing # <<>> THEN writing[1] = store
        ELSE file = store

(***************************************************************************)
(* savedata.json never goes back: no save writes an older value of a key   *)
(* than a save before it did, as long as one copy is sound.                *)
(***************************************************************************)
NoOlderSave == [][OneCopy => AtLeast(safe', safe)]_vars

(***************************************************************************)
(* A change reaches the file, unless the page ends first or a write fails  *)
(* (persist, save_data).  This is claimed of a page whose changes pause:   *)
(* MaxChanges is finite.  As long as changes come less than 400 ms apart   *)
(* persist sets its timer anew each time and nothing is saved.             *)
(***************************************************************************)
ChangesAreSaved == (armed /\ "fails" \notin faults) ~> (file = store \/ ~loaded)
=============================================================================
