--------------------------- MODULE SavePersist_proof ---------------------------
(***************************************************************************)
(* Proofs about SavePersist: the types, the exactness of the mirror under  *)
(* every fault, and, as long as one of the two copies is sound, that what  *)
(* was saved survives and that the file never goes back.                   *)
(***************************************************************************)
EXTENDS SavePersist, TLAPS

(***************************************************************************)
(* A snapshot at least as new as one that is at least as new as a third.   *)
(***************************************************************************)
LEMMA AtLeastTransitive ==
    ASSUME NEW a \in Snapshot, NEW b \in Snapshot, NEW c \in Snapshot,
           AtLeast(a, b), AtLeast(b, c)
    PROVE  AtLeast(a, c)
<1> SUFFICES ASSUME NEW k \in Keys PROVE a[k] >= c[k]
    BY DEF AtLeast
<1>1. a[k] \in Nat /\ b[k] \in Nat /\ c[k] \in Nat
      BY DEF Snapshot
<1>2. a[k] >= b[k] /\ b[k] >= c[k]
      BY DEF AtLeast
<1>3. QED
      BY <1>1, <1>2

(* A snapshot is as new as itself. *)
LEMMA AtLeastReflexive ==
    ASSUME NEW a \in Snapshot
    PROVE  AtLeast(a, a)
BY DEF AtLeast, Snapshot

(* What the init script leaves in localStorage is a snapshot. *)
LEMMA MergedType ==
    ASSUME NEW a \in Snapshot, NEW b \in Snapshot
    PROVE  Merged(a, b) \in Snapshot
BY DEF Merged, Snapshot

(* load_savedata answers a snapshot, whatever the file holds. *)
LEMMA LoadType == TypeOK => LoadSaveData \in Snapshot
BY DEF TypeOK, LoadSaveData, Empty, Snapshot

(* The first call and those behind it, as save_data takes the one from the other. *)
LEMMA TakeCall ==
    ASSUME NEW c \in Seq(Snapshot), c # <<>>
    PROVE  /\ Head(c) = c[1] /\ c[1] \in Snapshot
           /\ Tail(c) \in Seq(Snapshot)
           /\ Len(Tail(c)) = Len(c) - 1
           /\ \A i \in 1 .. Len(Tail(c)) : Tail(c)[i] = c[i + 1] /\ i + 1 \in 1 .. Len(c)
           /\ 1 \in 1 .. Len(c)
OBVIOUS

(* The types hold in the first state and are kept by every step. *)
LEMMA InitType == Init => TypeOK
<1>1. Empty \in Snapshot
      BY DEF Empty, Snapshot
<1>2. <<>> \in Seq(Snapshot) /\ Len(<<>>) <= 1
      OBVIOUS
<1>3. Init => Flags
      BY DEF Init, Flags
<1>4. QED
      BY <1>1, <1>2, <1>3, MaxAssumption DEF Init, TypeOK

LEMMA NextFlags == Flags /\ [Next]_vars => Flags'
<1> SUFFICES ASSUME Flags, [Next]_vars PROVE Flags'
    OBVIOUS
<1> USE DEF Flags
<1>1. CASE Start
      BY <1>1 DEF Start
<1>2. CASE Load
      BY <1>2 DEF Load
<1>3. ASSUME NEW k \in Keys, SetItem(k) PROVE Flags'
      BY <1>3 DEF SetItem
<1>4. CASE Persist
      BY <1>4 DEF Persist
<1>5. CASE SaveBegin \/ SaveEnd \/ SaveRefused \/ SaveFails
      BY <1>5 DEF SaveBegin, SaveEnd, SaveRefused, SaveFails
<1>6. CASE Quit \/ Kill
      BY <1>6 DEF Quit, Kill, Ended
<1>7. CASE Reload
      BY <1>7 DEF Reload
<1>8. CASE UNCHANGED vars
      BY <1>8 DEF vars
<1>9. QED
      BY <1>1, <1>2, <1>3, <1>4, <1>5, <1>6, <1>7, <1>8 DEF Next

LEMMA NextType == TypeOK /\ [Next]_vars => TypeOK'
<1> SUFFICES ASSUME TypeOK, [Next]_vars PROVE TypeOK'
    OBVIOUS
<1>0. Flags'
      BY NextFlags DEF TypeOK
<1> USE <1>0 DEF TypeOK
<1>1. CASE Start
      BY <1>1, LoadType, MaxAssumption DEF Start
<1>2. CASE Load
      <2>1. Merged(baked, store) \in Snapshot
            BY MergedType
      <2>2. QED
            BY <1>2, <2>1 DEF Load, Stored
<1>3. ASSUME NEW k \in Keys, SetItem(k) PROVE TypeOK'
      <2>1. [store EXCEPT ![k] = changes + 1] \in Snapshot
            BY DEF Snapshot
      <2>2. changes' \in 0 .. MaxChanges
            BY <1>3, MaxAssumption DEF SetItem
      <2>3. QED
            BY <1>3, <2>1, <2>2 DEF SetItem, Stored
<1>4. CASE Persist
      BY <1>4 DEF Persist
<1>5. CASE SaveBegin
      BY <1>5, TakeCall DEF SaveBegin
<1>6. CASE SaveEnd
      BY <1>6 DEF SaveEnd
<1>7. CASE SaveRefused
      BY <1>7, TakeCall DEF SaveRefused
<1>8. CASE SaveFails
      BY <1>8 DEF SaveFails
<1>9. CASE Quit \/ Kill
      <2>1. <<>> \in Seq(Snapshot) /\ Len(<<>>) <= 1
            OBVIOUS
      <2>2. QED
            BY <1>9, <2>1 DEF Quit, Kill, Ended
<1>10. CASE Reload
      BY <1>10 DEF Reload
<1>11. CASE UNCHANGED vars
      BY <1>11 DEF vars
<1>12. QED
      BY <1>1, <1>2, <1>3, <1>4, <1>5, <1>6, <1>7, <1>8, <1>9, <1>10, <1>11 DEF Next

(***************************************************************************)
(* Every variable keeps its type.                                          *)
(***************************************************************************)
THEOREM TypeCorrect == Spec => []TypeOK
<1>1. QED
      BY InitType, NextType, PTL DEF Spec

-----------------------------------------------------------------------------
(* The last snapshot on its way is the store, whatever fails. *)
LEMMA LastIsStoreStep ==
    ASSUME TypeOK, LastIsStore, [Next]_vars
    PROVE  LastIsStore'
<1> USE DEF LastIsStore
<1>1. CASE Start \/ Load \/ Reload \/ Quit \/ Kill
      BY <1>1 DEF Start, Load, Reload, Quit, Kill, Ended
<1>2. ASSUME NEW k \in Keys, SetItem(k) PROVE LastIsStore'
      BY <1>2 DEF SetItem
<1>3. CASE Persist
      <2>1. calls' # <<>> /\ calls'[Len(calls')] = store
            BY <1>3 DEF Persist, TypeOK
      <2>2. QED
            BY <1>3, <2>1 DEF Persist
<1>4. CASE SaveBegin
      <2>1. CASE Len(calls) = 1
            <3>1. calls' = <<>> /\ writing' # <<>> /\ writing'[1] = calls[Len(calls)]
                  BY <1>4, <2>1, TakeCall DEF SaveBegin, TypeOK
            <3>2. QED
                  BY <1>4, <3>1 DEF SaveBegin
      <2>2. CASE Len(calls) # 1
            <3>1. calls' # <<>> /\ calls'[Len(calls')] = calls[Len(calls)]
                  BY <1>4, <2>2, TakeCall DEF SaveBegin, TypeOK
            <3>2. QED
                  BY <1>4, <3>1 DEF SaveBegin
      <2>3. QED
            BY <2>1, <2>2
<1>5. CASE SaveEnd
      BY <1>5 DEF SaveEnd
<1>6. CASE SaveRefused \/ SaveFails
      BY <1>6 DEF SaveRefused, SaveFails
<1>7. CASE UNCHANGED vars
      BY <1>7 DEF vars
<1>8. QED
      BY <1>1, <1>2, <1>3, <1>4, <1>5, <1>6, <1>7 DEF Next

(***************************************************************************)
(* When nothing is under way the file holds what localStorage holds.  No   *)
(* fault is excluded.                                                      *)
(***************************************************************************)
THEOREM QuietSavedAlways == Spec => []QuietSaved
<1>1. Init => LastIsStore
      BY DEF Init, LastIsStore
<1>2. TypeOK /\ LastIsStore /\ [Next]_vars => LastIsStore'
      BY LastIsStoreStep
<1>3. LastIsStore => QuietSaved
      BY DEF LastIsStore, QuietSaved
<1>4. QED
      BY <1>1, <1>2, <1>3, TypeCorrect, PTL DEF Spec

-----------------------------------------------------------------------------
(***************************************************************************)
(* The inductive invariant, one lemma for each of its parts that a step    *)
(* can disturb, under the assumption that one copy is sound.               *)
(***************************************************************************)
LEMMA InitSound == Init => Sound
<1> SUFFICES ASSUME Init PROVE Sound
    OBVIOUS
<1>1. TypeOK
      BY InitType
<1>2. FileSound /\ Starting
      <2>1. Empty # Broken
            BY BrokenAssumption DEF Empty
      <2>2. file = safe /\ file # Broken
            BY <2>1 DEF Init
      <2>3. QED
            BY <2>2 DEF Init, FileSound, Starting
<1>3. KeptSound /\ InOrder
      BY <1>1, AtLeastReflexive DEF Init, KeptSound, InOrder, TypeOK
<1>4. NotFromTheFuture
      <2>1. \A k \in Keys : Empty[k] <= 0
            BY DEF Empty
      <2>2. QED
            BY <2>1 DEF Init, NotFromTheFuture
<1>5. QED
      BY <1>1, <1>2, <1>3, <1>4 DEF Sound

(* The program starts: what it loads is the last complete save, or nothing
   if the file was cut off. *)
LEMMA StartInv ==
    ASSUME OneCopy, Sound, TypeOK', Start
    PROVE  Sound'
<1> USE DEF Start
<1>1. FileSound' /\ Starting'
      BY DEF Sound, FileSound, Cuts, Starting, LoadSaveData
<1>2. KeptSound'
      BY DEF Sound, KeptSound, Starting, AtLeast
<1>3. InOrder'
      BY DEF InOrder
<1>4. NotFromTheFuture'
      <2>1. \A k \in Keys : LoadSaveData[k] <= changes
            BY DEF Sound, TypeOK, FileSound, LoadSaveData, Empty, NotFromTheFuture
      <2>2. QED
            BY <2>1 DEF Sound, NotFromTheFuture
<1>5. QED
      BY <1>1, <1>2, <1>3, <1>4 DEF Sound

(* The page is loaded: this is where the two copies meet. *)
LEMMA LoadInv ==
    ASSUME OneCopy, Sound, TypeOK', Load
    PROVE  Sound'
<1> USE DEF Load
<1>1. FileSound' /\ Starting'
      BY DEF Sound, FileSound, Cuts, Starting
<1>2. AtLeast(store', safe')
      <2>1. store' = Merged(baked, kept) /\ baked = LoadSaveData /\ writing = <<>>
            BY DEF Sound, Starting, Stored
      <2>2. CASE file = safe /\ file # Broken
            BY <2>1, <2>2 DEF Sound, TypeOK, Snapshot, LoadSaveData, Merged, AtLeast
      <2>3. CASE file = Broken
            <3>1. "lazy" \notin faults
                  BY <2>1, <2>3 DEF Sound, FileSound, Cuts, OneCopy
            <3>2. AtLeast(kept, safe)
                  BY <3>1 DEF Sound, KeptSound
            <3>3. Merged(Empty, kept) = kept
                  BY DEF Sound, TypeOK, Snapshot, Merged, Empty
            <3>4. QED
                  BY <2>1, <2>3, <3>2, <3>3 DEF LoadSaveData
      <2>4. QED
            BY <2>2, <2>3 DEF Sound, FileSound
<1>3. KeptSound'
      BY DEF Stored, KeptSound
<1>4. InOrder'
      <2>1. calls = <<>> /\ writing = <<>>
            BY DEF Sound, Starting
      <2>2. QED
            BY <1>2, <2>1 DEF InOrder
<1>5. NotFromTheFuture'
      <2>1. \A k \in Keys : Merged(baked, store)[k] <= changes
            BY DEF Sound, NotFromTheFuture, Merged
      <2>2. QED
            BY <2>1 DEF Sound, NotFromTheFuture, Stored
<1>6. QED
      BY <1>1, <1>3, <1>4, <1>5 DEF Sound

(* A key is changed: the store becomes newer than anything sent. *)
LEMMA SetItemInv ==
    ASSUME OneCopy, Sound, TypeOK', NEW k \in Keys, SetItem(k)
    PROVE  Sound'
<1> USE DEF SetItem
<1>1. FileSound' /\ Starting'
      BY DEF Sound, FileSound, Cuts, Starting
<1>2. AtLeast(store', store)
      BY DEF Sound, TypeOK, Snapshot, NotFromTheFuture, AtLeast, Stored
<1>3. \A s \in Snapshot : AtLeast(store, s) => AtLeast(store', s)
      BY <1>2, AtLeastTransitive DEF Sound, TypeOK
<1>4. KeptSound'
      BY DEF Stored, KeptSound
<1>5. InOrder'
      BY <1>3 DEF Sound, TypeOK, InOrder
<1>6. NotFromTheFuture'
      <2>1. \A j \in Keys : store'[j] <= changes'
            BY DEF Sound, TypeOK, Snapshot, NotFromTheFuture, Stored
      <2>2. kept' = store' \/ kept' = kept
            BY DEF Stored
      <2>3. QED
            <3> SUFFICES ASSUME NEW j \in Keys
                         PROVE  kept'[j] <= changes' /\ baked[j] <= changes' /\ safe[j] <= changes'
                BY <2>1 DEF NotFromTheFuture
            <3>1. /\ kept[j] \in Nat /\ baked[j] \in Nat /\ safe[j] \in Nat
                  /\ changes \in Nat /\ changes' = changes + 1
                  BY DEF Sound, TypeOK, Snapshot
            <3>2. kept[j] <= changes /\ baked[j] <= changes /\ safe[j] <= changes
                  BY DEF Sound, NotFromTheFuture
            <3>3. kept[j] <= changes' /\ baked[j] <= changes' /\ safe[j] <= changes'
                  BY <3>1, <3>2
            <3>4. QED
                  BY <2>1, <2>2, <3>3
<1>7. QED
      BY <1>1, <1>4, <1>5, <1>6 DEF Sound

(* The timer fires: the store joins the end of the line. *)
LEMMA PersistInv ==
    ASSUME OneCopy, Sound, TypeOK', Persist
    PROVE  Sound'
<1> USE DEF Persist
<1>1. FileSound' /\ Starting' /\ KeptSound' /\ NotFromTheFuture'
      BY DEF Sound, FileSound, Cuts, Starting, KeptSound, NotFromTheFuture
<1>2. InOrder'
      <2>1. /\ DOMAIN calls' = 1 .. Len(calls) + 1
            /\ DOMAIN calls = 1 .. Len(calls)
            /\ Len(calls) \in Nat
            /\ calls'[Len(calls) + 1] = store
            /\ \A i \in DOMAIN calls : calls'[i] = calls[i]
            BY DEF Sound, TypeOK
      <2>2. AtLeast(store, store)
            BY AtLeastReflexive DEF Sound, TypeOK
      <2>3. \A i \in DOMAIN calls' : i \in DOMAIN calls \/ calls'[i] = store
            BY <2>1
      <2>4. \A i, j \in DOMAIN calls' : i <= j => AtLeast(calls'[j], calls'[i])
            <3> SUFFICES ASSUME NEW i \in DOMAIN calls', NEW j \in DOMAIN calls', i <= j
                         PROVE  AtLeast(calls'[j], calls'[i])
                OBVIOUS
            <3>1. CASE j \in DOMAIN calls
                  <4>1. i \in DOMAIN calls
                        BY <2>1, <3>1
                  <4>2. QED
                        BY <2>1, <3>1, <4>1 DEF Sound, InOrder
            <3>2. CASE calls'[j] = store
                  BY <2>1, <2>2, <2>3, <3>2 DEF Sound, InOrder
            <3>3. QED
                  BY <2>3, <3>1, <3>2
      <2>5. QED
            BY <2>1, <2>2, <2>3, <2>4 DEF Sound, InOrder
<1>3. QED
      BY <1>1, <1>2 DEF Sound

(* A call that has been taken leaves the others in their order. *)
LEMMA TakeInOrder ==
    ASSUME Sound, calls # <<>>, calls' = Tail(calls)
    PROVE  /\ \A i \in DOMAIN calls' : i + 1 \in DOMAIN calls /\ calls'[i] = calls[i + 1]
           /\ 1 \in DOMAIN calls
           /\ DOMAIN calls' \subseteq Nat
BY TakeCall DEF Sound, TypeOK

(* save_data begins with the first of the line. *)
LEMMA SaveBeginInv ==
    ASSUME OneCopy, Sound, TypeOK', SaveBegin
    PROVE  Sound'
<1> USE DEF SaveBegin
<1>0. loaded /\ writing' # <<>>
      BY DEF Sound, Starting
<1>1. FileSound' /\ Starting' /\ KeptSound' /\ NotFromTheFuture'
      BY <1>0 DEF Sound, FileSound, Cuts, Starting, KeptSound, NotFromTheFuture
<1>2. InOrder'
      <2>1. /\ \A i \in DOMAIN calls' : i + 1 \in DOMAIN calls /\ calls'[i] = calls[i + 1]
            /\ 1 \in DOMAIN calls
            /\ DOMAIN calls' \subseteq Nat
            BY TakeInOrder
      <2>2. \A i \in DOMAIN writing' : writing'[i] = calls[1]
            BY TakeCall DEF Sound, TypeOK
      <2>3. \A i \in DOMAIN calls' : AtLeast(calls'[i], calls[1])
            BY <1>0, <2>1 DEF Sound, InOrder
      <2>4. \A i, j \in DOMAIN calls' : i <= j => AtLeast(calls'[j], calls'[i])
            BY <1>0, <2>1 DEF Sound, InOrder
      <2>5. QED
            BY <1>0, <2>1, <2>2, <2>3, <2>4 DEF Sound, InOrder
<1>3. QED
      BY <1>1, <1>2 DEF Sound

(* save_data ends: what has been written becomes the last complete save. *)
LEMMA SaveEndInv ==
    ASSUME OneCopy, Sound, TypeOK', SaveEnd
    PROVE  Sound' /\ AtLeast(safe', safe)
<1> USE DEF SaveEnd
<1>0. loaded /\ 1 \in DOMAIN writing /\ writing[1] \in Snapshot
      BY DEF Sound, Starting, TypeOK
<1>1. AtLeast(store, writing[1]) /\ AtLeast(writing[1], safe)
      BY <1>0 DEF Sound, InOrder
<1>2. FileSound' /\ Starting' /\ KeptSound'
      BY <1>0, BrokenAssumption DEF Sound, FileSound, Cuts, Starting, KeptSound, Snapshot
<1>3. InOrder'
      BY <1>0, <1>1 DEF Sound, InOrder
<1>4. NotFromTheFuture'
      BY <1>0, <1>1 DEF Sound, TypeOK, Snapshot, NotFromTheFuture, AtLeast
<1>5. QED
      BY <1>1, <1>2, <1>3, <1>4 DEF Sound

(* A save is refused or fails: one snapshot leaves the line. *)
LEMMA SaveLostInv ==
    ASSUME OneCopy, Sound, TypeOK', SaveRefused \/ SaveFails
    PROVE  Sound'
<1>1. CASE SaveRefused
      <2> USE <1>1 DEF SaveRefused
      <2>0. loaded
            BY DEF Sound, Starting
      <2>1. FileSound' /\ Starting' /\ KeptSound' /\ NotFromTheFuture'
            BY <2>0 DEF Sound, FileSound, Cuts, Starting, KeptSound, NotFromTheFuture
      <2>2. /\ \A i \in DOMAIN calls' : i + 1 \in DOMAIN calls /\ calls'[i] = calls[i + 1]
            /\ DOMAIN calls' \subseteq Nat
            BY TakeInOrder
      <2>3. \A i, j \in DOMAIN calls' : i <= j => AtLeast(calls'[j], calls'[i])
            BY <2>0, <2>2 DEF Sound, InOrder
      <2>4. InOrder'
            BY <2>0, <2>2, <2>3 DEF Sound, InOrder
      <2>5. QED
            BY <2>1, <2>4 DEF Sound
<1>2. CASE SaveFails
      <2> USE <1>2 DEF SaveFails
      <2>0. loaded /\ Cuts
            BY DEF Sound, Starting, Cuts
      <2>1. FileSound' /\ Starting' /\ KeptSound' /\ NotFromTheFuture'
            BY <2>0 DEF Sound, FileSound, Cuts, Starting, KeptSound, NotFromTheFuture
      <2>2. InOrder'
            BY <2>0 DEF Sound, InOrder
      <2>3. QED
            BY <2>1, <2>2 DEF Sound
<1>3. QED
      BY <1>1, <1>2

(* The program ends: a file that is left cut off has been cut by a fault. *)
LEMMA EndInv ==
    ASSUME OneCopy, Sound, TypeOK', Quit \/ Kill
    PROVE  Sound'
<1> USE DEF Ended
<1>1. FileSound'
      BY DEF Quit, Kill, Sound, FileSound, Cuts
<1>2. Starting' /\ InOrder' /\ NotFromTheFuture'
      BY DEF Quit, Kill, Sound, Starting, InOrder, NotFromTheFuture
<1>3. KeptSound'
      BY DEF Quit, Kill, Sound, KeptSound, InOrder
<1>4. QED
      BY <1>1, <1>2, <1>3 DEF Sound

(* One step of any kind. *)
LEMMA NextSound ==
    ASSUME OneCopy, Sound, [Next]_vars
    PROVE  Sound' /\ AtLeast(safe', safe)
<1>1. TypeOK'
      BY NextType DEF Sound
<1>2. CASE SaveEnd
      BY <1>1, <1>2, SaveEndInv
<1>3. CASE ~SaveEnd
      <2>1. safe' = safe
            BY <1>3 DEF Next, Start, Load, SetItem, Persist, SaveBegin, SaveRefused,
                        SaveFails, Quit, Kill, Ended, Reload, vars
      <2>2. ASSUME UNCHANGED vars PROVE Sound'
            BY <1>1, <2>2 DEF vars, Sound, FileSound, Starting, KeptSound, InOrder,
                              NotFromTheFuture, LoadSaveData, Cuts
      <2>3. ~Reload
            BY DEF Reload, OneCopy
      <2>4. Sound'
            BY <1>1, <1>3, <2>2, <2>3, StartInv, LoadInv, SetItemInv, PersistInv,
               SaveBeginInv, SaveLostInv, EndInv DEF Next
      <2>5. QED
            BY <2>1, <2>4, AtLeastReflexive DEF Sound, TypeOK
<1>4. QED
      BY <1>2, <1>3

(* What may go wrong does not change. *)
LEMMA SameFaults == [Next]_vars => OneCopy' = OneCopy
<1> SUFFICES ASSUME [Next]_vars PROVE faults' = faults
    BY DEF OneCopy, Cuts
<1>1. QED
      BY DEF Next, Start, Load, SetItem, Persist, SaveBegin, SaveEnd, SaveRefused,
             SaveFails, Quit, Kill, Ended, Reload, vars

(***************************************************************************)
(* The inductive invariant.                                                *)
(***************************************************************************)
THEOREM Inductive == Spec => []IInv
<1>1. Init => IInv
      BY InitSound DEF IInv, Sound
<1>2. IInv /\ [Next]_vars => IInv'
      BY NextType, NextSound, SameFaults DEF IInv
<1>3. QED
      BY <1>1, <1>2, PTL DEF Spec

(***************************************************************************)
(* What has been written completely is never lost, if one copy is sound.   *)
(***************************************************************************)
THEOREM SavedSurvivesAlways == Spec => []SavedSurvives
<1>1. IInv => SavedSurvives
      BY DEF IInv, Sound, InOrder, SavedSurvives
<1>2. QED
      BY <1>1, Inductive, PTL

(***************************************************************************)
(* savedata.json never goes back, if one copy is sound.                    *)
(***************************************************************************)
THEOREM NoOlderSaveAlways == Spec => NoOlderSave
<1>1. IInv /\ [Next]_vars => [OneCopy => AtLeast(safe', safe)]_vars
      BY NextSound DEF IInv
<1>2. QED
      BY <1>1, Inductive, PTL DEF Spec, NoOlderSave
=============================================================================
