-------------------------- MODULE MainWindowProofs --------------------------
(***************************************************************************)
(* What MainWindow promises for slots nested to any depth, any releases    *)
(* and any batch.                                                          *)
(***************************************************************************)
EXTENDS MainWindow, FiniteSetTheorems, TLAPS

(* A load is of the settings it is given, whatever the directory.            *)
LEMMA LoadIsCurrent ==
  ASSUME NEW with, Load(with), settings' = with
  PROVE  EngineIsCurrent'
<1>1. PICK good \in BOOLEAN :
        /\ model_loaded' = good
        /\ engine' = IF good THEN [dir |-> model_dir, settings |-> with] ELSE None
  BY DEF Load
<1>2. CASE good
  BY <1>1, <1>2 DEF EngineIsCurrent
<1>3. CASE ~good
  BY <1>1, <1>3 DEF EngineIsCurrent
<1> QED
  BY <1>2, <1>3

(* The three controls that updateModelStatusUi() locks, or whose change      *)
(* releases the model, are those of the model in memory.  The proof needs    *)
(* nothing of the directory and the V2 label, which are free to change.      *)
THEOREM EngineStaysCurrent == Spec => []EngineIsCurrent
<1>1. Init => EngineIsCurrent
  BY DEF Init, EngineIsCurrent
<1>2. EngineIsCurrent /\ [Next]_vars => EngineIsCurrent'
  <2> SUFFICES ASSUME EngineIsCurrent, [Next]_vars PROVE EngineIsCurrent'
    OBVIOUS
  <2>1. CASE OnReleaseModel
    BY <2>1 DEF OnReleaseModel, Unload, EngineIsCurrent
  <2>2. CASE OnModelVersionChanged
    BY <2>2 DEF OnModelVersionChanged, ReleaseIfLoaded, Unload, EngineIsCurrent, engineVars
  <2>3. CASE PickPrecisionOrGpu
    BY <2>3 DEF PickPrecisionOrGpu, EngineIsCurrent, engineVars
  <2>4. CASE OnLoadLocalModel
    BY <2>4, LoadIsCurrent DEF OnLoadLocalModel
  <2>5. CASE OnCheckDownloadModels
    <3>1. settings' = settings /\ (Load(settings) \/ UNCHANGED engineVars)
      BY <2>5 DEF OnCheckDownloadModels, settingVars
    <3>2. CASE UNCHANGED engineVars
      BY <3>1, <3>2 DEF EngineIsCurrent, engineVars
    <3> QED
      BY <3>1, <3>2, LoadIsCurrent
  <2>6. CASE DownloadFinished
    <3>1. settings' = settings /\ (Load(settings) \/ UNCHANGED engineVars)
      BY <2>6 DEF DownloadFinished, settingVars
    <3>2. CASE UNCHANGED engineVars
      BY <3>1, <3>2 DEF EngineIsCurrent, engineVars
    <3> QED
      BY <3>1, <3>2, LoadIsCurrent
  <2>7. CASE UNCHANGED <<model_loaded, engine, settings>>
    BY <2>7 DEF EngineIsCurrent
  <2>8. CASE OnScanLocalModels \/ EditModelDir \/ OnDownloadV2Model \/ OnTableDoubleClick
               \/ V2ManifestFetched \/ StartModelDownload
    BY <2>7, <2>8 DEF OnScanLocalModels, EditModelDir, OnDownloadV2Model, OnTableDoubleClick,
       V2ManifestFetched, StartModelDownload, settingVars, engineVars
  <2>9. CASE OnTagSelected \/ TagSelected \/ OnRefreshTags \/ TagsFetched \/ TagReselected
    BY <2>7, <2>9 DEF OnTagSelected, TagSelected, OnRefreshTags, TagsFetched,
       TagReselected, settingVars, engineVars
  <2>10. CASE GetImage \/ AddToBatch \/ OnBatchRecognize \/ OnBatchClear
    BY <2>7, <2>10 DEF GetImage, AddToBatch, OnBatchRecognize, OnBatchClear, settingVars,
       engineVars
  <2>11. CASE Stopped \/ UNCHANGED vars
    BY <2>7, <2>11 DEF Stopped, vars, settingVars, engineVars
  <2> QED
    BY <2>1, <2>2, <2>3, <2>4, <2>5, <2>6, <2>8, <2>9, <2>10, <2>11 DEF Next
<1> QED
  BY <1>1, <1>2, PTL DEF Spec

-----------------------------------------------------------------------------
(* The stack.  Its depth and what a frame is are needed first; then a step   *)
(* matters to the flags only by the places of the frames it leaves.          *)
Places == {"select", "refresh", "reselect", "v2 manifest", "v1 transfer", "v2 transfer"}
Frames == [at : Places, tag : Tags, live : BOOLEAN]

Typed ==
  /\ frames \in Seq(Frames)
  /\ v2_tag \in Tags
  /\ tags \in Seq(Tags)
  /\ manifest \in [tag : Tags, models : SUBSET Backbones]
  /\ download_active \in BOOLEAN /\ check_enabled \in BOOLEAN
  /\ v2_enabled \in BOOLEAN /\ refresh_enabled \in BOOLEAN

Transfers == {"v1 transfer", "v2 transfer"}
Fetches == {"refresh", "reselect"}

Same(i) == frames'[i].at = frames[i].at

Stays == Len(frames') = Len(frames) /\ \A i \in 1..Len(frames) : Same(i)

Grows(place) ==
  /\ Len(frames') = Len(frames) + 1
  /\ \A i \in 1..Len(frames) : Same(i)
  /\ frames'[Len(frames) + 1].at = place

Shrinks ==
  /\ Len(frames) > 0 /\ Len(frames') = Len(frames) - 1
  /\ \A i \in 1..(Len(frames) - 1) : Same(i)

Moves(place) ==
  /\ Len(frames) > 0 /\ Len(frames') = Len(frames)
  /\ \A i \in 1..(Len(frames) - 1) : Same(i)
  /\ frames'[Len(frames)].at = place

(* A refresh that selects the tag of before leaves a frame that waits for    *)
(* it, under the frame of the selection.                                     *)
Reselects ==
  /\ Len(frames) > 0 /\ Len(frames') = Len(frames) + 1
  /\ \A i \in 1..(Len(frames) - 1) : Same(i)
  /\ frames'[Len(frames)].at = "reselect"
  /\ frames'[Len(frames) + 1].at = "select"

(* "No tag" is one of the tags a frame may carry. *)
LEMMA NoneIsTag == None \in Tags
  BY DEF Tags

(* Entering a slot puts one frame on top and leaves the others. *)
LEMMA PushGrows ==
  ASSUME Typed, NEW p \in Places, NEW t \in Tags, Push(Frame(p, t, TRUE))
  PROVE  Grows(p) /\ frames' \in Seq(Frames)
<1>1. Frame(p, t, TRUE) \in Frames /\ Frame(p, t, TRUE).at = p
  BY DEF Frame, Frames
<1>2. frames' = Append(frames, Frame(p, t, TRUE)) /\ frames \in Seq(Frames)
  BY DEF Push, Typed
<1>3. \A f \in Frames, s \in Seq(Frames) :
        /\ Append(s, f) \in Seq(Frames) /\ Len(Append(s, f)) = Len(s) + 1
        /\ Append(s, f)[Len(s) + 1] = f
        /\ \A i \in 1..Len(s) : Append(s, f)[i] = s[i]
  OBVIOUS
<1>4. /\ frames' \in Seq(Frames) /\ Len(frames') = Len(frames) + 1
      /\ frames'[Len(frames) + 1] = Frame(p, t, TRUE)
      /\ \A i \in 1..Len(frames) : frames'[i] = frames[i]
  BY <1>1, <1>2, <1>3
<1> QED
  BY <1>1, <1>4 DEF Grows, Same

(* What waits below the top frame. *)
LEMMA BelowShrinks ==
  ASSUME Typed, frames # <<>>
  PROVE  /\ Below \in Seq(Frames) /\ Len(Below) = Len(frames) - 1 /\ Len(frames) > 0
         /\ \A i \in 1..(Len(frames) - 1) : Below[i] = frames[i]
         /\ Top \in Frames
<1>1. frames \in Seq(Frames) /\ Len(frames) \in Nat /\ DOMAIN frames = 1..Len(frames)
  BY DEF Typed
<1>2. Len(frames) > 0
  BY <1>1
<1>3. Below \in Seq(Frames) /\ Len(Below) = Len(frames) - 1
  BY <1>1, <1>2 DEF Below
<1>4. \A i \in 1..(Len(frames) - 1) : Below[i] = frames[i]
  BY <1>1, <1>2 DEF Below
<1>5. Top \in Frames
  BY <1>1, <1>2 DEF Top
<1> QED
  BY <1>2, <1>3, <1>4, <1>5

(* Leaving a slot takes the top frame away and nothing else. *)
LEMMA PopShrinks ==
  ASSUME Typed, frames # <<>>, Pop
  PROVE  Shrinks /\ frames' \in Seq(Frames)
  BY BelowShrinks DEF Pop, Shrinks, Same

(* A reference going stale moves no frame. *)
LEMMA StaleKeeps ==
  ASSUME NEW s \in Seq(Frames)
  PROVE  /\ Stale(s) \in Seq(Frames) /\ Len(Stale(s)) = Len(s)
         /\ \A i \in 1..Len(s) : Stale(s)[i].at = s[i].at
<1>1. \A f \in Frames : [f EXCEPT !.live = FALSE] \in Frames
                     /\ [f EXCEPT !.live = FALSE].at = f.at
  BY DEF Frames
<1>2. \A i \in 1..Len(s) : s[i] \in Frames
  OBVIOUS
<1>3. DOMAIN s = 1..Len(s) /\ Len(s) \in Nat
  OBVIOUS
<1>4. Stale(s) = [i \in 1..Len(s) |-> IF s[i].at = "select"
                   THEN [s[i] EXCEPT !.live = FALSE] ELSE s[i]]
  BY <1>3 DEF Stale
<1>5. \A i \in 1..Len(s) : Stale(s)[i] \in Frames /\ Stale(s)[i].at = s[i].at
  BY <1>1, <1>2, <1>4
<1>6. Stale(s) \in [1..Len(s) -> Frames]
  BY <1>4, <1>5
<1> QED
  BY <1>3, <1>5, <1>6

-----------------------------------------------------------------------------
(* Which places a stack has after a step.                                    *)
Waits(places) == \E i \in 1..Len(frames) : frames[i].at \in places
WaitsBelow(places) == \E i \in 1..(Len(frames) - 1) : frames[i].at \in places
AtTop(places) == frames[Len(frames)].at \in places

(* The stack has a length. *)
LEMMA LengthIsNatural == Typed => Len(frames) \in Nat
  BY DEF Typed

(* Which places are waited at after a step, by what it does to the stack. *)
LEMMA WaitsAfter ==
  ASSUME Typed, NEW places, NEW p
  PROVE  /\ Stays => (Waits(places)' <=> Waits(places))
         /\ Grows(p) => (Waits(places)' <=> (Waits(places) \/ p \in places))
         /\ Shrinks => (Waits(places)' <=> WaitsBelow(places))
         /\ Moves(p) => (Waits(places)' <=> (WaitsBelow(places) \/ p \in places))
         /\ Reselects => (Waits(places)' <=> (\/ WaitsBelow(places)
                                            \/ {"reselect", "select"} \cap places # {}))
         /\ Len(frames) > 0 => (Waits(places) <=> (WaitsBelow(places) \/ AtTop(places)))
<1>1. Len(frames) \in Nat
  BY LengthIsNatural
<1>2. Stays => (Waits(places)' <=> Waits(places))
  BY <1>1 DEF Stays, Waits, Same
<1>3. Grows(p) => (Waits(places)' <=> (Waits(places) \/ p \in places))
  <2> SUFFICES ASSUME Grows(p) PROVE Waits(places)' <=> (Waits(places) \/ p \in places)
    OBVIOUS
  <2>1. 1..Len(frames') = 1..Len(frames) \cup {Len(frames) + 1}
    BY <1>1 DEF Grows
  <2> QED
    BY <2>1 DEF Grows, Waits, Same
<1>4. Shrinks => (Waits(places)' <=> WaitsBelow(places))
  BY <1>1 DEF Shrinks, Waits, WaitsBelow, Same
<1>5. Moves(p) => (Waits(places)' <=> (WaitsBelow(places) \/ p \in places))
  <2> SUFFICES ASSUME Moves(p)
               PROVE  Waits(places)' <=> (WaitsBelow(places) \/ p \in places)
    OBVIOUS
  <2>1. 1..Len(frames') = 1..(Len(frames) - 1) \cup {Len(frames)}
    BY <1>1 DEF Moves
  <2> QED
    BY <2>1 DEF Moves, Waits, WaitsBelow, Same
<1>6. Reselects => (Waits(places)' <=> (\/ WaitsBelow(places)
                                       \/ {"reselect", "select"} \cap places # {}))
  <2> SUFFICES ASSUME Reselects
               PROVE  Waits(places)' <=> (\/ WaitsBelow(places)
                                         \/ {"reselect", "select"} \cap places # {})
    OBVIOUS
  <2>1. 1..Len(frames') = 1..(Len(frames) - 1) \cup {Len(frames), Len(frames) + 1}
    BY <1>1 DEF Reselects
  <2> QED
    BY <2>1 DEF Reselects, Waits, WaitsBelow, Same
<1>7. Len(frames) > 0 => (Waits(places) <=> (WaitsBelow(places) \/ AtTop(places)))
  <2> SUFFICES ASSUME Len(frames) > 0
               PROVE  Waits(places) <=> (WaitsBelow(places) \/ AtTop(places))
    OBVIOUS
  <2>1. 1..Len(frames) = 1..(Len(frames) - 1) \cup {Len(frames)}
    BY <1>1
  <2> QED
    BY <2>1 DEF Waits, WaitsBelow, AtTop
<1> QED
  BY <1>2, <1>3, <1>4, <1>5, <1>6, <1>7

-----------------------------------------------------------------------------
(* While a download is in transfer, nothing above it is another one or will  *)
(* become one.  At most one refresh, or selection of its tag, is under way.  *)
Apart(earlier, later) == \A i, j \in 1..Len(frames) :
  i < j /\ frames[i].at \in earlier => frames[j].at \notin later

(* When a step keeps one kind of frame from being above another. *)
LEMMA ApartAfter ==
  ASSUME Typed, NEW earlier, NEW later, NEW p, Apart(earlier, later)
  PROVE  /\ Stays \/ Shrinks => Apart(earlier, later)'
         /\ Grows(p) /\ (Waits(earlier) => p \notin later) => Apart(earlier, later)'
         /\ Moves(p) /\ (WaitsBelow(earlier) => p \notin later) => Apart(earlier, later)'
         /\ /\ Reselects
            /\ WaitsBelow(earlier) => "reselect" \notin later
            /\ "select" \notin later
            => Apart(earlier, later)'
         /\ Len(frames) > 0 /\ AtTop(later) => ~WaitsBelow(earlier)
<1>1. Len(frames) \in Nat
  BY LengthIsNatural
<1>2. Stays => Apart(earlier, later)'
  BY <1>1 DEF Stays, Apart, Same
<1>3. Shrinks => Apart(earlier, later)'
  BY <1>1 DEF Shrinks, Apart, Same
<1>4. Grows(p) /\ (Waits(earlier) => p \notin later) => Apart(earlier, later)'
  BY <1>1 DEF Grows, Apart, Same, Waits
<1>5. Moves(p) /\ (WaitsBelow(earlier) => p \notin later) => Apart(earlier, later)'
  BY <1>1 DEF Moves, Apart, Same, WaitsBelow
<1>6. /\ Reselects
      /\ WaitsBelow(earlier) => "reselect" \notin later
      /\ "select" \notin later
      => Apart(earlier, later)'
  BY <1>1 DEF Reselects, Apart, Same, WaitsBelow
<1>7. Len(frames) > 0 /\ AtTop(later) => ~WaitsBelow(earlier)
  BY <1>1 DEF Apart, WaitsBelow, AtTop
<1> QED
  BY <1>2, <1>3, <1>4, <1>5, <1>6, <1>7

-----------------------------------------------------------------------------
Exclusive == Apart(Transfers, Transfers \cup {"v2 manifest"})
Sending == Waits(Transfers)
SendingV2 == Waits({"v2 transfer"})
Asking == Waits(Fetches)

(* The flag and the buttons say what waits.                                  *)
Downloading ==
  /\ Exclusive
  /\ download_active <=> Sending
  /\ check_enabled <=> ~Sending
  /\ v2_enabled <=> ~SendingV2

Fetching ==
  /\ Apart(Fetches, Fetches)
  /\ refresh_enabled <=> ~Asking

StackInv == Typed /\ Downloading /\ Fetching

(* What a step does to the stack and, where it matters, what was on top.     *)
Selects == Grows("select") /\ UNCHANGED <<downloadVars, refresh_enabled>>
Rests == Stays /\ UNCHANGED <<downloadVars, refresh_enabled>>
Returns ==
  /\ Shrinks /\ ~AtTop(Transfers) /\ ~AtTop(Fetches)
  /\ UNCHANGED <<downloadVars, refresh_enabled>>
AsksForV2 == Grows("v2 manifest") /\ ~download_active /\ UNCHANGED <<downloadVars, refresh_enabled>>
SendsV1 ==
  /\ Grows("v1 transfer") /\ ~download_active
  /\ download_active' = TRUE /\ check_enabled' = FALSE
  /\ UNCHANGED <<v2_enabled, refresh_enabled>>
SendsV2 ==
  /\ Moves("v2 transfer") /\ AtTop({"v2 manifest"})
  /\ download_active' = TRUE /\ check_enabled' = FALSE /\ v2_enabled' = FALSE
  /\ UNCHANGED refresh_enabled
Ends ==
  /\ Shrinks /\ AtTop(Transfers)
  /\ download_active' = FALSE /\ check_enabled' = TRUE
  /\ v2_enabled' = (v2_enabled \/ AtTop({"v2 transfer"}))
  /\ UNCHANGED refresh_enabled
Refreshes ==
  /\ Grows("refresh") /\ refresh_enabled /\ refresh_enabled' = FALSE
  /\ UNCHANGED downloadVars
Refreshed ==
  /\ Shrinks /\ AtTop(Fetches) /\ refresh_enabled' = TRUE
  /\ UNCHANGED downloadVars
SelectsAgain ==
  /\ Reselects /\ AtTop({"refresh"}) /\ refresh_enabled' = FALSE
  /\ UNCHANGED downloadVars

(* Which places belong to a transfer and which to a refresh. *)
LEMMA Disjointness ==
  /\ \A p \in {"select", "refresh", "reselect", "v2 manifest"} : p \notin Transfers
  /\ \A p \in {"select", "v2 manifest", "v1 transfer", "v2 transfer"} : p \notin Fetches
  /\ {"v1 transfer", "v2 transfer"} \subseteq Transfers
  /\ {"refresh", "reselect"} \subseteq Fetches
  /\ \A p \in {"select", "refresh", "reselect"} : p \notin Transfers \cup {"v2 manifest"}
  BY DEF Transfers, Fetches

(* What the place of the top frame rules out. *)
LEMMA TopPlaces ==
  /\ AtTop({"v2 manifest"}) => ~AtTop(Transfers) /\ ~AtTop(Fetches)
                              /\ AtTop(Transfers \cup {"v2 manifest"})
  /\ AtTop({"refresh"}) => ~AtTop(Transfers) /\ AtTop(Fetches)
  /\ AtTop(Transfers) => ~AtTop(Fetches) /\ AtTop(Transfers \cup {"v2 manifest"})
  /\ AtTop(Fetches) => ~AtTop(Transfers)
  /\ AtTop({"v2 transfer"}) => AtTop(Transfers)
  BY DEF AtTop, Transfers, Fetches

(* A V2 transfer is a transfer, waiting or on top. *)
LEMMA V2IsATransfer ==
  /\ WaitsBelow({"v2 transfer"}) => WaitsBelow(Transfers)
  /\ SendingV2 => Sending
  BY DEF Transfers, WaitsBelow, Waits, Sending, SendingV2

(* No step puts a transfer above another one. *)
LEMMA ExclusiveStays ==
  ASSUME Typed, Exclusive, download_active <=> Sending,
         \/ Selects \/ Rests \/ Returns \/ AsksForV2 \/ SendsV1 \/ SendsV2 \/ Ends
         \/ Refreshes \/ Refreshed \/ SelectsAgain
  PROVE  Exclusive'
<1>1. CASE Rests \/ Returns \/ Ends \/ Refreshed
  BY <1>1, ApartAfter DEF Rests, Returns, Ends, Refreshed, Exclusive
<1>2. CASE Selects
  BY <1>2, ApartAfter, Disjointness DEF Selects, Exclusive
<1>3. CASE Refreshes
  BY <1>3, ApartAfter, Disjointness DEF Refreshes, Exclusive
<1>4. CASE AsksForV2
  BY <1>4, ApartAfter DEF AsksForV2, Exclusive, Sending
<1>5. CASE SendsV1
  BY <1>5, ApartAfter DEF SendsV1, Exclusive, Sending
<1>6. CASE SendsV2
  <2>1. AtTop(Transfers \cup {"v2 manifest"}) /\ Len(frames) > 0
    BY <1>6, TopPlaces DEF SendsV2, Moves
  <2>2. ~WaitsBelow(Transfers)
    BY <2>1, ApartAfter DEF Exclusive
  <2> QED
    BY <1>6, <2>2, ApartAfter DEF SendsV2, Exclusive
<1>7. CASE SelectsAgain
  BY <1>7, ApartAfter, Disjointness DEF SelectsAgain, Exclusive
<1> QED
  BY <1>1, <1>2, <1>3, <1>4, <1>5, <1>6, <1>7

(* Which places belong to no transfer, or to one kind of it only. *)
LEMMA PlacesApart ==
  /\ {"reselect", "select"} \cap Transfers = {}
  /\ {"reselect", "select"} \cap {"v2 transfer"} = {}
  /\ {"reselect", "select"} \cap Fetches # {}
  /\ "v1 transfer" \notin {"v2 transfer"}
  /\ \A p \in {"select", "refresh", "reselect", "v2 manifest"} : p \notin {"v2 transfer"}
  BY DEF Transfers, Fetches

(* Flag and buttons follow the transfers through every kind of step. *)
LEMMA FlagsStay ==
  ASSUME Typed, Downloading,
         \/ Selects \/ Rests \/ Returns \/ AsksForV2 \/ SendsV1 \/ SendsV2 \/ Ends
         \/ Refreshes \/ Refreshed \/ SelectsAgain
  PROVE  /\ download_active' <=> Sending'
         /\ check_enabled' <=> ~Sending'
         /\ v2_enabled' <=> ~SendingV2'
<1> DEFINE Flags == /\ download_active' <=> Sending'
                    /\ check_enabled' <=> ~Sending'
                    /\ v2_enabled' <=> ~SendingV2'
<1> SUFFICES Flags
  OBVIOUS
<1>1. CASE (Sending' <=> Sending) /\ (SendingV2' <=> SendingV2) /\ UNCHANGED downloadVars
  BY <1>1 DEF Downloading, downloadVars
<1>2. CASE Rests
  BY <1>1, <1>2, WaitsAfter DEF Rests, Sending, SendingV2
<1>3. CASE Selects
  BY <1>1, <1>3, WaitsAfter, Disjointness, PlacesApart DEF Selects, Sending, SendingV2
<1>4. CASE Refreshes
  BY <1>1, <1>4, WaitsAfter, Disjointness, PlacesApart DEF Refreshes, Sending, SendingV2
<1>5. CASE AsksForV2
  BY <1>1, <1>5, WaitsAfter, Disjointness, PlacesApart DEF AsksForV2, Sending, SendingV2
<1>6. ASSUME Len(frames) > 0, ~AtTop(Transfers)
      PROVE  (Sending <=> WaitsBelow(Transfers)) /\ (SendingV2 <=> WaitsBelow({"v2 transfer"}))
  BY <1>6, WaitsAfter, TopPlaces DEF Sending, SendingV2
<1>7. CASE Returns
  <2>1. Shrinks /\ Len(frames) > 0 /\ ~AtTop(Transfers) /\ UNCHANGED downloadVars
    BY <1>7 DEF Returns, Shrinks
  <2> QED
    BY <1>1, <1>6, <2>1, WaitsAfter DEF Sending, SendingV2
<1>8. CASE Refreshed
  <2>1. Shrinks /\ Len(frames) > 0 /\ ~AtTop(Transfers) /\ UNCHANGED downloadVars
    BY <1>8, TopPlaces DEF Refreshed, Shrinks
  <2> QED
    BY <1>1, <1>6, <2>1, WaitsAfter DEF Sending, SendingV2
<1>9. CASE SelectsAgain
  <2>1. Reselects /\ Len(frames) > 0 /\ ~AtTop(Transfers) /\ UNCHANGED downloadVars
    BY <1>9, TopPlaces DEF SelectsAgain, Reselects
  <2>2. (Sending' <=> WaitsBelow(Transfers)) /\ (SendingV2' <=> WaitsBelow({"v2 transfer"}))
    BY <2>1, WaitsAfter, PlacesApart DEF Sending, SendingV2
  <2> QED
    BY <1>1, <1>6, <2>1, <2>2
<1>10. CASE SendsV1
  <2>1. Sending' /\ (SendingV2' <=> SendingV2)
    BY <1>10, WaitsAfter, Disjointness, PlacesApart DEF SendsV1, Sending, SendingV2
  <2> QED
    BY <1>10, <2>1 DEF SendsV1, Downloading
<1>11. CASE SendsV2
  <2>1. Sending' /\ SendingV2'
    BY <1>11, WaitsAfter, Disjointness DEF SendsV2, Sending, SendingV2
  <2> QED
    BY <1>11, <2>1 DEF SendsV2
<1>12. CASE Ends
  <2>1. Shrinks /\ Len(frames) > 0 /\ AtTop(Transfers \cup {"v2 manifest"})
    BY <1>12, TopPlaces DEF Ends, Shrinks
  <2>2. ~WaitsBelow(Transfers) /\ ~WaitsBelow({"v2 transfer"})
    BY <2>1, ApartAfter, V2IsATransfer DEF Downloading, Exclusive
  <2>3. ~Sending' /\ ~SendingV2' /\ (SendingV2 <=> AtTop({"v2 transfer"}))
    BY <2>1, <2>2, WaitsAfter DEF Sending, SendingV2
  <2> QED
    BY <1>12, <2>3 DEF Ends, Downloading
<1> QED
  BY <1>2, <1>3, <1>4, <1>5, <1>7, <1>8, <1>9, <1>10, <1>11, <1>12

(* The refresh button follows the one refresh through every kind of step. *)
LEMMA FetchingStays ==
  ASSUME Typed, Fetching,
         \/ Selects \/ Rests \/ Returns \/ AsksForV2 \/ SendsV1 \/ SendsV2 \/ Ends
         \/ Refreshes \/ Refreshed \/ SelectsAgain
  PROVE  Fetching'
<1>1. ASSUME Len(frames) > 0, ~AtTop(Fetches) PROVE Asking <=> WaitsBelow(Fetches)
  BY <1>1, WaitsAfter DEF Asking
<1>2. ASSUME Len(frames) > 0, AtTop(Fetches) PROVE ~WaitsBelow(Fetches)
  BY <1>2, ApartAfter DEF Fetching
<1>3. CASE Rests
  BY <1>3, WaitsAfter, ApartAfter DEF Rests, Fetching, Asking
<1>4. CASE Selects
  BY <1>4, WaitsAfter, ApartAfter, Disjointness DEF Selects, Fetching, Asking
<1>5. CASE AsksForV2
  BY <1>5, WaitsAfter, ApartAfter, Disjointness DEF AsksForV2, Fetching, Asking
<1>6. CASE SendsV1
  BY <1>6, WaitsAfter, ApartAfter, Disjointness DEF SendsV1, Fetching, Asking
<1>7. CASE SendsV2
  <2>1. Moves("v2 transfer") /\ Len(frames) > 0 /\ ~AtTop(Fetches) /\ UNCHANGED refresh_enabled
    BY <1>7, TopPlaces DEF SendsV2, Moves
  <2> QED
    BY <1>1, <2>1, WaitsAfter, ApartAfter, Disjointness DEF Fetching, Asking
<1>8. CASE Returns \/ Ends
  <2>1. Shrinks /\ Len(frames) > 0 /\ ~AtTop(Fetches) /\ UNCHANGED refresh_enabled
    BY <1>8, TopPlaces DEF Returns, Ends, Shrinks
  <2> QED
    BY <1>1, <2>1, WaitsAfter, ApartAfter DEF Fetching, Asking
<1>9. CASE Refreshes
  BY <1>9, WaitsAfter, ApartAfter, Disjointness DEF Refreshes, Fetching, Asking
<1>10. CASE Refreshed
  <2>1. Shrinks /\ Len(frames) > 0 /\ AtTop(Fetches) /\ refresh_enabled' = TRUE
    BY <1>10 DEF Refreshed, Shrinks
  <2> QED
    BY <1>2, <2>1, WaitsAfter, ApartAfter DEF Fetching, Asking
<1>11. CASE SelectsAgain
  <2>1. Reselects /\ Len(frames) > 0 /\ AtTop(Fetches) /\ refresh_enabled' = FALSE
    BY <1>11, TopPlaces DEF SelectsAgain, Reselects
  <2> QED
    BY <1>2, <2>1, WaitsAfter, ApartAfter, Disjointness, PlacesApart DEF Fetching, Asking
<1> QED
  BY <1>3, <1>4, <1>5, <1>6, <1>7, <1>8, <1>9, <1>10, <1>11

-----------------------------------------------------------------------------
Step == \/ Selects \/ Rests \/ Returns \/ AsksForV2 \/ SendsV1 \/ SendsV2 \/ Ends
        \/ Refreshes \/ Refreshed \/ SelectsAgain

(* The variables of Typed other than the stack and the flags.                *)
TagsTyped ==
  /\ v2_tag \in Tags
  /\ tags \in Seq(Tags)
  /\ manifest \in [tag : Tags, models : SUBSET Backbones]

(* A step that leaves stack, flags and buttons alone disturbs none of them. *)
LEMMA SameStackStays ==
  ASSUME Typed, UNCHANGED frames, UNCHANGED <<downloadVars, refresh_enabled>>
  PROVE  Rests /\ frames' \in Seq(Frames)
  BY DEF Rests, Stays, Same, Typed

(* An empty manifest is a manifest. *)
LEMMA NoManifestTyped == NoManifest \in [tag : Tags, models : SUBSET Backbones]
  BY NoneIsTag DEF NoManifest

(* Every step keeps the tags and the manifest in their types. *)
LEMMA TagsStay ==
  ASSUME Typed, [Next]_vars
  PROVE  TagsTyped'
<1> USE DEF Typed, TagsTyped
<1>1. CASE UNCHANGED <<v2_tag, tags, manifest>>
  BY <1>1
<1>2. CASE OnReleaseModel \/ OnModelVersionChanged \/ PickPrecisionOrGpu
            \/ EditModelDir \/ OnScanLocalModels \/ OnLoadLocalModel
            \/ OnCheckDownloadModels
  BY <1>1, <1>2 DEF OnReleaseModel, OnModelVersionChanged, PickPrecisionOrGpu,
     EditModelDir, OnScanLocalModels, OnLoadLocalModel, OnCheckDownloadModels, tagVars, settingVars
<1>3. CASE OnDownloadV2Model \/ V2ManifestFetched \/ StartModelDownload \/ DownloadFinished
  BY <1>1, <1>3 DEF OnDownloadV2Model, V2ManifestFetched, StartModelDownload,
     DownloadFinished, tagVars, settingVars
<1>4. CASE OnTableDoubleClick
  BY <1>4 DEF OnTableDoubleClick, tagVars
<1>5. CASE OnTagSelected
  BY <1>5, NoManifestTyped DEF OnTagSelected, settingVars, ClearTable
<1>6. CASE TagSelected
  <2>1. Top.tag \in Tags
    BY <1>6, BelowShrinks DEF TagSelected, TopIs, Frames
  <2> QED
    BY <1>6, <2>1 DEF TagSelected, settingVars
<1>7. CASE OnRefreshTags
  BY <1>7, NoManifestTyped DEF OnRefreshTags, settingVars, ClearTable
<1>8. CASE TagsFetched
  BY <1>8, NoManifestTyped, MainWindowAssumption DEF TagsFetched, settingVars, ClearTable
<1>9. CASE TagReselected
  BY <1>1, <1>9 DEF TagReselected, settingVars
<1>10. CASE GetImage \/ AddToBatch \/ OnBatchRecognize \/ OnBatchClear
  BY <1>1, <1>10 DEF GetImage, AddToBatch, OnBatchRecognize, OnBatchClear, tagVars, settingVars
<1>11. CASE Stopped \/ UNCHANGED vars
  BY <1>1, <1>11 DEF Stopped, vars, tagVars, settingVars
<1> QED
  BY <1>2, <1>3, <1>4, <1>5, <1>6, <1>7, <1>8, <1>9, <1>10, <1>11 DEF Next

(* A frame that moves on is a frame at its new place. *)
LEMMA PlaceOfFrame ==
  \A f \in Frames, p \in Places :
    [f EXCEPT !.at = p] \in Frames /\ [f EXCEPT !.at = p].at = p
  BY DEF Frames

(* The places named in the actions are places. *)
LEMMA PlaceNames == /\ "select" \in Places /\ "refresh" \in Places /\ "reselect" \in Places
                    /\ "v2 manifest" \in Places /\ "v1 transfer" \in Places
                    /\ "v2 transfer" \in Places
  BY DEF Places

(* A slot that selects a tag begins with a frame of its own. *)
LEMMA SelectFrame ==
  \A t \in Tags : Frame("select", t, TRUE) \in Frames /\ Frame("select", t, TRUE).at = "select"
  BY PlaceNames DEF Frame, Frames

(* A sequence with its last element replaced by one or two.                  *)
LEMMA OneMore ==
  ASSUME NEW s \in Seq(Frames), NEW f \in Frames, NEW n \in Nat, Len(s) = n - 1
  PROVE  /\ Append(s, f) \in Seq(Frames) /\ Len(Append(s, f)) = n
         /\ Append(s, f)[n] = f
         /\ \A i \in 1..(n - 1) : Append(s, f)[i] = s[i]
  OBVIOUS

(* Two frames more on a stack that ends a refresh. *)
LEMMA TwoMore ==
  ASSUME NEW s \in Seq(Frames), NEW f \in Frames, NEW g \in Frames,
         NEW n \in Nat, Len(s) = n - 1
  PROVE  /\ s \o <<f, g>> \in Seq(Frames) /\ Len(s \o <<f, g>>) = n + 1
         /\ (s \o <<f, g>>)[n] = f /\ (s \o <<f, g>>)[n + 1] = g
         /\ \A i \in 1..(n - 1) : (s \o <<f, g>>)[i] = s[i]
  OBVIOUS

(* Each action of the window does one of these to the stack.                 *)
LEMMA StackMoves ==
  ASSUME Typed, [Next]_vars
  PROVE  Step /\ frames' \in Seq(Frames)
<1> USE DEF Step
<1>1. CASE UNCHANGED frames /\ UNCHANGED <<downloadVars, refresh_enabled>>
  BY <1>1, SameStackStays
<1>2. CASE OnReleaseModel \/ OnModelVersionChanged \/ PickPrecisionOrGpu
            \/ EditModelDir \/ OnScanLocalModels \/ OnLoadLocalModel
  BY <1>1, <1>2 DEF OnReleaseModel, OnModelVersionChanged, PickPrecisionOrGpu,
     EditModelDir, OnScanLocalModels, OnLoadLocalModel, tagVars
<1>3. CASE OnDownloadV2Model
  <2>1. v2_tag \in Tags
    BY DEF Typed
  <2>2. Grows("v2 manifest") /\ frames' \in Seq(Frames)
    BY <1>3, <2>1, PushGrows, PlaceNames DEF OnDownloadV2Model
  <2> QED
    BY <1>3, <2>1, <2>2 DEF OnDownloadV2Model, AsksForV2, NotDownloading, tagVars
<1>4. CASE OnTableDoubleClick
  <2>1. manifest.tag \in Tags
    BY DEF Typed
  <2>2. UNCHANGED <<downloadVars, refresh_enabled>>
    BY <1>4 DEF OnTableDoubleClick, tagVars
  <2>3. CASE NotDownloading
    <3>1. Grows("v2 manifest") /\ frames' \in Seq(Frames)
      BY <1>4, <2>1, <2>3, PushGrows, PlaceNames DEF OnTableDoubleClick
    <3> QED
      BY <2>2, <2>3, <3>1 DEF AsksForV2, NotDownloading
  <2>4. CASE ~NotDownloading
    BY <1>1, <1>4, <2>2, <2>4 DEF OnTableDoubleClick
  <2> QED
    BY <2>3, <2>4
<1>5. CASE V2ManifestFetched
  <2>1. frames # <<>> /\ Top.at = "v2 manifest" /\ AtTop({"v2 manifest"})
    BY <1>5 DEF V2ManifestFetched, TopIs, Top, AtTop
  <2>2. CASE Pop /\ UNCHANGED downloadVars
    BY <1>5, <2>1, <2>2, PopShrinks, TopPlaces DEF V2ManifestFetched, Returns, tagVars
  <2>3. CASE /\ frames' = Append(Below, [Top EXCEPT !.at = "v2 transfer"])
             /\ download_active' = TRUE /\ check_enabled' = FALSE /\ v2_enabled' = FALSE
    <3>1. [Top EXCEPT !.at = "v2 transfer"] \in Frames
            /\ [Top EXCEPT !.at = "v2 transfer"].at = "v2 transfer"
      BY <2>1, BelowShrinks, PlaceOfFrame, PlaceNames
    <3>2. \A f \in Frames : /\ Append(Below, f) \in Seq(Frames)
                           /\ Len(Append(Below, f)) = Len(frames)
                           /\ Append(Below, f)[Len(frames)] = f
                           /\ \A i \in 1..(Len(frames) - 1) : Append(Below, f)[i] = frames[i]
      <4>1. Below \in Seq(Frames) /\ Len(Below) = Len(frames) - 1 /\ Len(frames) \in Nat
              /\ \A i \in 1..(Len(frames) - 1) : Below[i] = frames[i]
        BY <2>1, BelowShrinks, LengthIsNatural
      <4> QED
        BY <4>1, OneMore
    <3>3. Moves("v2 transfer") /\ frames' \in Seq(Frames)
      BY <2>1, <2>3, <3>1, <3>2, BelowShrinks DEF Moves, Same
    <3> QED
      BY <1>5, <2>1, <2>3, <3>3 DEF V2ManifestFetched, SendsV2, tagVars
  <2> QED
    BY <1>5, <2>2, <2>3 DEF V2ManifestFetched
<1>6. CASE StartModelDownload
  <2>1. Grows("v1 transfer") /\ frames' \in Seq(Frames)
    BY <1>6, NoneIsTag, PushGrows, PlaceNames DEF StartModelDownload
  <2> QED
    BY <1>6, <2>1 DEF StartModelDownload, SendsV1, tagVars
<1>7. CASE OnCheckDownloadModels
  <2>1. v2_tag \in Tags
    BY DEF Typed
  <2>2. UNCHANGED <<downloadVars, refresh_enabled>> /\ ~download_active
    BY <1>7 DEF OnCheckDownloadModels, tagVars
  <2>3. CASE UNCHANGED frames
    BY <1>1, <2>2, <2>3
  <2>4. CASE Push(Frame("v2 manifest", v2_tag, TRUE))
    <3>1. Grows("v2 manifest") /\ frames' \in Seq(Frames)
      BY <2>1, <2>4, PushGrows, PlaceNames
    <3> QED
      BY <2>2, <3>1 DEF AsksForV2
  <2> QED
    BY <1>7, <2>3, <2>4 DEF OnCheckDownloadModels
<1>8. CASE DownloadFinished
  <2>1. frames # <<>> /\ AtTop(Transfers) /\ (Top.at = "v2 transfer" <=> AtTop({"v2 transfer"}))
    BY <1>8 DEF DownloadFinished, TopIs, Top, AtTop, Transfers
  <2>2. download_active' = FALSE /\ check_enabled' = TRUE /\ UNCHANGED refresh_enabled
    BY <1>8 DEF DownloadFinished, FinishDownload, tagVars
  <2>3. v2_enabled' = (v2_enabled \/ AtTop({"v2 transfer"}))
    BY <1>8, <2>1 DEF DownloadFinished, EnableV2
  <2> QED
    BY <1>8, <2>1, <2>2, <2>3, PopShrinks DEF DownloadFinished, Ends
<1>9. CASE OnTagSelected
  <2>1. UNCHANGED <<downloadVars, refresh_enabled>>
    BY <1>9 DEF OnTagSelected
  <2>2. PICK i \in (0..Len(tags)) \ {index} :
          IF i = 0 THEN UNCHANGED frames ELSE Push(Frame("select", tags[i], TRUE))
    BY <1>9 DEF OnTagSelected
  <2>3. CASE i = 0
    BY <1>1, <2>1, <2>2, <2>3
  <2>4. CASE i # 0
    <3>1. tags[i] \in Tags
      BY <2>4 DEF Typed
    <3>2. Grows("select") /\ frames' \in Seq(Frames)
      BY <2>2, <2>4, <3>1, PushGrows, PlaceNames
    <3> QED
      BY <2>1, <3>2 DEF Selects
  <2> QED
    BY <2>3, <2>4
<1>10. CASE TagSelected
  <2>1. frames # <<>> /\ ~AtTop(Transfers) /\ ~AtTop(Fetches)
    BY <1>10 DEF TagSelected, TopIs, Top, AtTop, Transfers, Fetches
  <2> QED
    BY <1>10, <2>1, PopShrinks DEF TagSelected, Returns
<1>11. CASE OnRefreshTags
  <2>1. Grows("refresh") /\ frames' \in Seq(Frames)
    BY <1>11, NoneIsTag, PushGrows, PlaceNames DEF OnRefreshTags
  <2> QED
    BY <1>11, <2>1 DEF OnRefreshTags, Refreshes
<1>12. CASE TagsFetched
  <2>1. frames # <<>> /\ Top.at = "refresh" /\ AtTop({"refresh"}) /\ AtTop(Fetches)
    BY <1>12 DEF TagsFetched, TopIs, Top, AtTop, Fetches
  <2>2. UNCHANGED downloadVars
    BY <1>12 DEF TagsFetched
  <2>3. /\ Stale(Below) \in Seq(Frames) /\ Len(Stale(Below)) = Len(frames) - 1
        /\ Len(frames) > 0
        /\ \A i \in 1..(Len(frames) - 1) : Stale(Below)[i].at = frames[i].at
    BY <2>1, BelowShrinks, StaleKeeps
  <2>4. CASE frames' = Stale(Below) /\ refresh_enabled' = TRUE
    <3>1. Shrinks
      BY <2>3, <2>4 DEF Shrinks, Same
    <3> QED
      BY <2>1, <2>2, <2>3, <2>4, <3>1 DEF Refreshed
  <2>5. CASE /\ refresh_enabled' = FALSE
             /\ frames' = Stale(Below) \o <<[Top EXCEPT !.at = "reselect"],
                                           Frame("select", v2_tag, TRUE)>>
    <3> DEFINE one == [Top EXCEPT !.at = "reselect"]
               two == Frame("select", v2_tag, TRUE)
    <3>1. one \in Frames /\ one.at = "reselect"
      BY <2>1, BelowShrinks, PlaceOfFrame, PlaceNames
    <3>2. two \in Frames /\ two.at = "select"
      BY SelectFrame DEF Typed
    <3>3. frames' = Stale(Below) \o <<one, two>>
      BY <2>5
    <3> HIDE DEF one, two
    <3>4. /\ frames' \in Seq(Frames) /\ Len(frames') = Len(frames) + 1
          /\ \A i \in 1..(Len(frames) - 1) : frames'[i] = Stale(Below)[i]
          /\ frames'[Len(frames)] = one /\ frames'[Len(frames) + 1] = two
      BY <2>3, <3>1, <3>2, <3>3, TwoMore, LengthIsNatural
    <3>5. Reselects
      BY <2>3, <3>1, <3>2, <3>4 DEF Reselects, Same
    <3> QED
      BY <2>1, <2>2, <2>5, <3>4, <3>5 DEF SelectsAgain
  <2> QED
    BY <1>12, <2>4, <2>5 DEF TagsFetched
<1>13. CASE TagReselected
  <2>1. frames # <<>> /\ AtTop(Fetches)
    BY <1>13 DEF TagReselected, TopIs, Top, AtTop, Fetches
  <2> QED
    BY <1>13, <2>1, PopShrinks DEF TagReselected, Refreshed
<1>14. CASE GetImage \/ AddToBatch \/ OnBatchRecognize \/ OnBatchClear
  BY <1>1, <1>14 DEF GetImage, AddToBatch, OnBatchRecognize, OnBatchClear, tagVars
<1>15. CASE Stopped \/ UNCHANGED vars
  BY <1>1, <1>15 DEF Stopped, vars, tagVars
<1> QED
  BY <1>2, <1>3, <1>4, <1>5, <1>6, <1>7, <1>8, <1>9, <1>10, <1>11, <1>12, <1>13,
     <1>14, <1>15 DEF Next

(* Every step keeps the flag and the buttons truth values. *)
LEMMA FlagsAreBoolean ==
  ASSUME Typed, Step
  PROVE  /\ download_active' \in BOOLEAN /\ check_enabled' \in BOOLEAN
         /\ v2_enabled' \in BOOLEAN /\ refresh_enabled' \in BOOLEAN
<1> USE DEF Typed, downloadVars
<1>1. CASE Selects \/ Rests \/ Returns \/ AsksForV2
  BY <1>1 DEF Selects, Rests, Returns, AsksForV2
<1>2. CASE SendsV1 \/ SendsV2
  BY <1>2 DEF SendsV1, SendsV2
<1>3. CASE Ends
  BY <1>3 DEF Ends
<1>4. CASE Refreshes \/ Refreshed \/ SelectsAgain
  BY <1>4 DEF Refreshes, Refreshed, SelectsAgain
<1> QED
  BY <1>1, <1>2, <1>3, <1>4 DEF Step

(* What the stack, the flag and the buttons have to do with one another.     *)
THEOREM StackInvariant == Spec => []StackInv
<1>1. Init => StackInv
  <2> SUFFICES ASSUME Init PROVE StackInv
    OBVIOUS
  <2>1. frames = <<>> /\ Len(frames) = 0 /\ 1..Len(frames) = {}
    BY DEF Init
  <2>2. Typed
    <3>1. frames \in Seq(Frames) /\ tags \in Seq(Tags)
      BY <2>1 DEF Init
    <3>2. v2_tag \in Tags /\ manifest \in [tag : Tags, models : SUBSET Backbones]
      BY NoneIsTag, NoManifestTyped DEF Init, Tags
    <3> QED
      BY <3>1, <3>2 DEF Init, Typed
  <2>3. ~Sending /\ ~SendingV2 /\ ~Asking
    BY <2>1 DEF Sending, SendingV2, Asking, Waits
  <2>4. Exclusive /\ Apart(Fetches, Fetches)
    BY <2>1 DEF Exclusive, Apart
  <2> QED
    BY <2>2, <2>3, <2>4 DEF Init, StackInv, Downloading, Fetching
<1>2. StackInv /\ [Next]_vars => StackInv'
  <2> SUFFICES ASSUME StackInv, [Next]_vars PROVE StackInv'
    OBVIOUS
  <2>1. Typed /\ Downloading /\ Fetching
    BY DEF StackInv
  <2>2. Step /\ frames' \in Seq(Frames) /\ TagsTyped'
    BY <2>1, StackMoves, TagsStay
  <2>3. Typed'
    BY <2>1, <2>2, FlagsAreBoolean DEF Typed, TagsTyped
  <2>4. Downloading'
    BY <2>1, <2>2, ExclusiveStays, FlagsStay DEF Step, Downloading
  <2>5. Fetching'
    BY <2>1, <2>2, FetchingStays DEF Step
  <2> QED
    BY <2>3, <2>4, <2>5 DEF StackInv
<1> QED
  BY <1>1, <1>2, PTL DEF Spec

(* The frames that are transferring, by their index. *)
LEMMA TransfersAreFrames ==
  Typed => /\ Transferring = {i \in 1..Len(frames) : frames[i].at \in Transfers}
           /\ Sending <=> Transferring # {}
<1> SUFFICES ASSUME Typed
             PROVE  /\ Transferring = {i \in 1..Len(frames) : frames[i].at \in Transfers}
                    /\ Sending <=> Transferring # {}
  OBVIOUS
<1>1. DOMAIN frames = 1..Len(frames)
  BY DEF Typed
<1>2. Transferring = {i \in 1..Len(frames) : frames[i].at \in Transfers}
  BY <1>1 DEF Transferring, Transfers
<1>3. Sending <=> Transferring # {}
  BY <1>2 DEF Sending, Waits
<1> QED
  BY <1>2, <1>3

(* However deep the slots are nested, at most one of them downloads, and the *)
(* flag says whether one does (download_active_, tested before the events    *)
(* and set after them in downloadV2Model).                                   *)
THEOREM DownloadsExclude == Spec => []OneDownloadAtATime
<1>1. StackInv => OneDownloadAtATime
  <2> SUFFICES ASSUME StackInv PROVE OneDownloadAtATime
    OBVIOUS
  <2>1. Typed /\ Exclusive /\ (download_active <=> Sending) /\ download_active \in BOOLEAN
    BY DEF StackInv, Downloading, Typed
  <2>2. \A i, j \in Transferring : i = j
    <3> SUFFICES ASSUME NEW i \in Transferring, NEW j \in Transferring, i < j PROVE FALSE
      BY <2>1, TransfersAreFrames, LengthIsNatural
    <3> QED
      BY <2>1, TransfersAreFrames DEF Exclusive, Apart
  <2>3. Cardinality(Transferring) <= 1
    <3>1. CASE Transferring = {}
      BY <3>1, FS_EmptySet
    <3>2. CASE Transferring # {}
      <4>1. PICK i : Transferring = {i}
        BY <2>2, <3>2
      <4> QED
        BY <4>1, FS_Singleton
    <3> QED
      BY <3>1, <3>2
  <2>4. download_active = (Transferring # {})
    BY <2>1, TransfersAreFrames
  <2> QED
    BY <2>3, <2>4 DEF OneDownloadAtATime
<1> QED
  BY <1>1, StackInvariant, PTL

(* However deep the slots are nested, a button is disabled only while the    *)
(* slot that disabled it waits (the ends of the two downloads and of         *)
(* onRefreshTags).                                                           *)
THEOREM NoButtonIsLost == Spec => []ButtonsComeBack
<1>1. StackInv => ButtonsComeBack
  <2> SUFFICES ASSUME StackInv PROVE ButtonsComeBack
    OBVIOUS
  <2>1. Typed /\ Downloading /\ Fetching
    BY DEF StackInv
  <2>2. check_enabled \in BOOLEAN /\ v2_enabled \in BOOLEAN /\ refresh_enabled \in BOOLEAN
    BY <2>1 DEF Typed
  <2>3. DOMAIN frames = 1..Len(frames)
    BY <2>1 DEF Typed
  <2>4. check_enabled = (Transferring = {})
    BY <2>1, <2>2, TransfersAreFrames DEF Downloading
  <2>5. SendingV2 <=> ~\A i \in Transferring : frames[i].at # "v2 transfer"
    BY <2>1, TransfersAreFrames DEF SendingV2, Waits, Transfers
  <2>6. Asking <=> ~\A i \in DOMAIN frames : frames[i].at \notin {"refresh", "reselect"}
    BY <2>3 DEF Asking, Waits, Fetches
  <2>7. v2_enabled = (\A i \in Transferring : frames[i].at # "v2 transfer")
    BY <2>1, <2>2, <2>5 DEF Downloading
  <2>8. refresh_enabled = (\A i \in DOMAIN frames : frames[i].at \notin {"refresh", "reselect"})
    BY <2>1, <2>2, <2>6 DEF Fetching
  <2> QED
    BY <2>4, <2>7, <2>8 DEF ButtonsComeBack
<1> QED
  BY <1>1, StackInvariant, PTL
=============================================================================
