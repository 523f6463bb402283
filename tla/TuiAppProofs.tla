---------------------------- MODULE TuiAppProofs ----------------------------
(***************************************************************************)
(* What TuiApp promises for any releases, choices and artifacts, and any   *)
(* number of refreshes and downloads.                                      *)
(***************************************************************************)
EXTENDS TuiApp, SequenceTheorems, FiniteSetTheorems, WellFoundedInduction, TLAPS

(* ~App() joins the refresh worker before the manifest worker, which only   *)
(* the refresh worker starts, and the download worker last.                 *)
Joined ==
  /\ ui \in {"quitManifest", "quitDownload", "exited"} => rw \in NotRunning
  /\ ui \in {"quitDownload", "exited"} => mw \in NotRunning
  /\ ui = "exited" => dw \in NotRunning

(* No step starts a worker behind a join that has passed. *)
LEMMA JoinedStays ==
  ASSUME Joined, [Next]_vars
  PROVE  Joined'
<1>1. CASE PressRefresh
  BY <1>1 DEF PressRefresh, Joined, NotRunning, Running,
     uiVars, refreshVars, manifestVars, downloadVars
<1>2. CASE StartRefreshWorker
  BY <1>2 DEF StartRefreshWorker, Joined, NotRunning, Running,
     uiVars, refreshVars, manifestVars, downloadVars
<1>3. CASE PressDownload \/ DialogCancel
  BY <1>3 DEF PressDownload, DialogCancel, Joined, NotRunning, Running,
     uiVars, refreshVars, manifestVars, downloadVars
<1>4. ASSUME NEW c \in Options, DialogConfirm(c) PROVE Joined'
  BY <1>4 DEF DialogConfirm, Refuse, Joined, NotRunning, Running,
     uiVars, refreshVars, manifestVars, downloadVars
<1>5. CASE StartDownloadWorker
  BY <1>5 DEF StartDownloadWorker, Joined, NotRunning, Running,
     uiVars, refreshVars, manifestVars, downloadVars
<1>6. CASE PressQuit
  BY <1>6 DEF PressQuit, Joined, NotRunning, Running,
     uiVars, refreshVars, manifestVars, downloadVars
<1>7. CASE Quit
  BY <1>7 DEF Quit, QuitJoins, Joined, NotRunning, Running,
     uiVars, refreshVars, manifestVars, downloadVars
<1>8. CASE Crash
  BY <1>8 DEF Crash, Joined, NotRunning, Running,
     uiVars, refreshVars, manifestVars, downloadVars
<1>9. CASE RefreshFetch
  BY <1>9 DEF RefreshFetch, Joined, NotRunning, Running,
     uiVars, refreshVars, manifestVars, downloadVars
<1>10. CASE RefreshDeliver
  BY <1>10 DEF RefreshDeliver, BeingFetched, Joined, NotRunning, Running,
     uiVars, refreshVars, manifestVars, downloadVars
<1>11. CASE StartManifestWorker
  BY <1>11 DEF StartManifestWorker, Joined, NotRunning, Running,
     uiVars, refreshVars, manifestVars, downloadVars
<1>12. CASE RefreshClears \/ RefreshEnds
  BY <1>12 DEF RefreshClears, RefreshEnds, Joined, NotRunning, Running,
     uiVars, refreshVars, manifestVars, downloadVars
<1>13. CASE ManifestFetch \/ ManifestPublish
  BY <1>13 DEF ManifestFetch, ManifestPublish, Joined, NotRunning, Running,
     uiVars, refreshVars, manifestVars, downloadVars
<1>14. CASE ManifestClears \/ ManifestEnds
  BY <1>14 DEF ManifestClears, ManifestEnds, Joined, NotRunning, Running,
     uiVars, refreshVars, manifestVars, downloadVars
<1>15. CASE DownloadFind
  BY <1>15 DEF DownloadFind, Joined, NotRunning, Running,
     uiVars, refreshVars, manifestVars, downloadVars
<1>16. CASE DownloadTransfer
  BY <1>16 DEF DownloadTransfer, NextFile, Joined, NotRunning, Running,
     uiVars, refreshVars, manifestVars, downloadVars
<1>17. CASE DownloadFallback
  BY <1>17 DEF DownloadFallback, NextFile, JudgeFallback, Joined, NotRunning, Running,
     uiVars, refreshVars, manifestVars, downloadVars
<1>18. CASE DownloadFinish \/ DownloadClears
  BY <1>18 DEF DownloadFinish, DownloadClears, Joined, NotRunning, Running,
     uiVars, refreshVars, manifestVars, downloadVars
<1>19. CASE Ended
  BY <1>19 DEF Ended, vars, Joined, NotRunning, Running,
     uiVars, refreshVars, manifestVars, downloadVars
<1>20. CASE UNCHANGED vars
  BY <1>20 DEF vars, Joined, NotRunning, Running,
     uiVars, refreshVars, manifestVars, downloadVars
<1> QED
  BY <1>1, <1>2, <1>3, <1>4, <1>5, <1>6, <1>7, <1>8, <1>9,
     <1>10, <1>11, <1>12, <1>13, <1>14, <1>15, <1>16,
     <1>17, <1>18, <1>19, <1>20
     DEF Next, UiStep, RefreshStep, ManifestStep, DownloadStep

(* Quitting leaves no worker behind (App::~App).                            *)
THEOREM QuittingIsClean == Spec => []ExitIsClean
<1>1. Init => Joined
  BY DEF Init, Joined
<1>2. Joined /\ [Next]_vars => Joined'
  BY JoinedStays
<1>3. Joined => ExitIsClean
  BY DEF Joined, ExitIsClean
<1> QED
  BY <1>1, <1>2, <1>3, PTL DEF Spec

-----------------------------------------------------------------------------
(* A guard is set by whoever starts a worker, before the join, and cleared   *)
(* by the worker.  Until the worker has started, the thread that starts it   *)
(* stands in the join.                                                       *)
Guarded ==
  /\ rw \in NotRunning \cup {"post"} /\ ui \notin {"joinRefresh", "crashed"} =>
       ~refresh_busy
  /\ mw \in NotRunning \cup {"post"} /\ rw # "joinManifest" => fetching = None
  /\ dw \in NotRunning /\ ui \notin {"joinDownload", "crashed"} => dl_guard = None

(* Every step that ends a worker has its guard cleared. *)
LEMMA GuardedStays ==
  ASSUME Guarded, [Next]_vars
  PROVE  Guarded'
<1>1. CASE PressRefresh
  BY <1>1 DEF PressRefresh, Guarded, NotRunning, Running,
     uiVars, refreshVars, manifestVars, downloadVars
<1>2. CASE StartRefreshWorker
  BY <1>2 DEF StartRefreshWorker, Guarded, NotRunning, Running,
     uiVars, refreshVars, manifestVars, downloadVars
<1>3. CASE PressDownload \/ DialogCancel
  BY <1>3 DEF PressDownload, DialogCancel, Guarded, NotRunning, Running,
     uiVars, refreshVars, manifestVars, downloadVars
<1>4. ASSUME NEW c \in Options, DialogConfirm(c) PROVE Guarded'
  BY <1>4 DEF DialogConfirm, Refuse, Guarded, NotRunning, Running,
     uiVars, refreshVars, manifestVars, downloadVars
<1>5. CASE StartDownloadWorker
  BY <1>5 DEF StartDownloadWorker, Guarded, NotRunning, Running,
     uiVars, refreshVars, manifestVars, downloadVars
<1>6. CASE PressQuit
  BY <1>6 DEF PressQuit, Guarded, NotRunning, Running,
     uiVars, refreshVars, manifestVars, downloadVars
<1>7. CASE Quit
  BY <1>7 DEF Quit, QuitJoins, Guarded, NotRunning, Running,
     uiVars, refreshVars, manifestVars, downloadVars
<1>8. CASE Crash
  BY <1>8 DEF Crash, Guarded, NotRunning, Running,
     uiVars, refreshVars, manifestVars, downloadVars
<1>9. CASE RefreshFetch
  BY <1>9 DEF RefreshFetch, Guarded, NotRunning, Running,
     uiVars, refreshVars, manifestVars, downloadVars
<1>10. CASE RefreshDeliver
  BY <1>10 DEF RefreshDeliver, BeingFetched, Guarded, NotRunning, Running,
     uiVars, refreshVars, manifestVars, downloadVars
<1>11. CASE StartManifestWorker
  BY <1>11 DEF StartManifestWorker, Guarded, NotRunning, Running,
     uiVars, refreshVars, manifestVars, downloadVars
<1>12. CASE RefreshClears \/ RefreshEnds
  BY <1>12 DEF RefreshClears, RefreshEnds, Guarded, NotRunning, Running,
     uiVars, refreshVars, manifestVars, downloadVars
<1>13. CASE ManifestFetch \/ ManifestPublish
  BY <1>13 DEF ManifestFetch, ManifestPublish, Guarded, NotRunning, Running,
     uiVars, refreshVars, manifestVars, downloadVars
<1>14. CASE ManifestClears \/ ManifestEnds
  BY <1>14 DEF ManifestClears, ManifestEnds, Guarded, NotRunning, Running,
     uiVars, refreshVars, manifestVars, downloadVars
<1>15. CASE DownloadFind
  BY <1>15 DEF DownloadFind, Guarded, NotRunning, Running,
     uiVars, refreshVars, manifestVars, downloadVars
<1>16. CASE DownloadTransfer
  BY <1>16 DEF DownloadTransfer, NextFile, Guarded, NotRunning, Running,
     uiVars, refreshVars, manifestVars, downloadVars
<1>17. CASE DownloadFallback
  BY <1>17 DEF DownloadFallback, NextFile, JudgeFallback, Guarded, NotRunning, Running,
     uiVars, refreshVars, manifestVars, downloadVars
<1>18. CASE DownloadFinish \/ DownloadClears
  BY <1>18 DEF DownloadFinish, DownloadClears, Guarded, NotRunning, Running,
     uiVars, refreshVars, manifestVars, downloadVars
<1>19. CASE Ended
  BY <1>19 DEF Ended, vars, Guarded, NotRunning, Running,
     uiVars, refreshVars, manifestVars, downloadVars
<1>20. CASE UNCHANGED vars
  BY <1>20 DEF vars, Guarded, NotRunning, Running,
     uiVars, refreshVars, manifestVars, downloadVars
<1> QED
  BY <1>1, <1>2, <1>3, <1>4, <1>5, <1>6, <1>7, <1>8, <1>9,
     <1>10, <1>11, <1>12, <1>13, <1>14, <1>15, <1>16,
     <1>17, <1>18, <1>19, <1>20
     DEF Next, UiStep, RefreshStep, ManifestStep, DownloadStep

(* Every release can be refreshed and every choice downloaded again once     *)
(* the workers are gone, in whatever order they ended (app.cpp, the guards   *)
(* of the three start functions).                                            *)
THEOREM GuardsComeFree == Spec => []GuardsAreReleased
<1>1. Init => Guarded
  BY DEF Init, Guarded
<1>2. Guarded /\ [Next]_vars => Guarded'
  BY GuardedStays
<1>3. Guarded => GuardsAreReleased
  BY DEF Guarded, GuardsAreReleased, NotRunning
<1> QED
  BY <1>1, <1>2, <1>3, PTL DEF Spec

-----------------------------------------------------------------------------
(* A set of natural numbers that is not empty has a least element. *)
LEMMA LeastNumber ==
  ASSUME NEW T \in SUBSET Nat, T # {}
  PROVE  \E m \in T : \A n \in T : m <= n
<1> DEFINE R == OpToRel(<, Nat)
<1>1. IsWellFoundedOn(R, Nat)
  BY NatLessThanWellFounded
<1>2. \A x, y \in Nat : x < y => <<x, y>> \in R
  BY DEF OpToRel
<1> HIDE DEF R
<1>3. PICK m \in T : \A n \in T : ~(<<n, m>> \in R)
  BY <1>1, WFMin
<1>4. \A n \in T : ~(n < m)
  BY <1>2, <1>3
<1> QED
  BY <1>4

(* Min of a set of numbers is one of them, and none is below it. *)
LEMMA MinOfNumbers ==
  ASSUME NEW T \in SUBSET Nat, T # {}
  PROVE  Min(T) \in T /\ \A x \in T : Min(T) <= x
BY LeastNumber DEF Min

-----------------------------------------------------------------------------
(* Segments whose digits fit, and tags made of them: numbers that fit an    *)
(* int, as those of a version someone meant do.                             *)
PlainSegments == {a \in Segments : a.kind # "huge"}
PlainTags == {t \in Tags : t.nums \in Seq(0..MaxInt) /\ t.pre \in Seq(PlainSegments)}

(* The first number that differs decides. *)
LEMMA NumbersOrder ==
  ASSUME NEW s, NEW t
  PROVE  NumbersLess(s, t) <=>
           \/ s[1] < t[1]
           \/ s[1] = t[1] /\ s[2] < t[2]
           \/ s[1] = t[1] /\ s[2] = t[2] /\ s[3] < t[3]
<1>1. 1..3 = {1, 2, 3} /\ 1..(1 - 1) = {} /\ 1..(2 - 1) = {1} /\ 1..(3 - 1) = {1, 2}
  OBVIOUS
<1> DEFINE At(i) == s[i] < t[i] /\ \A j \in 1..(i - 1) : s[j] = t[j]
<1>2. NumbersLess(s, t) <=> At(1) \/ At(2) \/ At(3)
  BY <1>1, Zenon DEF NumbersLess
<1>3. /\ At(1) <=> s[1] < t[1]
      /\ At(2) <=> s[1] = t[1] /\ s[2] < t[2]
      /\ At(3) <=> s[1] = t[1] /\ s[2] = t[2] /\ s[3] < t[3]
  BY <1>1
<1> HIDE DEF At
<1> QED
  BY <1>2, <1>3

(* Plain segments are ordered, and those of one place are the same to it. *)
LEMMA SegmentOrder ==
  ASSUME NEW a \in PlainSegments, NEW b \in PlainSegments, NEW c \in PlainSegments
  PROVE  /\ ~SegmentLess(a, a)
         /\ SegmentLess(a, b) /\ SegmentLess(b, c) => SegmentLess(a, c)
         /\ SameSegment(a, b) /\ SegmentLess(b, c) => SegmentLess(a, c)
         /\ SegmentLess(a, b) /\ SameSegment(b, c) => SegmentLess(a, c)
         /\ SameSegment(a, b) /\ SameSegment(b, c) => SameSegment(a, c)
         /\ SameSegment(a, b) => SameSegment(b, a)
         /\ SameSegment(a, b) \/ SegmentLess(a, b) \/ SegmentLess(b, a)
<1>1. /\ a.kind \in {"number", "word"} /\ a.value \in Int /\ a.rank \in Int
      /\ b.kind \in {"number", "word"} /\ b.value \in Int /\ b.rank \in Int
      /\ c.kind \in {"number", "word"} /\ c.value \in Int /\ c.rank \in Int
  BY DEF PlainSegments, Segments
<1> QED
  BY <1>1, SMTT(30) DEF SegmentLess, SameSegment

(* The order of pre-releases is transitive. *)
LEMMA PrereleaseTransitive ==
  ASSUME NEW s \in Seq(PlainSegments), NEW t \in Seq(PlainSegments),
         NEW r \in Seq(PlainSegments), PrereleaseLess(s, t), PrereleaseLess(t, r)
  PROVE  PrereleaseLess(s, r)
<1>0. /\ Len(s) \in Nat /\ Len(t) \in Nat /\ Len(r) \in Nat
      /\ \A k \in 1..Len(s) : s[k] \in PlainSegments
      /\ \A k \in 1..Len(t) : t[k] \in PlainSegments
      /\ \A k \in 1..Len(r) : r[k] \in PlainSegments
  BY LenProperties, ElementOfSeq
<1>1. PICK m \in Nat :
        /\ m \in 1..Len(t)
        /\ m <= Len(s) + 1
        /\ \A k \in 1..(m - 1) : SameSegment(s[k], t[k])
        /\ m <= Len(s) => SegmentLess(s[m], t[m])
  BY <1>0 DEF PrereleaseLess
<1>2. PICK n \in Nat :
        /\ n \in 1..Len(r)
        /\ n <= Len(t) + 1
        /\ \A k \in 1..(n - 1) : SameSegment(t[k], r[k])
        /\ n <= Len(t) => SegmentLess(t[n], r[n])
  BY <1>0 DEF PrereleaseLess
<1>3. m \in Nat \ {0} /\ m <= Len(t) /\ n \in Nat \ {0} /\ n <= Len(r)
  BY <1>0, <1>1, <1>2
<1>9. /\ \A k \in 1..(m - 1) : k \in 1..Len(s) /\ k \in 1..Len(t)
      /\ \A k \in 1..(n - 1) : k \in 1..Len(t) /\ k \in 1..Len(r)
  <2>1. m <= Len(s) + 1 /\ n <= Len(t) + 1
    BY <1>1, <1>2
  <2> QED
    BY <1>0, <1>3, <2>1
<1>4. CASE m <= n
  <2>1. m \in 1..Len(r) /\ \A k \in 1..(m - 1) : k \in 1..(n - 1)
    BY <1>0, <1>3, <1>4
  <2>2. \A k \in 1..(m - 1) : SameSegment(s[k], r[k])
    <3> TAKE k \in 1..(m - 1)
    <3>1. k \in 1..Len(s) /\ k \in 1..Len(t) /\ k \in 1..Len(r) /\ k \in 1..(n - 1)
      BY <1>9, <2>1
    <3> QED
      BY <1>0, <1>1, <1>2, <3>1, SegmentOrder
  <2>3. ASSUME m <= Len(s) PROVE SegmentLess(s[m], r[m])
    <3>1. m \in 1..Len(s) /\ m \in 1..Len(t) /\ m \in 1..Len(r)
      BY <1>0, <1>3, <2>1, <2>3
    <3>2. SegmentLess(s[m], t[m])
      BY <1>1, <2>3
    <3>3. CASE m = n
      BY <1>0, <1>2, <1>3, <3>1, <3>2, <3>3, SegmentOrder
    <3>4. CASE m # n
      <4>1. m \in 1..(n - 1)
        BY <1>0, <1>3, <1>4, <3>4
      <4> QED
        BY <1>0, <1>2, <3>1, <3>2, <4>1, SegmentOrder
    <3> QED
      BY <3>3, <3>4
  <2> QED
    BY <1>1, <2>1, <2>2, <2>3 DEF PrereleaseLess
<1>5. CASE n < m
  <2>1. /\ n <= Len(s) + 1
        /\ n <= Len(t)
        /\ \A k \in 1..(n - 1) : k \in 1..(m - 1)
    <3>1. Len(s) \in Nat /\ Len(t) \in Nat /\ m <= Len(s) + 1 /\ m <= Len(t)
      BY <1>0, <1>1, <1>3
    <3> QED
      BY <1>5, <3>1
  <2>2. n \in 1..(m - 1) /\ n \in 1..Len(s) /\ n \in 1..Len(t) /\ n \in 1..Len(r)
    BY <1>0, <1>2, <1>3, <1>5, <1>9
  <2>3. \A k \in 1..(n - 1) : SameSegment(s[k], r[k])
    <3> TAKE k \in 1..(n - 1)
    <3>1. k \in 1..Len(s) /\ k \in 1..Len(t) /\ k \in 1..Len(r) /\ k \in 1..(m - 1)
      BY <1>9, <2>1
    <3> QED
      BY <1>0, <1>1, <1>2, <3>1, SegmentOrder
  <2>4. SegmentLess(s[n], r[n])
    <3>1. SameSegment(s[n], t[n]) /\ SegmentLess(t[n], r[n])
      BY <1>1, <1>2, <2>1, <2>2
    <3> QED
      BY <1>0, <2>2, <3>1, SegmentOrder
  <2> QED
    BY <1>2, <2>1, <2>3, <2>4 DEF PrereleaseLess
<1> QED
  BY <1>3, <1>4, <1>5

(* Two pre-releases it does not order are the same segment by segment. *)
SamePrerelease(s, t) ==
  Len(s) = Len(t) /\ \A k \in 1..Len(s) : SameSegment(s[k], t[k])

(* Of any two, one is below the other, or they are the same. *)
LEMMA PrereleaseTotal ==
  ASSUME NEW s \in Seq(PlainSegments), NEW t \in Seq(PlainSegments)
  PROVE  SamePrerelease(s, t) \/ PrereleaseLess(s, t) \/ PrereleaseLess(t, s)
<1>0. /\ Len(s) \in Nat /\ Len(t) \in Nat
      /\ \A k \in 1..Len(s) : s[k] \in PlainSegments
      /\ \A k \in 1..Len(t) : t[k] \in PlainSegments
  BY LenProperties, ElementOfSeq
<1> DEFINE Same(i) == i <= Len(s) /\ i <= Len(t) /\ SameSegment(s[i], t[i])
           D == {i \in Nat \ {0} : ~Same(i)}
<1>1. Len(s) + 1 \in D
  BY <1>0
<1>2. PICK i \in D : \A k \in D : i <= k
  <2>1. D \in SUBSET Nat /\ D # {}
    BY <1>1
  <2> HIDE DEF D
  <2> QED BY <2>1, LeastNumber
<1>3. \A k \in 1..(i - 1) : Same(k)
  <2> TAKE k \in 1..(i - 1)
  <2>1. k \in Nat \ {0} /\ ~(i <= k)
    OBVIOUS
  <2> HIDE DEF Same
  <2> QED BY <1>2, <2>1
<1>4. i \in Nat \ {0} /\ ~Same(i)
  OBVIOUS
<1>5. i <= Len(s) + 1 /\ i <= Len(t) + 1
  <2>1. i # 1 => Same(i - 1)
    <3> HIDE DEF Same, D
    <3>1. i # 1 => i - 1 \in 1..(i - 1)
      BY <1>4
    <3> QED BY <1>3, <3>1
  <2>2. i # 1 => i - 1 <= Len(s) /\ i - 1 <= Len(t)
    BY <2>1
  <2> HIDE DEF Same, D
  <2> QED
    BY <1>0, <1>4, <2>2
<1>6. \A k \in 1..(i - 1) : SameSegment(s[k], t[k])
  BY <1>3
<1>11. \A k \in 1..(i - 1) : k \in 1..Len(s) /\ k \in 1..Len(t)
  BY <1>0, <1>3
<1> HIDE DEF D, Same
<1>12. \A k \in 1..(i - 1) : SameSegment(t[k], s[k])
  BY <1>0, <1>6, <1>11, SegmentOrder
<1>7. CASE i <= Len(s) /\ i <= Len(t)
  <2>1. i \in 1..Len(s) /\ i \in 1..Len(t)
    BY <1>0, <1>4, <1>7
  <2>2. ~SameSegment(s[i], t[i])
    BY <1>4, <1>7 DEF Same
  <2>3. SegmentLess(s[i], t[i]) \/ SegmentLess(t[i], s[i])
    BY <2>2 DEF SameSegment
  <2> QED
    BY <1>5, <1>6, <1>12, <2>1, <2>3 DEF PrereleaseLess
<1>8. CASE ~(i <= Len(s)) /\ i <= Len(t)
  <2>1. i \in 1..Len(t)
    BY <1>0, <1>4, <1>8
  <2> QED
    BY <1>5, <1>6, <1>8, <2>1 DEF PrereleaseLess
<1>9. CASE i <= Len(s) /\ ~(i <= Len(t))
  <2>1. i \in 1..Len(s)
    BY <1>0, <1>4, <1>9
  <2> QED
    BY <1>5, <1>9, <1>12, <2>1 DEF PrereleaseLess
<1>10. CASE ~(i <= Len(s)) /\ ~(i <= Len(t))
  <2>1. Len(s) = i - 1 /\ Len(t) = i - 1
    BY <1>0, <1>4, <1>5, <1>10
  <2> QED
    BY <1>6, <2>1 DEF SamePrerelease
<1> QED
  BY <1>7, <1>8, <1>9, <1>10

(* What a sort needs: the order is asymmetric, and what two pre-releases are *)
(* ordered by tells a third one from one of them.                            *)
LEMMA PrereleaseWeak ==
  ASSUME NEW s \in Seq(PlainSegments), NEW t \in Seq(PlainSegments),
         NEW r \in Seq(PlainSegments), PrereleaseLess(s, t)
  PROVE  ~PrereleaseLess(t, s) /\ (PrereleaseLess(s, r) \/ PrereleaseLess(r, t))
<1>0. /\ Len(s) \in Nat /\ Len(t) \in Nat /\ Len(r) \in Nat
      /\ \A k \in 1..Len(s) : s[k] \in PlainSegments
      /\ \A k \in 1..Len(t) : t[k] \in PlainSegments
      /\ \A k \in 1..Len(r) : r[k] \in PlainSegments
  BY LenProperties, ElementOfSeq
<1>1. ~PrereleaseLess(s, s)
  <2> SUFFICES ASSUME NEW i \in 1..Len(s), i <= Len(s) => SegmentLess(s[i], s[i])
               PROVE  FALSE
    BY DEF PrereleaseLess
  <2>1. i <= Len(s)
    BY <1>0
  <2> QED
    BY <1>0, <2>1, SegmentOrder
<1>2. ~PrereleaseLess(t, s)
  BY <1>1, PrereleaseTransitive
<1>3. CASE SamePrerelease(s, r)
  <2>1. PICK i \in 1..Len(t) :
          /\ i <= Len(s) + 1
          /\ \A j \in 1..(i - 1) : SameSegment(s[j], t[j])
          /\ i <= Len(s) => SegmentLess(s[i], t[i])
    BY DEF PrereleaseLess
  <2>2. Len(s) = Len(r) /\ \A k \in 1..Len(s) : SameSegment(r[k], s[k])
    BY <1>0, <1>3, SegmentOrder DEF SamePrerelease
  <2>3. \A j \in 1..(i - 1) : SameSegment(r[j], t[j])
    <3> TAKE j \in 1..(i - 1)
    <3>1. j \in 1..Len(s) /\ j \in 1..Len(t) /\ j \in 1..Len(r)
      BY <1>0, <2>1, <2>2
    <3> QED
      BY <1>0, <2>1, <2>2, <3>1, SegmentOrder
  <2>4. ASSUME i <= Len(r) PROVE SegmentLess(r[i], t[i])
    <3>1. i \in 1..Len(s) /\ i \in 1..Len(r)
      BY <1>0, <2>2, <2>4
    <3> QED
      BY <1>0, <2>1, <2>2, <2>4, <3>1, SegmentOrder
  <2>5. PrereleaseLess(r, t)
    <3>1. i <= Len(r) + 1 /\ (i <= Len(r) => SegmentLess(r[i], t[i]))
      BY <2>1, <2>2, <2>4
    <3> QED
      BY <2>3, <3>1 DEF PrereleaseLess
  <2> QED
    BY <1>2, <2>5
<1>4. CASE PrereleaseLess(r, s)
  BY <1>2, <1>4, PrereleaseTransitive
<1> QED
  BY <1>2, <1>3, <1>4, PrereleaseTotal

(* What a plain tag is made of. *)
LEMMA PlainTag ==
  ASSUME NEW a \in PlainTags
  PROVE  /\ a \in Tags /\ a.rank \in Int /\ a.pre \in Seq(PlainSegments)
         /\ IsSemVer(a) => /\ a.nums[1] \in 0..MaxInt
                           /\ a.nums[2] \in 0..MaxInt
                           /\ a.nums[3] \in 0..MaxInt
<1>1. a \in Tags /\ a.nums \in Seq(0..MaxInt) /\ a.pre \in Seq(PlainSegments)
  BY DEF PlainTags
<1>2. a.rank \in Int
  BY <1>1 DEF Tags
<1>3. ASSUME IsSemVer(a), NEW i \in 1..3 PROVE a.nums[i] \in 0..MaxInt
  BY <1>1, <1>3, LenProperties, ElementOfSeq DEF IsSemVer
<1> QED
  BY <1>1, <1>2, <1>3

(* Equal numbers are the same list of numbers. *)
LEMMA SameNumbers ==
  ASSUME NEW a \in PlainTags, NEW b \in PlainTags, IsSemVer(a), IsSemVer(b)
  PROVE  a.nums = b.nums <=> /\ a.nums[1] = b.nums[1]
                             /\ a.nums[2] = b.nums[2]
                             /\ a.nums[3] = b.nums[3]
<1>1. a.nums \in Seq(0..MaxInt) /\ b.nums \in Seq(0..MaxInt)
  BY DEF PlainTags
<1>2. ASSUME a.nums[1] = b.nums[1], a.nums[2] = b.nums[2], a.nums[3] = b.nums[3]
      PROVE  a.nums = b.nums
  <2>1. \A i \in 1..3 : a.nums[i] = b.nums[i]
    BY <1>2
  <2> QED
    BY <1>1, <2>1, SeqEqual DEF IsSemVer
<1> QED
  BY <1>2

(* The order of two versions, by their numbers first. *)
LEMMA SemVerWeak ==
  ASSUME NEW a \in PlainTags, NEW b \in PlainTags, NEW c \in PlainTags,
         IsSemVer(a), IsSemVer(b), IsSemVer(c), SemVerLess(a, b)
  PROVE  ~SemVerLess(b, a) /\ (SemVerLess(a, c) \/ SemVerLess(c, b))
<1> DEFINE N(x, y) == NumbersLess(x.nums, y.nums)
           E(x, y) == x.nums = y.nums
           P(x, y) == PrereleaseLess(x.pre, y.pre)
           R(x) == x.pre = <<>>
           L(x, y) == \/ N(x, y)
                      \/ E(x, y) /\ ~R(x) /\ R(y)
                      \/ E(x, y) /\ ~R(x) /\ ~R(y) /\ P(x, y)
<1>1. \A x, y : SemVerLess(x, y) <=> L(x, y)
  BY DEF SemVerLess
<1>2. /\ N(a, b) => ~N(b, a) /\ ~E(a, b) /\ ~E(b, a) /\ (N(a, c) \/ N(c, b))
      /\ E(a, b) => E(b, a) /\ ~N(b, a) /\ ~N(a, b)
      /\ E(a, b) => \/ N(a, c)
                    \/ N(c, b)
                    \/ E(a, c) /\ E(c, b)
  <2>1. /\ a.nums[1] \in Int /\ a.nums[2] \in Int /\ a.nums[3] \in Int
        /\ b.nums[1] \in Int /\ b.nums[2] \in Int /\ b.nums[3] \in Int
        /\ c.nums[1] \in Int /\ c.nums[2] \in Int /\ c.nums[3] \in Int
    BY PlainTag
  <2> DEFINE D(s, t) == \/ s[1] < t[1]
                        \/ s[1] = t[1] /\ s[2] < t[2]
                        \/ s[1] = t[1] /\ s[2] = t[2] /\ s[3] < t[3]
             Q(s, t) == s[1] = t[1] /\ s[2] = t[2] /\ s[3] = t[3]
  <2>2. /\ N(a, b) <=> D(a.nums, b.nums)
        /\ N(b, a) <=> D(b.nums, a.nums)
        /\ N(a, c) <=> D(a.nums, c.nums)
        /\ N(c, b) <=> D(c.nums, b.nums)
    BY NumbersOrder
  <2>3. /\ E(a, b) <=> Q(a.nums, b.nums)
        /\ E(b, a) <=> Q(a.nums, b.nums)
        /\ E(a, c) <=> Q(a.nums, c.nums)
        /\ E(c, b) <=> Q(c.nums, b.nums)
    BY SameNumbers
  <2> HIDE DEF N, E
  <2> QED
    BY <2>1, <2>2, <2>3
<1>3. P(a, b) => ~P(b, a) /\ (P(a, c) \/ P(c, b))
  BY PlainTag, PrereleaseWeak
<1> HIDE DEF N, E, P, R
<1>4. L(a, b)
  BY <1>1
<1>5. ~L(b, a) /\ (L(a, c) \/ L(c, b))
  BY <1>2, <1>3, <1>4, Zenon
<1> QED
  BY <1>1, <1>5

(* So is the comparator's, over tags with and without a version. *)
LEMMA PrecedesWeak ==
  ASSUME NEW a \in PlainTags, NEW b \in PlainTags, NEW c \in PlainTags, Precedes(a, b)
  PROVE  ~Precedes(b, a) /\ (Precedes(a, c) \/ Precedes(c, b))
<1>1. a.rank \in Int /\ b.rank \in Int /\ c.rank \in Int
  BY PlainTag
<1>2. a.rank > b.rank => ~(b.rank > a.rank) /\ (a.rank > c.rank \/ c.rank > b.rank)
  BY <1>1
<1>3. IsSemVer(a) /\ IsSemVer(b) /\ IsSemVer(c) /\ SemVerLess(a, b)
        => ~SemVerLess(b, a) /\ (SemVerLess(a, c) \/ SemVerLess(c, b))
  BY SemVerWeak
<1>4. IsSemVer(a) /\ IsSemVer(b) /\ SemVerLess(a, b) => ~SemVerLess(b, a)
  BY SemVerWeak
<1> QED
  BY <1>2, <1>3, <1>4, Zenon DEF Precedes

(* The comparator of the sort is one std::stable_sort may be given as long   *)
(* as the digits of a tag fit the integers they are read into.  (They may    *)
(* not: "9", "10" and "1" with nineteen zeros, three segments of a           *)
(* pre-release, precede each other in a circle, semver.cpp:165-173.)         *)
THEOREM PlainTagsAreSortable ==
  ASSUME NEW T \in SUBSET PlainTags
  PROVE  Sortable(T)
<1>1. ASSUME NEW a \in T, NEW b \in T, IsSemVer(a), IsSemVer(b), NEW i \in 1..3
      PROVE  ~Overflows(a.nums[i], b.nums[i])
  <2>1. a.nums[i] \in 0..MaxInt /\ b.nums[i] \in 0..MaxInt
    BY <1>1, PlainTag
  <2>2. MaxInt \in Int
    BY SMT DEF MaxInt
  <2> QED
    BY <2>1, <2>2 DEF Overflows, MinInt
<1>2. \A a, b \in T : Precedes(a, b) => ~Precedes(b, a)
  BY PrecedesWeak
<1>3. \A a, b, c \in T : Precedes(a, b) => Precedes(a, c) \/ Precedes(c, b)
  BY PrecedesWeak
<1> QED
  BY <1>1, <1>2, <1>3 DEF Sortable

-----------------------------------------------------------------------------
(* What a sort returns is what it was given, and in the order of the         *)
(* comparator if that is one.                                                *)
LEMMA SortedTags ==
  ASSUME NEW tags \in Seq(Tags), NEW positions \in SUBSET DOMAIN tags,
         NEW sorted \in StableSort(tags, positions)
  PROVE  /\ DOMAIN sorted = 1..Cardinality(positions)
         /\ \A i \in DOMAIN sorted : \E k \in positions : sorted[i] = tags[k]
         /\ \A k \in positions : \E i \in DOMAIN sorted : sorted[i] = tags[k]
         /\ (\A k \in positions : tags[k] \in PlainTags) =>
              \A i, j \in DOMAIN sorted : i < j => ~Precedes(sorted[j], sorted[i])
<1> DEFINE n == Cardinality(positions)
<1>1. PICK p \in SetToSeqs(positions) :
        /\ Sortable({tags[k] : k \in positions}) =>
             \A i, j \in DOMAIN p : i < j => Before(tags, p[i], p[j])
        /\ sorted = [i \in DOMAIN p |-> tags[p[i]]]
  BY DEF StableSort
<1>2. IsFiniteSet(positions) /\ n \in Nat
  <2>1. DOMAIN tags = 1..Len(tags) /\ 1 \in Int /\ Len(tags) \in Int
    BY LenProperties
  <2>2. IsFiniteSet(DOMAIN tags)
    BY <2>1, FS_Interval
  <2> QED
    BY <2>2, FS_Subset, FS_CardinalityType
<1> HIDE DEF n
<1>3. p \in [1..n -> positions] /\ \A i, j \in 1..n : i # j => p[i] # p[j]
  BY DEF SetToSeqs, n
<1>4. DOMAIN sorted = 1..n /\ \A i \in 1..n : sorted[i] = tags[p[i]]
  BY <1>1, <1>3
<1>5. \A k \in positions : \E i \in 1..n : p[i] = k
  <2>1. p \in Injection(1..n, positions)
    BY <1>3 DEF Injection, IsInjective
  <2>2. IsFiniteSet(1..n) /\ Cardinality(1..n) = n
    BY <1>2, FS_Interval
  <2>3. p \in Surjection(1..n, positions)
    BY <1>2, <2>1, <2>2, FS_Injection DEF n
  <2> QED
    BY <2>3 DEF Surjection
<1>6. ASSUME \A k \in positions : tags[k] \in PlainTags,
             NEW i \in 1..n, NEW j \in 1..n, i < j
      PROVE  ~Precedes(sorted[j], sorted[i])
  <2>1. {tags[k] : k \in positions} \in SUBSET PlainTags
    BY <1>6
  <2>2. Sortable({tags[k] : k \in positions})
    BY <2>1, PlainTagsAreSortable
  <2>3. Before(tags, p[i], p[j])
    BY <1>1, <1>3, <1>6, <2>2
  <2>4. tags[p[i]] \in PlainTags /\ tags[p[j]] \in PlainTags
    BY <1>3, <1>6
  <2> QED
    BY <1>4, <2>3, <2>4, PrecedesWeak DEF Before
<1> QED
  BY <1>3, <1>4, <1>5, <1>6 DEF n

(* What listReleases() returns: nothing when no source lists a release that  *)
(* its filter keeps, and otherwise the first source that does, every release *)
(* of it that is kept and no other, whatever order the sort makes of them    *)
(* (Gitee before GitHub, github_client.cpp:165-207).                         *)
THEOREM ListIsTheFirstAnswer ==
  ASSUME NEW replies \in Seq(Seq(Tags)), NEW list \in ListReleases(replies)
  PROVE  LET answering == {r \in DOMAIN replies : Listed(replies[r]) # {}}
         IN  /\ answering = {} => list = <<>>
             /\ answering # {} =>
                  \E r \in answering :
                    /\ \A q \in answering : r <= q
                    /\ list \in StableSort(replies[r], Listed(replies[r]))
                    /\ DOMAIN list = 1..Cardinality(Listed(replies[r]))
                    /\ {list[i] : i \in DOMAIN list}
                         = {tag \in Range(replies[r]) : Kept(tag)}
<1> DEFINE answering == {r \in DOMAIN replies : Listed(replies[r]) # {}}
           first == replies[Min(answering)]
<1>1. CASE answering = {}
  BY <1>1 DEF ListReleases
<1>2. CASE answering # {}
  <2>1. answering \in SUBSET Nat /\ answering \in SUBSET DOMAIN replies
    BY LenProperties
  <2>2. Min(answering) \in answering /\ \A q \in answering : Min(answering) <= q
    <3> HIDE DEF answering
    <3> QED BY <1>2, <2>1, MinOfNumbers
  <2>3. first \in Seq(Tags)
    <3> HIDE DEF answering
    <3> QED BY <2>1, <2>2, LenProperties, ElementOfSeq
  <2>4. list \in StableSort(first, Listed(first))
    BY <1>2 DEF ListReleases
  <2> HIDE DEF first, answering
  <2>5. Listed(first) \in SUBSET DOMAIN first
    BY DEF Listed
  <2>6. /\ DOMAIN list = 1..Cardinality(Listed(first))
        /\ \A i \in DOMAIN list : \E k \in Listed(first) : list[i] = first[k]
        /\ \A k \in Listed(first) : \E i \in DOMAIN list : list[i] = first[k]
    BY <2>3, <2>4, <2>5, SortedTags
  <2>7. {list[i] : i \in DOMAIN list} = {tag \in Range(first) : Kept(tag)}
    BY <2>6 DEF Listed, Range
  <2> QED
    BY <1>2, <2>2, <2>4, <2>6, <2>7 DEF first, answering
<1> QED
  BY <1>1, <1>2

(* Nothing its filter drops is in the list, and plain tags are in order. *)
LEMMA ListedInOrder ==
  ASSUME NEW replies \in Seq(Seq(PlainTags)), NEW list \in ListReleases(replies)
  PROVE  /\ \A i \in DOMAIN list : Kept(list[i])
         /\ \A i, j \in DOMAIN list : i < j => ~Precedes(list[j], list[i])
<1> DEFINE answering == {r \in DOMAIN replies : Listed(replies[r]) # {}}
<1>1. replies \in Seq(Seq(Tags))
  <2>1. PlainTags \subseteq Tags
    BY DEF PlainTags
  <2>2. \A s \in Seq(PlainTags) : s \in Seq(Tags)
    BY <2>1
  <2> HIDE DEF answering
  <2> QED
    BY <2>2
<1>2. CASE answering = {}
  <2>1. list = <<>>
    BY <1>1, <1>2, ListIsTheFirstAnswer
  <2> QED
    BY <2>1
<1>3. CASE answering # {}
  <2>1. PICK r \in answering :
          /\ list \in StableSort(replies[r], Listed(replies[r]))
          /\ {list[i] : i \in DOMAIN list} = {tag \in Range(replies[r]) : Kept(tag)}
    BY <1>1, <1>3, ListIsTheFirstAnswer
  <2>2. replies[r] \in Seq(PlainTags) /\ replies[r] \in Seq(Tags)
    BY <1>1, LenProperties, ElementOfSeq
  <2>3. Listed(replies[r]) \in SUBSET DOMAIN replies[r]
    BY DEF Listed
  <2>4. \A k \in Listed(replies[r]) : replies[r][k] \in PlainTags
    BY <2>2, <2>3, LenProperties, ElementOfSeq
  <2>5. \A i, j \in DOMAIN list : i < j => ~Precedes(list[j], list[i])
    BY <2>1, <2>2, <2>3, <2>4, SortedTags
  <2> QED
    BY <2>1, <2>5
<1> QED
  BY <1>2, <1>3

(* A list is a sequence of tags. *)
LEMMA ListType ==
  ASSUME NEW replies \in Seq(Seq(Tags)), NEW list \in ListReleases(replies)
  PROVE  list \in Seq(Tags)
<1> DEFINE answering == {r \in DOMAIN replies : Listed(replies[r]) # {}}
<1>1. CASE answering = {}
  <2>1. list = <<>>
    BY <1>1, ListIsTheFirstAnswer
  <2> QED
    BY <2>1, EmptySeq
<1>2. CASE answering # {}
  <2>1. PICK r \in answering : list \in StableSort(replies[r], Listed(replies[r]))
    BY <1>2, ListIsTheFirstAnswer
  <2>2. replies[r] \in Seq(Tags) /\ Listed(replies[r]) \in SUBSET DOMAIN replies[r]
    BY LenProperties, ElementOfSeq DEF Listed
  <2>3. PICK p \in SetToSeqs(Listed(replies[r])) :
          list = [i \in DOMAIN p |-> replies[r][p[i]]]
    BY <2>1 DEF StableSort
  <2>4. Cardinality(Listed(replies[r])) \in Nat
    <3>1. IsFiniteSet(DOMAIN replies[r])
      <4>1. DOMAIN replies[r] = 1..Len(replies[r]) /\ Len(replies[r]) \in Int
        BY <2>2, LenProperties
      <4> QED
        BY <4>1, FS_Interval
    <3> QED
      BY <2>2, <3>1, FS_Subset, FS_CardinalityType
  <2>5. /\ p \in [1..Cardinality(Listed(replies[r])) -> Listed(replies[r])]
        /\ \A k \in Listed(replies[r]) : replies[r][k] \in Tags
    BY <2>2, ElementOfSeq, LenProperties DEF SetToSeqs
  <2>6. list \in [1..Cardinality(Listed(replies[r])) -> Tags]
    BY <2>3, <2>5
  <2> QED
    <3> DEFINE n == Cardinality(Listed(replies[r]))
    <3> HIDE DEF n
    <3>1. n \in Nat /\ list \in [1..n -> Tags]
      BY <2>4, <2>6 DEF n
    <3> QED BY <3>1, SeqDef
<1> QED
  BY <1>1, <1>2

(* A list has no entry that stands for no tag. *)
LEMMA NoneIsNotListed ==
  ASSUME NEW replies \in Replies, NEW list \in ListReleases(replies), list # <<>>
  PROVE  Head(list) # None
<1> DEFINE answering == {r \in DOMAIN replies : Listed(replies[r]) # {}}
<1>1. replies \in Seq(Seq(Tags))
  BY TuiAssumption
<1>2. answering # {}
  BY <1>1, ListIsTheFirstAnswer
<1>3. PICK r \in answering :
        /\ DOMAIN list = 1..Cardinality(Listed(replies[r]))
        /\ {list[i] : i \in DOMAIN list} = {tag \in Range(replies[r]) : Kept(tag)}
        /\ list \in StableSort(replies[r], Listed(replies[r]))
  BY <1>1, <1>2, ListIsTheFirstAnswer
<1>4. \A i \in DOMAIN list : list[i] # None
  BY <1>3, TuiAssumption DEF Range
<1>5. 1 \in DOMAIN list /\ Head(list) = list[1]
  <2>1. list \in Seq(Tags)
    BY <1>1, ListType
  <2> QED
    BY <2>1, EmptySeq, LenProperties, HeadTailProperties
<1> QED
  BY <1>4, <1>5

-----------------------------------------------------------------------------
(* The tag being fetched is that of the manifest worker, or of the one that  *)
(* waits for it to end; and the list on the screen is what that one was      *)
(* found with.                                                               *)
Selected ==
  /\ rw = "joinManifest" => fetching \in {Head(found), None} /\ releases = found
  /\ rw # "joinManifest" => fetching \in {mtag, None}
  /\ rw # "joinManifest" /\ releases # <<>> => mtag = Head(releases)
  /\ found # <<>> => Head(found) # None

(* Every step keeps list, guard and worker at one tag. *)
LEMMA SelectedStays ==
  ASSUME Selected, [Next]_vars
  PROVE  Selected'
<1>1. CASE PressRefresh
  BY <1>1 DEF PressRefresh, Selected, NotRunning, Running,
     uiVars, refreshVars, manifestVars, downloadVars
<1>2. CASE StartRefreshWorker
  BY <1>2 DEF StartRefreshWorker, Selected, NotRunning, Running,
     uiVars, refreshVars, manifestVars, downloadVars
<1>3. CASE PressDownload \/ DialogCancel
  BY <1>3 DEF PressDownload, DialogCancel, Selected, NotRunning, Running,
     uiVars, refreshVars, manifestVars, downloadVars
<1>4. ASSUME NEW c \in Options, DialogConfirm(c) PROVE Selected'
  BY <1>4 DEF DialogConfirm, Refuse, Selected, NotRunning, Running,
     uiVars, refreshVars, manifestVars, downloadVars
<1>5. CASE StartDownloadWorker
  BY <1>5 DEF StartDownloadWorker, Selected, NotRunning, Running,
     uiVars, refreshVars, manifestVars, downloadVars
<1>6. CASE PressQuit
  BY <1>6 DEF PressQuit, Selected, NotRunning, Running,
     uiVars, refreshVars, manifestVars, downloadVars
<1>7. CASE Quit
  BY <1>7 DEF Quit, QuitJoins, Selected, NotRunning, Running,
     uiVars, refreshVars, manifestVars, downloadVars
<1>8. CASE Crash
  BY <1>8 DEF Crash, Selected, NotRunning, Running,
     uiVars, refreshVars, manifestVars, downloadVars
<1>9. CASE RefreshFetch
  <2>1. PICK replies \in Replies : found' \in ListReleases(replies)
    BY <1>9 DEF RefreshFetch
  <2>2. found' # <<>> => Head(found') # None
    BY <2>1, NoneIsNotListed
  <2> QED
    BY <1>9, <2>2 DEF RefreshFetch, Selected, manifestVars
<1>10. CASE RefreshDeliver
  BY <1>10 DEF RefreshDeliver, BeingFetched, Selected, NotRunning, Running,
     uiVars, refreshVars, manifestVars, downloadVars
<1>11. CASE StartManifestWorker
  BY <1>11 DEF StartManifestWorker, Selected, NotRunning, Running,
     uiVars, refreshVars, manifestVars, downloadVars
<1>12. CASE RefreshClears \/ RefreshEnds
  BY <1>12 DEF RefreshClears, RefreshEnds, Selected, NotRunning, Running,
     uiVars, refreshVars, manifestVars, downloadVars
<1>13. CASE ManifestFetch \/ ManifestPublish
  BY <1>13 DEF ManifestFetch, ManifestPublish, Selected, NotRunning, Running,
     uiVars, refreshVars, manifestVars, downloadVars
<1>14. CASE ManifestClears \/ ManifestEnds
  BY <1>14 DEF ManifestClears, ManifestEnds, Selected, NotRunning, Running,
     uiVars, refreshVars, manifestVars, downloadVars
<1>15. CASE DownloadFind
  BY <1>15 DEF DownloadFind, Selected, NotRunning, Running,
     uiVars, refreshVars, manifestVars, downloadVars
<1>16. CASE DownloadTransfer
  BY <1>16 DEF DownloadTransfer, NextFile, Selected, NotRunning, Running,
     uiVars, refreshVars, manifestVars, downloadVars
<1>17. CASE DownloadFallback
  BY <1>17 DEF DownloadFallback, NextFile, JudgeFallback, Selected, NotRunning, Running,
     uiVars, refreshVars, manifestVars, downloadVars
<1>18. CASE DownloadFinish \/ DownloadClears
  BY <1>18 DEF DownloadFinish, DownloadClears, Selected, NotRunning, Running,
     uiVars, refreshVars, manifestVars, downloadVars
<1>19. CASE Ended
  BY <1>19 DEF Ended, vars, Selected, NotRunning, Running,
     uiVars, refreshVars, manifestVars, downloadVars
<1>20. CASE UNCHANGED vars
  BY <1>20 DEF vars, Selected, NotRunning, Running,
     uiVars, refreshVars, manifestVars, downloadVars
<1> QED
  BY <1>1, <1>2, <1>3, <1>4, <1>5, <1>6, <1>7, <1>8, <1>9,
     <1>10, <1>11, <1>12, <1>13, <1>14, <1>15, <1>16,
     <1>17, <1>18, <1>19, <1>20
     DEF Next, UiStep, RefreshStep, ManifestStep, DownloadStep

(* The models in the end are those of the first release of the list, however *)
(* refreshes and manifests overlap (startManifestWorker and its guard).      *)
THEOREM SelectionIsFollowed == Spec => []ModelsFollowSelection
<1>1. Init => Selected
  BY DEF Init, Selected
<1>2. Selected /\ [Next]_vars => Selected'
  BY SelectedStays
<1>3. Selected => ModelsFollowSelection
  BY DEF Selected, ModelsFollowSelection, NotRunning
<1> QED
  BY <1>1, <1>2, <1>3, PTL DEF Spec

-----------------------------------------------------------------------------
(* What a download leaves of a file that its digest has not rejected. *)
Remains == {"untouched", "partial", "unverified", "good", "absent"}
Arrived(i) == Complete(left[Artifact[wanted.c][i]])

(* The files up to the current one are decided, the others not complete, and *)
(* the verdict so far says whether one of them has arrived.                  *)
Honest ==
  /\ pending = [c |-> pending.c, live |-> pending.live]
  /\ wanted = [c |-> wanted.c, live |-> wanted.live]
  /\ ui = "joinDownload" => pending.c \in Options
  /\ dw \notin NotRunning => wanted.c \in Options
  /\ left \in [Files -> Remains]
  /\ ok \in BOOLEAN
  /\ dw = "find" => index = 1 /\ ~ok /\ \A f \in Files : left[f] = "untouched"
  /\ dw \in {"transfer", "fallback"} =>
       /\ index \in DOMAIN Artifact[wanted.c]
       /\ \A i \in DOMAIN Artifact[wanted.c] : i >= index => ~Arrived(i)
  /\ dw \in {"transfer", "fallback", "finish"} =>
       (ok <=> \E i \in DOMAIN Artifact[wanted.c] : Arrived(i))
  /\ dw = "clear" =>
       (screen = "failed") = (\A i \in DOMAIN Artifact[wanted.c] : ~Arrived(i))

(* The files of a choice are files. *)
LEMMA FilesOfAnArtifact ==
  ASSUME NEW c \in Options
  PROVE  /\ Artifact[c] \in Seq(STRING)
         /\ \A i \in DOMAIN Artifact[c] : Artifact[c][i] \in Files
  BY TuiAssumption DEF Files, ToSet

(* One file decided: the verdict follows what is left of it. *)
LEMMA OneFileOn ==
  ASSUME Honest, dw \in {"transfer", "fallback"}, NEW remains \in Remains,
         left' = [left EXCEPT ![Current] = remains], NextFile(Complete(remains)),
         UNCHANGED <<uiVars, wanted, screen>>
  PROVE  Honest'
<1> DEFINE a == Artifact[wanted.c]
<1>1. wanted.c \in Options
  BY DEF Honest, NotRunning
<1>2. a \in Seq(STRING) /\ \A i \in DOMAIN a : a[i] \in Files
  BY <1>1, FilesOfAnArtifact
<1>3. index \in DOMAIN a /\ a[index] \in Files /\ Current = a[index]
  BY <1>2 DEF Honest, Current
<1>4. left' \in [Files -> Remains]
  BY <1>3 DEF Honest
<1>5. \A i \in DOMAIN a : i # index => a[i] # a[index]
  BY <1>1, <1>3, TuiAssumption
<1>6. \A i \in DOMAIN a : left'[a[i]] = IF i = index THEN remains ELSE left[a[i]]
  BY <1>2, <1>3, <1>5 DEF Honest
<1>7. \A i \in DOMAIN a : i > index => ~Complete(left'[a[i]])
  BY <1>2, <1>3, <1>6 DEF Honest, Arrived
<1>8. ok' = (Complete(remains) \/ ok)
  BY DEF NextFile
<1>9. ok <=> \E i \in DOMAIN a : Complete(left[a[i]])
  BY DEF Honest, Arrived
<1>10. ~Complete(left[a[index]])
  BY <1>2, <1>3 DEF Honest, Arrived
<1>11. ok' <=> \E i \in DOMAIN a : Complete(left'[a[i]])
  BY <1>3, <1>6, <1>8, <1>9, <1>10
<1>12. ok' \in BOOLEAN
  BY <1>8, <1>9 DEF Honest, Complete
<1>13. CASE index < Len(a)
  <2>1. index' = index + 1 /\ dw' = "transfer"
    BY <1>13 DEF NextFile
  <2>2. index' \in DOMAIN a /\ \A i \in DOMAIN a : i >= index' => i > index
    BY <1>2, <1>3, <1>13, <2>1
  <2> QED
    BY <1>1, <1>4, <1>7, <1>11, <1>12, <2>1, <2>2 DEF Honest, Arrived, uiVars
<1>14. CASE ~(index < Len(a))
  <2>1. dw' = "finish"
    BY <1>14 DEF NextFile
  <2> QED
    BY <1>1, <1>4, <1>11, <1>12, <2>1 DEF Honest, Arrived, uiVars
<1> QED
  BY <1>13, <1>14

(* A file that is kept, whatever arrived of it. *)
LEMMA KeptFileOn ==
  ASSUME Honest, dw \in {"transfer", "fallback"}, NEW outcome \in Outcomes \ {"wrong"},
         Keep(outcome), NextFile(Complete(outcome)), UNCHANGED <<uiVars, wanted, screen>>
  PROVE  Honest'
<1>1. Current \in Files
  BY FilesOfAnArtifact DEF Honest, NotRunning, Current
<1>2. CASE outcome = "untouched"
  <2>1. left' = [left EXCEPT ![Current] = left[Current]] /\ left[Current] \in Remains
    BY <1>1, <1>2 DEF Keep, Honest
  <2>2. ~Complete(left[Current])
    BY FilesOfAnArtifact DEF Honest, NotRunning, Current, Arrived
  <2>3. Complete(outcome) = FALSE /\ Complete(left[Current]) = FALSE
    BY <1>2, <2>2 DEF Complete
  <2>4. NextFile(Complete(left[Current]))
    BY <2>3
  <2> QED
    BY <2>1, <2>4, OneFileOn
<1>3. CASE outcome # "untouched"
  <2>1. left' = [left EXCEPT ![Current] = outcome] /\ outcome \in Remains
    BY <1>3 DEF Keep, Outcomes, Remains
  <2> QED
    BY <2>1, OneFileOn
<1> QED
  BY <1>2, <1>3

(* A file that is removed and asked for once more. *)
LEMMA RemovedFileStays ==
  ASSUME Honest, dw = "transfer", RemoveFile, dw' = "fallback",
         UNCHANGED <<index, ok, uiVars, wanted, screen>>
  PROVE  Honest'
<1> DEFINE a == Artifact[wanted.c]
<1>1. wanted.c \in Options /\ a \in Seq(STRING) /\ index \in DOMAIN a
  BY FilesOfAnArtifact DEF Honest, NotRunning
<1>2. Current \in Files /\ Current = a[index]
  BY <1>1, FilesOfAnArtifact DEF Current
<1>3. left' \in [Files -> Remains]
  BY <1>2 DEF RemoveFile, Honest, Remains
<1>4. \A i \in DOMAIN a : i # index => a[i] # a[index]
  BY <1>1, TuiAssumption
<1>5. \A i \in DOMAIN a : left'[a[i]] = IF i = index THEN "absent" ELSE left[a[i]]
  BY <1>1, <1>2, <1>4, FilesOfAnArtifact DEF RemoveFile, Honest
<1>6. ~Complete(left[a[index]]) /\ ~Complete("absent")
  BY <1>1 DEF Honest, Arrived, Complete
<1>7. \A i \in DOMAIN a : Complete(left'[a[i]]) <=> Complete(left[a[i]])
  BY <1>1, <1>5, <1>6
<1> QED
  BY <1>1, <1>3, <1>7 DEF Honest, Arrived, uiVars

(* Only the tag of the choice matters, not whether its manifest lives. *)
LEMMA DownloadUntouched ==
  ASSUME Honest, UNCHANGED <<dw, index, ok, left, screen>>,
         pending'.c = pending.c, wanted'.c = wanted.c,
         pending' = [c |-> pending'.c, live |-> pending'.live],
         wanted' = [c |-> wanted'.c, live |-> wanted'.live],
         ui' = "joinDownload" => ui = "joinDownload"
  PROVE  Honest'
  BY DEF Honest, Arrived

(* Every step of a download keeps its account of the files. *)
LEMMA HonestStays ==
  ASSUME Honest, [Next]_vars
  PROVE  Honest'
<1>1. CASE PressRefresh \/ StartRefreshWorker \/ PressDownload \/ DialogCancel
             \/ PressQuit \/ Quit \/ Crash
  <2>1. \/ UNCHANGED <<pending, downloadVars>> /\ ui' # "joinDownload"
        \/ UNCHANGED <<uiVars, downloadVars>>
                 \/ UNCHANGED <<ui, pending, downloadVars>>
    BY <1>1 DEF PressRefresh, StartRefreshWorker, PressDownload, DialogCancel, PressQuit,
       Quit, QuitJoins, Crash, uiVars
  <2> QED
    BY <2>1, DownloadUntouched DEF Honest, uiVars, downloadVars
<1>2. ASSUME NEW c \in Options, DialogConfirm(c) PROVE Honest'
  <2>1. CASE UNCHANGED <<ui, pending>>
    BY <1>2, <2>1, DownloadUntouched DEF DialogConfirm, Honest
  <2>2. CASE ui' = "joinDownload" /\ pending' = [c |-> c, live |-> models.alive]
    <3>1. UNCHANGED <<dw, wanted, index, ok, left, screen>>
      BY <1>2 DEF DialogConfirm
    <3> QED
      BY <2>2, <3>1 DEF Honest, Arrived
  <2> QED
    BY <1>2, <2>1, <2>2 DEF DialogConfirm, Refuse
<1>3. CASE StartDownloadWorker
  <2>1. /\ dw' = "find" /\ index' = 1 /\ ok' = FALSE /\ ui' = "idle"
        /\ wanted' = pending /\ pending' = [c |-> None, live |-> FALSE]
        /\ left' = [f \in Files |-> "untouched"] /\ pending.c \in Options
    BY <1>3 DEF StartDownloadWorker, Honest
  <2>2. left' \in [Files -> Remains] /\ \A f \in Files : left'[f] = "untouched"
    BY <2>1 DEF Remains
  <2>3. pending = [c |-> pending.c, live |-> pending.live]
    BY DEF Honest
  <2> QED
    BY <2>1, <2>2, <2>3 DEF Honest
<1>4. CASE RefreshStep \/ (ManifestStep /\ ~ManifestClears)
  <2>1. UNCHANGED <<uiVars, downloadVars>>
    BY <1>4 DEF RefreshStep, ManifestStep, RefreshFetch, RefreshDeliver, StartManifestWorker,
       RefreshClears, RefreshEnds, ManifestFetch, ManifestPublish, ManifestEnds
  <2> QED
    BY <2>1, DownloadUntouched DEF Honest, uiVars, downloadVars
<1>5. CASE ManifestClears
  <2>1. /\ pending' = [pending EXCEPT !.live = FALSE] /\ wanted' = [wanted EXCEPT !.live = FALSE]
        /\ UNCHANGED <<ui, dw, index, ok, left, screen>>
    BY <1>5 DEF ManifestClears
  <2>2. /\ pending' = [c |-> pending.c, live |-> FALSE]
        /\ wanted' = [c |-> wanted.c, live |-> FALSE]
    BY <2>1 DEF Honest
  <2> QED
    BY <2>1, <2>2, DownloadUntouched
<1>6. CASE DownloadFind
  <2>1. /\ dw = "find" /\ UNCHANGED <<uiVars, wanted, index, ok, left>>
        /\ wanted.c \in Options /\ index = 1 /\ ~ok
        /\ \A f \in Files : left[f] = "untouched"
    BY <1>6 DEF DownloadFind, Honest, NotRunning
  <2>2. \A i \in DOMAIN Artifact[wanted.c] : ~Arrived(i)
    BY <2>1, FilesOfAnArtifact DEF Arrived, Complete
  <2>3. CASE TRUE \in Finds(wanted.c, wanted.live) /\ dw' = "transfer"
    <3>1. Artifact[wanted.c] # <<>>
      BY <2>3 DEF Finds
    <3>2. 1 \in DOMAIN Artifact[wanted.c]
      BY <2>1, <3>1, FilesOfAnArtifact
    <3> QED
      BY <2>1, <2>2, <2>3, <3>2 DEF Honest, Arrived, uiVars
  <2>4. CASE dw' = "clear" /\ screen' = "failed"
    BY <2>1, <2>2, <2>4 DEF Honest, Arrived, uiVars
  <2> QED
    BY <1>6, <2>3, <2>4 DEF DownloadFind
<1>7. CASE DownloadTransfer
  <2>1. PICK outcome \in Outcomes :
          IF outcome = "wrong"
          THEN RemoveFile /\ dw' = "fallback" /\ UNCHANGED <<index, ok>>
          ELSE Keep(outcome) /\ NextFile(Complete(outcome))
    BY <1>7 DEF DownloadTransfer
  <2>2. dw = "transfer" /\ UNCHANGED <<uiVars, wanted, screen>>
    BY <1>7 DEF DownloadTransfer
  <2>3. CASE outcome = "wrong"
    BY <2>1, <2>2, <2>3, RemovedFileStays
  <2>4. CASE outcome # "wrong"
    BY <2>1, <2>2, <2>4, KeptFileOn
  <2> QED
    BY <2>3, <2>4
<1>8. CASE DownloadFallback
  <2>1. PICK outcome \in Outcomes \ {"unverified"} : JudgeFallback(outcome)
    BY <1>8 DEF DownloadFallback
  <2>2. dw = "fallback" /\ UNCHANGED <<uiVars, wanted, screen>>
    BY <1>8 DEF DownloadFallback
  <2>3. CASE outcome = "wrong"
    <3>1. left' = [left EXCEPT ![Current] = "absent"] /\ NextFile(FALSE)
      BY <2>1, <2>3 DEF JudgeFallback, RemoveFile
    <3>2. Complete("absent") = FALSE /\ "absent" \in Remains
      BY DEF Complete, Remains
    <3>3. NextFile(Complete("absent"))
      BY <3>1, <3>2
    <3> QED
      BY <2>2, <3>1, <3>2, <3>3, OneFileOn
  <2>4. CASE outcome # "wrong"
    BY <2>1, <2>2, <2>4, KeptFileOn DEF JudgeFallback
  <2> QED
    BY <2>3, <2>4
<1>9. CASE DownloadFinish
  <2>1. /\ dw = "finish" /\ dw' = "clear" /\ screen' = IF ok THEN "ok" ELSE "failed"
        /\ UNCHANGED <<uiVars, wanted, index, ok, left>>
    BY <1>9 DEF DownloadFinish
  <2>2. (screen' = "failed") = (\A i \in DOMAIN Artifact[wanted.c] : ~Arrived(i))
    BY <2>1 DEF Honest
  <2> QED
    BY <2>1, <2>2 DEF Honest, Arrived, NotRunning, uiVars
<1>10. CASE DownloadClears
  <2>1. /\ dw' = "done" /\ wanted' = [c |-> None, live |-> FALSE] /\ ok' = FALSE
        /\ left' = [f \in Files |-> "untouched"] /\ UNCHANGED uiVars
    BY <1>10 DEF DownloadClears
  <2>2. left' \in [Files -> Remains]
    BY <2>1 DEF Remains
  <2> QED
    BY <2>1, <2>2 DEF Honest, NotRunning, uiVars
<1>11. CASE Ended \/ UNCHANGED vars
  <2>1. UNCHANGED <<uiVars, downloadVars>>
    BY <1>11 DEF Ended, vars
  <2> QED
    BY <2>1, DownloadUntouched DEF Honest, uiVars, downloadVars
<1> QED
  BY <1>1, <1>2, <1>3, <1>4, <1>5, <1>6, <1>7, <1>8, <1>9, <1>10, <1>11
     DEF Next, UiStep, ManifestStep, DownloadStep

(* No rejected file is left, and a download is reported as failed exactly    *)
(* when no file of it has arrived (the worker of startDownloadWorker, the    *)
(* loop over the files of the artifact).                                     *)
THEOREM ReportsAreHonest == Spec => []DownloadIsHonest
<1>1. Init => Honest
  BY DEF Init, Honest, Remains, NotRunning
<1>2. Honest /\ [Next]_vars => Honest'
  BY HonestStays
<1>3. Honest => DownloadIsHonest
  <2> SUFFICES ASSUME Honest, dw = "clear"
               PROVE  /\ \A f \in Files : left[f] # "wrong"
                      /\ (screen = "failed")
                           = (\A f \in ToSet(Artifact[wanted.c]) : ~Complete(left[f]))
    BY DEF DownloadIsHonest
  <2>1. \A f \in Files : left[f] # "wrong"
    BY DEF Honest, Remains
  <2>2. (\A f \in ToSet(Artifact[wanted.c]) : ~Complete(left[f]))
          = (\A i \in DOMAIN Artifact[wanted.c] : ~Arrived(i))
    BY DEF ToSet, Arrived
  <2> QED
    BY <2>1, <2>2 DEF Honest
<1> QED
  BY <1>1, <1>2, <1>3, PTL DEF Spec

-----------------------------------------------------------------------------
(* The list to deliver and the list on the screen each come from one sort,   *)
(* whichever refresh they are of.                                            *)
InOrder(list) ==
  /\ \A i \in DOMAIN list : Kept(list[i])
  /\ \A i, j \in DOMAIN list : i < j => ~Precedes(list[j], list[i])

PlainReplies == \A replies \in Replies : replies \in Seq(Seq(PlainTags))

ListsInOrder == InOrder(found) /\ InOrder(releases)

(* Only the refresh worker writes the two lists. *)
LEMMA ListsUntouched ==
  ASSUME ListsInOrder, UNCHANGED <<found, releases>>
  PROVE  ListsInOrder'
BY DEF ListsInOrder, InOrder

(* What the refresh worker writes is in order. *)
LEMMA RefreshKeepsOrder ==
  ASSUME PlainReplies, ListsInOrder, RefreshStep
  PROVE  ListsInOrder'
<1>1. CASE RefreshFetch
  <2>1. PICK replies \in Replies : found' \in ListReleases(replies)
    BY <1>1 DEF RefreshFetch
  <2>2. replies \in Seq(Seq(PlainTags))
    BY DEF PlainReplies
  <2>3. InOrder(found')
    BY <2>1, <2>2, ListedInOrder DEF InOrder
  <2> QED
    BY <1>1, <2>1, <2>3 DEF RefreshFetch, ListsInOrder, InOrder
<1>2. CASE RefreshDeliver
  BY <1>2 DEF RefreshDeliver, ListsInOrder, InOrder
<1>3. CASE StartManifestWorker \/ RefreshClears
  BY <1>3, ListsUntouched DEF StartManifestWorker, RefreshClears
<1>4. CASE RefreshEnds
  BY <1>4 DEF RefreshEnds, ListsInOrder, InOrder
<1> QED
  BY <1>1, <1>2, <1>3, <1>4 DEF RefreshStep

(* No step of any thread puts them out of order. *)
LEMMA ListsStayInOrder ==
  ASSUME PlainReplies, ListsInOrder, [Next]_vars
  PROVE  ListsInOrder'
<1>1. CASE RefreshStep
  BY <1>1, RefreshKeepsOrder
<1>2. ASSUME NEW c \in Options, DialogConfirm(c) PROVE UNCHANGED <<found, releases>>
  BY <1>2 DEF DialogConfirm, refreshVars
<1>3. CASE UiStep
  BY <1>2, <1>3, ListsUntouched
     DEF UiStep, PressRefresh, StartRefreshWorker, PressDownload, DialogCancel,
         StartDownloadWorker, PressQuit, Quit, Crash, refreshVars
<1>4. CASE ManifestStep
  BY <1>4, ListsUntouched
     DEF ManifestStep, ManifestFetch, ManifestPublish, ManifestClears, ManifestEnds,
         refreshVars
<1>5. CASE DownloadStep
  BY <1>5, ListsUntouched
     DEF DownloadStep, DownloadFind, DownloadTransfer, DownloadFallback, DownloadFinish,
         DownloadClears, refreshVars
<1>6. CASE Ended \/ UNCHANGED vars
  BY <1>6, ListsUntouched DEF Ended, vars, refreshVars
<1> QED
  BY <1>1, <1>3, <1>4, <1>5, <1>6 DEF Next

(* What the screen shows is the reverse of what its title says: of two       *)
(* versions the older one comes first, and the tags without a version last.  *)
(* No version is above the known one.                                        *)
ListIsOldestFirst ==
  \A i, j \in DOMAIN releases :
    /\ IsSemVer(releases[i]) => releases[i].nums[1] <= MaxMajor
    /\ i < j /\ IsSemVer(releases[j]) => /\ IsSemVer(releases[i])
                                         /\ ~SemVerLess(releases[j], releases[i])

(* The list is the wrong way round in every refresh, not only in the run     *)
(* that finds ListIsNewestFirst violated: as long as the digits of every tag *)
(* fit, no version is ever shown before an older one (listReleases and the   *)
(* sign of its comparator, github_client.cpp:195-199).                       *)
THEOREM ReleasesAreOldestFirst ==
  ASSUME PlainReplies
  PROVE  Spec => []ListIsOldestFirst
<1>1. Init => ListsInOrder
  BY DEF Init, ListsInOrder, InOrder
<1>2. ListsInOrder /\ [Next]_vars => ListsInOrder'
  BY ListsStayInOrder
<1>3. ListsInOrder => ListIsOldestFirst
  <2> SUFFICES ASSUME ListsInOrder PROVE ListIsOldestFirst
    OBVIOUS
  <2>1. \A i, j \in DOMAIN releases : i < j => ~Precedes(releases[j], releases[i])
    BY DEF ListsInOrder, InOrder
  <2>2. \A i \in DOMAIN releases : Kept(releases[i])
    BY DEF ListsInOrder, InOrder
  <2> QED
    BY <2>1, <2>2, Zenon DEF ListIsOldestFirst, Kept, Precedes
<1> QED
  BY <1>1, <1>2, <1>3, PTL DEF Spec
=============================================================================
