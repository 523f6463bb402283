------------------------------- MODULE TuiApp -------------------------------
(***************************************************************************)
(* The terminal user interface (app.cpp, its screens and its clients): the *)
(* thread of the event loop and the three worker threads it starts, for    *)
(* the list of releases, for the manifest of the selected release and for  *)
(* the files of one artifact.  The refresh worker starts the manifest      *)
(* worker itself.  A thread that starts a worker first joins the previous  *)
(* one of its kind, so the event loop may stand still in a join.           *)
(*                                                                         *)
(* The screens are written by the workers and read by the event loop       *)
(* without a lock, and the list of models keeps pointers into a manifest   *)
(* that is gone as soon as the manifest worker has shown it.  A read that  *)
(* meets either may find anything: the right data, other data, or the end  *)
(* of the program.  Menus get no events, so the first release and the      *)
(* first model are always the selected ones.                               *)
(***************************************************************************)
EXTENDS ReleaseTags

CONSTANTS
  Replies,  \* what the two sources may say when asked for the releases
  Options,  \* the engines and precisions the dialog offers
  Artifact, \* the files of each choice, <<>> when the manifest has none
  None      \* no tag, no choice

(* An artifact names a file once. *)
ASSUME TuiAssumption ==
  /\ Artifact \in [Options -> Seq(STRING)]
  /\ \A c \in Options : \A i, j \in DOMAIN Artifact[c] :
       Artifact[c][i] = Artifact[c][j] => i = j
  /\ None \notin Options
  /\ Replies \subseteq Seq(Seq(Tags))
  /\ \A replies \in Replies : \A r \in DOMAIN replies :
       \A i \in DOMAIN replies[r] : replies[r][i] # None

Files == UNION {ToSet(Artifact[c]) : c \in Options}

VARIABLES
  ui,           \* where the thread of the event loop is
  dialog,       \* DownloadDialog is visible
  pending,      \* what startDownloadWorker() was called with: the choice, and
                \* whether the manifest its model points into still lives
  refresh_busy, \* refresh_busy_
  rw, found,    \* the refresh worker, and the list it has to deliver
  releases,     \* TagListScreen::releases_
  fetching,     \* manifest_tag_being_fetched_
  mw, mtag,     \* the manifest worker, and the tag it was started with
  models,       \* ModelListScreen: the tag shown, and whether its manifest lives
  dl_guard,     \* download_being_fetched_
  dw, wanted,   \* the download worker, and what it was started with
  index, ok,    \* its position in the artifact, its verdict so far
  left,         \* what this download has left under each name
  screen        \* DownloadProgressScreen: "empty", "active", "ok" or "failed"

uiVars == <<ui, dialog, pending>>
refreshVars == <<refresh_busy, rw, found, releases>>
manifestVars == <<fetching, mw, mtag, models>>
downloadVars == <<dl_guard, dw, wanted, index, ok, left, screen>>
vars == <<uiVars, refreshVars, manifestVars, downloadVars>>

NotRunning == {"none", "done"}
Running == ui \notin {"exited", "crashed"}

(* run() ends with startRefreshWorker(), then enters the loop. *)
Init ==
  /\ ui = "joinRefresh"
  /\ dialog = FALSE
  /\ pending = [c |-> None, live |-> FALSE]
  /\ refresh_busy = TRUE
  /\ rw = "none"
  /\ found = <<>>
  /\ releases = <<>>
  /\ fetching = None
  /\ mw = "none"
  /\ mtag = None
  /\ models = [tag |-> None, alive |-> FALSE]
  /\ dl_guard = None
  /\ dw = "none"
  /\ wanted = [c |-> None, live |-> FALSE]
  /\ index = 1
  /\ ok = FALSE
  /\ left = [f \in Files |-> "untouched"]
  /\ screen = "empty"

-----------------------------------------------------------------------------
(* The thread of the event loop. *)

(* 'r' *)
PressRefresh ==
  /\ ui = "idle" /\ ~dialog
  /\ ~refresh_busy
  /\ refresh_busy' = TRUE
  /\ ui' = "joinRefresh"
  /\ UNCHANGED <<dialog, pending, rw, found, releases, manifestVars, downloadVars>>

StartRefreshWorker ==
  /\ ui = "joinRefresh"
  /\ rw \in NotRunning
  /\ rw' = "fetch"
  /\ ui' = "idle"
  /\ UNCHANGED <<dialog, pending, refresh_busy, found, releases, manifestVars,
                 downloadVars>>

(* 'd'.  The choices come from the manifest, or are the built-in ones when  *)
(* a dead one seems to have no artifacts.                                   *)
PressDownload ==
  /\ ui = "idle" /\ ~dialog
  /\ models.tag # None
  /\ dialog' = TRUE
  /\ UNCHANGED <<ui, pending, refreshVars, manifestVars, downloadVars>>

(* 'q' in the dialog *)
DialogCancel ==
  /\ ui = "idle" /\ dialog
  /\ dialog' = FALSE
  /\ UNCHANGED <<ui, pending, refreshVars, manifestVars, downloadVars>>

(* Whether find_artifact() comes back with files.  A dead manifest may look *)
(* right, or as if it had none (or end the program: Crash).                 *)
Finds(c, live) == {Artifact[c] # <<>>} \cup (IF live THEN {} ELSE {FALSE})

(* Mutant: the guard stays when there is nothing to download. *)
RefuseAndKeepGuard(c) ==
  /\ dl_guard' = c
  /\ UNCHANGED <<ui, pending>>

(* The early returns of startDownloadWorker() clear the guard again. *)
Refuse(c) ==
  /\ dl_guard' = None
  /\ UNCHANGED <<ui, pending>>

(* 'd' in the dialog: startDownloadWorker() up to the join.  A choice that  *)
(* is being fetched is not fetched twice.                                   *)
DialogConfirm(c) ==
  /\ ui = "idle" /\ dialog
  /\ dialog' = FALSE
  /\ \/ dl_guard = c /\ UNCHANGED <<ui, pending, dl_guard>>
     \/ dl_guard # c /\ FALSE \in Finds(c, models.alive) /\ Refuse(c)
     \/ /\ dl_guard # c
        /\ TRUE \in Finds(c, models.alive)
        /\ dl_guard' = c
        /\ pending' = [c |-> c, live |-> models.alive]
        /\ ui' = "joinDownload"
  /\ UNCHANGED <<refreshVars, manifestVars, dw, wanted, index, ok, left, screen>>

(* The worker joined here has cleared the guard, the new one's included. *)
StartDownloadWorker ==
  /\ ui = "joinDownload"
  /\ dw \in NotRunning
  /\ dw' = "find"
  /\ wanted' = pending
  /\ index' = 1
  /\ ok' = FALSE
  /\ left' = [f \in Files |-> "untouched"]
  /\ screen' = "active"
  /\ ui' = "idle"
  /\ pending' = [c |-> None, live |-> FALSE]
  /\ UNCHANGED <<dialog, refreshVars, manifestVars, dl_guard>>

(* 'q': the loop ends and ~App() joins the workers. *)
PressQuit ==
  /\ ui = "idle" /\ ~dialog
  /\ ui' = "quitRefresh"
  /\ UNCHANGED <<dialog, pending, refreshVars, manifestVars, downloadVars>>

(* Mutant: the refresh worker joined after the manifest worker. *)
QuitJoinsLate ==
  \/ ui = "quitRefresh" /\ mw \in NotRunning /\ ui' = "quitManifest"
  \/ ui = "quitManifest" /\ rw \in NotRunning /\ ui' = "quitDownload"
  \/ ui = "quitDownload" /\ dw \in NotRunning /\ ui' = "exited"

QuitJoins ==
  \/ ui = "quitRefresh" /\ rw \in NotRunning /\ ui' = "quitManifest"
  \/ ui = "quitManifest" /\ mw \in NotRunning /\ ui' = "quitDownload"
  \/ ui = "quitDownload" /\ dw \in NotRunning /\ ui' = "exited"

Quit ==
  /\ QuitJoins
  /\ UNCHANGED <<dialog, pending, refreshVars, manifestVars, downloadVars>>

(* A list that is read while a worker replaces it, or a dead manifest: the  *)
(* event loop draws both after every event, the download worker walks the   *)
(* second.                                                                  *)
Crash ==
  /\ \/ ui = "idle" /\ (rw = "deliver" \/ mw = "publish")
     \/ ui = "idle" /\ models.tag # None /\ ~models.alive
     \/ Running /\ dw \in {"find", "transfer", "fallback"} /\ ~wanted.live
  /\ ui' = "crashed"
  /\ UNCHANGED <<dialog, pending, refreshVars, manifestVars, downloadVars>>

-----------------------------------------------------------------------------
(* The refresh worker. *)

(* listReleases(), and the number of models of each release. *)
RefreshFetch ==
  /\ Running /\ rw = "fetch"
  /\ \E replies \in Replies : \E list \in ListReleases(replies) : found' = list
  /\ rw' = "deliver"
  /\ UNCHANGED <<uiVars, refresh_busy, releases, manifestVars, downloadVars>>

(* Mutant: any fetch under way will do. *)
AnyFetch(tag) == fetching # None

(* The duplicate test of startManifestWorker(). *)
BeingFetched(tag) == fetching = tag

(* setReleases() on the worker's thread, and through the callback           *)
(* startManifestWorker() with the first release.  A failed refresh shows an *)
(* empty list and leaves the models.                                        *)
RefreshDeliver ==
  /\ Running /\ rw = "deliver"
  /\ releases' = found
  /\ IF found # <<>> /\ ~BeingFetched(Head(found))
     THEN fetching' = Head(found) /\ rw' = "joinManifest"
     ELSE rw' = "clear" /\ UNCHANGED fetching
  /\ UNCHANGED <<uiVars, refresh_busy, found, mw, mtag, models, downloadVars>>

StartManifestWorker ==
  /\ Running /\ rw = "joinManifest"
  /\ mw \in NotRunning
  /\ mw' = "fetch"
  /\ mtag' = Head(found)
  /\ rw' = "clear"
  /\ UNCHANGED <<uiVars, refresh_busy, found, releases, fetching, models, downloadVars>>

RefreshClears ==
  /\ Running /\ rw = "clear"
  /\ refresh_busy' = FALSE
  /\ rw' = "post"
  /\ UNCHANGED <<uiVars, found, releases, manifestVars, downloadVars>>

RefreshEnds ==
  /\ Running /\ rw = "post"
  /\ rw' = "done"
  /\ found' = <<>>
  /\ UNCHANGED <<uiVars, refresh_busy, releases, manifestVars, downloadVars>>

-----------------------------------------------------------------------------
(* The manifest worker. *)

(* fetchManifestJson() from either source, and the parser's verdict. *)
ManifestFetch ==
  /\ Running /\ mw = "fetch"
  /\ mw' \in {"publish", "clear"}
  /\ UNCHANGED <<uiVars, refreshVars, fetching, mtag, models, downloadVars>>

(* setManifest() keeps pointers into a local variable of the worker. *)
ManifestPublish ==
  /\ Running /\ mw = "publish"
  /\ models' = [tag |-> mtag, alive |-> TRUE]
  /\ mw' = "clear"
  /\ UNCHANGED <<uiVars, refreshVars, fetching, mtag, downloadVars>>

(* The local variable is gone; the guard is cleared whatever tag it names.  *)
(* The screen keeps the pointers of an earlier manifest when this one       *)
(* failed.                                                                  *)
ManifestClears ==
  /\ Running /\ mw = "clear"
  /\ models' = [models EXCEPT !.alive = FALSE]
  /\ pending' = [pending EXCEPT !.live = FALSE]
  /\ wanted' = [wanted EXCEPT !.live = FALSE]
  /\ fetching' = None
  /\ mw' = "post"
  /\ UNCHANGED <<ui, dialog, refreshVars, mtag, dl_guard, dw, index, ok,
                 left, screen>>

ManifestEnds ==
  /\ Running /\ mw = "post"
  /\ mw' = "done"
  /\ UNCHANGED <<uiVars, refreshVars, fetching, mtag, models, downloadVars>>

-----------------------------------------------------------------------------
(* The download worker. *)

Current == Artifact[wanted.c][index]

(* find_artifact() once more, on whatever the manifest is by now. *)
DownloadFind ==
  /\ Running /\ dw = "find"
  /\ \/ TRUE \in Finds(wanted.c, wanted.live) /\ dw' = "transfer" /\ UNCHANGED screen
     \/ FALSE \in Finds(wanted.c, wanted.live) /\ dw' = "clear" /\ screen' = "failed"
  /\ UNCHANGED <<uiVars, refreshVars, manifestVars, dl_guard, wanted, index, ok, left>>

(* downloadToFileWithProgress(): the file cannot be opened (nobody creates  *)
(* the directory), is cut short by an error or the cancel flag, or is       *)
(* complete, an error page counting as complete.  What is complete is the   *)
(* published file, or another one that its digest tells or that nothing     *)
(* tells: no digest is published, or sha256sum cannot be run.               *)
Outcomes == {"untouched", "partial", "wrong", "unverified", "good"}
Complete(outcome) == outcome \in {"wrong", "unverified", "good"}

NextFile(file_ok) ==
  /\ ok' = (file_ok \/ ok)
  /\ IF index < Len(Artifact[wanted.c])
     THEN index' = index + 1 /\ dw' = "transfer"
     ELSE dw' = "finish" /\ UNCHANGED index

Keep(outcome) ==
  left' = [left EXCEPT ![Current] = IF outcome = "untouched" THEN @ ELSE outcome]

RemoveFile == left' = [left EXCEPT ![Current] = "absent"]

(* The first source.  Only a wrong digest leads to the second one. *)
DownloadTransfer ==
  /\ Running /\ dw = "transfer"
  /\ \E outcome \in Outcomes :
       IF outcome = "wrong"
       THEN RemoveFile /\ dw' = "fallback" /\ UNCHANGED <<index, ok>>
       ELSE Keep(outcome) /\ NextFile(Complete(outcome))
  /\ UNCHANGED <<uiVars, refreshVars, manifestVars, dl_guard, wanted, screen>>

(* Mutant: the digest is not asked a second time. *)
TrustFallback(outcome) == Keep(outcome) /\ NextFile(Complete(outcome))

(* Mutant: the file is fetched again until it is right. *)
RetryForEver(outcome) ==
  IF outcome = "wrong"
  THEN RemoveFile /\ dw' = "transfer" /\ UNCHANGED <<index, ok>>
  ELSE Keep(outcome) /\ NextFile(Complete(outcome))

JudgeFallback(outcome) ==
  IF outcome = "wrong"
  THEN RemoveFile /\ NextFile(FALSE)
  ELSE Keep(outcome) /\ NextFile(Complete(outcome))

DownloadFallback ==
  /\ Running /\ dw = "fallback"
  /\ \E outcome \in Outcomes \ {"unverified"} : JudgeFallback(outcome)
  /\ UNCHANGED <<uiVars, refreshVars, manifestVars, dl_guard, wanted, screen>>

DownloadFinish ==
  /\ Running /\ dw = "finish"
  /\ screen' = IF ok THEN "ok" ELSE "failed"
  /\ dw' = "clear"
  /\ UNCHANGED <<uiVars, refreshVars, manifestVars, dl_guard, wanted, index, ok, left>>

(* The worker's locals end with it. *)
DownloadClears ==
  /\ Running /\ dw = "clear"
  /\ dl_guard' = None
  /\ dw' = "done"
  /\ wanted' = [c |-> None, live |-> FALSE]
  /\ index' = 1
  /\ ok' = FALSE
  /\ left' = [f \in Files |-> "untouched"]
  /\ UNCHANGED <<uiVars, refreshVars, manifestVars, screen>>

-----------------------------------------------------------------------------
Ended == ~Running /\ UNCHANGED vars

UiStep ==
  \/ PressRefresh \/ StartRefreshWorker \/ PressDownload \/ DialogCancel
  \/ \E c \in Options : DialogConfirm(c)
  \/ StartDownloadWorker \/ PressQuit \/ Quit \/ Crash

RefreshStep ==
  \/ RefreshFetch \/ RefreshDeliver \/ StartManifestWorker
  \/ RefreshClears \/ RefreshEnds

ManifestStep ==
  \/ ManifestFetch \/ ManifestPublish \/ ManifestClears \/ ManifestEnds

DownloadStep ==
  \/ DownloadFind \/ DownloadTransfer \/ DownloadFallback
  \/ DownloadFinish \/ DownloadClears

Next == UiStep \/ RefreshStep \/ ManifestStep \/ DownloadStep \/ Ended

Spec == Init /\ [][Next]_vars

(* Every worker ends by itself: each transfer has a timeout, in curl_util.  *)
(* The event loop leaves its joins.  Keys are pressed or not.               *)
FairSpec ==
  /\ Spec
  /\ WF_vars(StartRefreshWorker) /\ WF_vars(StartDownloadWorker) /\ WF_vars(Quit)
  /\ WF_vars(RefreshStep) /\ WF_vars(ManifestStep) /\ WF_vars(DownloadStep)

-----------------------------------------------------------------------------
(* The program does not end while a worker still uses its screens: the       *)
(* order of the joins in ~App() matters, for the refresh worker starts the   *)
(* manifest worker.                                                          *)
ExitIsClean ==
  ui = "exited" => {rw, mw, dw} \subseteq NotRunning

(* A guard does not outlive its worker: with the loop idle and the workers   *)
(* gone, every release can be refreshed and every choice downloaded again.   *)
(* (The other direction fails: a join clears the guard of its successor.)    *)
GuardsAreReleased ==
  ui = "idle" =>
    /\ rw \in NotRunning => ~refresh_busy
    /\ {rw, mw} \subseteq NotRunning => fetching = None
    /\ dw \in NotRunning => dl_guard = None

(* However refreshes and manifests overlap, the models shown in the end are  *)
(* those of the release that is selected, unless its manifest failed.        *)
ModelsFollowSelection ==
  {rw, mw} \subseteq NotRunning /\ releases # <<>> => mtag = Head(releases)

(* github_client.h returns "the (newest-first) summary list" and app.cpp      *)
(* selects its first entry: no version is followed by a newer one.           *)
ListIsNewestFirst ==
  \A i, j \in DOMAIN releases :
    i < j /\ IsSemVer(releases[i]) /\ IsSemVer(releases[j])
      => ~SemVerLess(releases[i], releases[j])

(* A download ends with no file that its digest rejected, and it is reported *)
(* as failed exactly when it has no complete file to show.                   *)
DownloadIsHonest ==
  dw = "clear" =>
    /\ \A f \in Files : left[f] # "wrong"
    /\ (screen = "failed") = (\A f \in ToSet(Artifact[wanted.c]) : ~Complete(left[f]))

(* Quitting ends the program, and a key is not ignored for ever. *)
UiComesBack == []<>(ui \in {"idle", "exited", "crashed"})

(* model_list.h and manifest.h hand out pointers that are "valid for the     *)
(* lifetime of manifest"; a list that is shown has to have one.              *)
ShownModelsLive == models.tag # None => models.alive
==============================================================================
