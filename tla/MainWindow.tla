----------------------------- MODULE MainWindow -----------------------------
(***************************************************************************)
(* The main window of the desktop program (main_window.cpp).  There is one *)
(* thread, but a slot that waits for the network calls processEvents(), so *)
(* any other slot may run in the middle of it: the slots that wait are     *)
(* frames of a stack, and only the top one goes on.  Message boxes are     *)
(* modal and let nothing in.                                               *)
(*                                                                         *)
(* What a download does to the files is ModelDownload, what a load finds   *)
(* there is CasOcr; here both end well or badly, and which model of a      *)
(* manifest is fetched does not matter.                                    *)
(***************************************************************************)
EXTENDS Integers, Sequences, FiniteSets

CONSTANTS
  Listings,    \* what fetchV2ReleaseTags() may return
  LaunchTags,  \* what --v2-tag may say
  ModelDirs,   \* what the edit of the model directory may say
  Backbones,   \* the models of a manifest
  Precisions,
  HasVulkan,   \* built with Vulkan, and a device is there
  V1Stems, V2Stems, \* the stems onScanLocalModels() knows
  Directories, \* the model directories: sets of [stem, precision, ext]
  LocalImages, WebImages, \* the files one may open, and what a URL may return
  None,
  MaxDepth,    \* bound: slots waiting inside one another
  MaxItems     \* bound: items of the batch

Tags == {None} \cup LaunchTags
          \cup UNION {{listing[i] : i \in DOMAIN listing} : listing \in Listings}

ASSUME MainWindowAssumption ==
  /\ Listings \subseteq Seq(Tags)
  /\ HasVulkan \in BOOLEAN
  /\ V1Stems \cap V2Stems = {}
  /\ MaxDepth \in Nat \ {0} /\ MaxItems \in Nat

VARIABLES
  frames,    \* the slots that wait, the outermost first
  crashed,   \* a dead reference was used
  settings,  \* what version and precision combo and GPU box say
  model_dir, \* what model_dir_edit_ says
  v2_tag, v2_backbone, \* current_v2_tag_ and current_v2_backbone_: the V2 label
  model_loaded, engine, \* model_loaded_, and what ocr_ was loaded with
  download_active, check_enabled, v2_enabled, \* download_active_, two buttons
  refresh_enabled, \* refresh_tags_button_
  tags, index,     \* cached_tags_ and the current item of tag_combo_
  manifest, table, \* cached_manifest_ with its tag; the release the table shows
  local,     \* local_models_
  image,     \* current_image_path_ and current_image_data_
  batch      \* batch_items_

settingVars == <<settings, model_dir, v2_tag, v2_backbone>>
engineVars == <<model_loaded, engine>>
downloadVars == <<download_active, check_enabled, v2_enabled>>
tagVars == <<refresh_enabled, tags, index, manifest, table>>
imageVars == <<image, batch>>
vars == <<frames, crashed, settingVars, engineVars, downloadVars, tagVars,
          local, imageVars>>

NoManifest == [tag |-> None, models |-> {}]
Frame(at, tag, live) == [at |-> at, tag |-> tag, live |-> live]

Init ==
  /\ frames = <<>>
  /\ crashed = FALSE
  /\ settings \in [version : {"v1", "v2"}, precision : Precisions,
                   gpu : {FALSE, HasVulkan}]
  /\ model_dir \in ModelDirs
  /\ v2_tag \in {None} \cup LaunchTags
  /\ v2_backbone \in {None} \cup Backbones
  /\ model_loaded = FALSE
  /\ engine = None
  /\ download_active = FALSE
  /\ check_enabled = TRUE
  /\ v2_enabled = TRUE
  /\ refresh_enabled = TRUE
  /\ tags = <<>>
  /\ index = 0
  /\ manifest = NoManifest
  /\ table = None
  /\ local = {}
  /\ image = [path |-> None, data |-> None]
  /\ batch = <<>>

Top == frames[Len(frames)]
Below == SubSeq(frames, 1, Len(frames) - 1)
Pop == frames' = Below
TopIs(at) == ~crashed /\ frames # <<>> /\ Top.at = at

(* A slot may start; one that will wait needs room on the stack. *)
Ready == ~crashed
Push(f) == Len(frames) < MaxDepth /\ frames' = Append(frames, f)

-----------------------------------------------------------------------------
(* Loading and releasing. *)

(* loadModelFromCurrentSettings(): a new CasOcr in any case, for the        *)
(* directory the edit names now.  The V2 label is no part of it.            *)
Load(with) ==
  \E good \in BOOLEAN :
    /\ model_loaded' = good
    /\ engine' = IF good THEN [dir |-> model_dir, settings |-> with] ELSE None

Unload == model_loaded' = FALSE /\ engine' = None

OnReleaseModel ==
  /\ Ready
  /\ Unload
  /\ UNCHANGED <<frames, crashed, settingVars, downloadVars, tagVars, local, imageVars>>

(* Mutant: the model stays when the version changes. *)
KeepModel == UNCHANGED engineVars

ReleaseIfLoaded == IF model_loaded THEN Unload ELSE UNCHANGED engineVars

OnModelVersionChanged ==
  /\ Ready
  /\ settings' = [settings EXCEPT !.version = IF @ = "v1" THEN "v2" ELSE "v1"]
  /\ ReleaseIfLoaded
  /\ UNCHANGED <<frames, crashed, model_dir, v2_tag, v2_backbone, downloadVars, tagVars,
                 local, imageVars>>

(* updateModelStatusUi() enables these two while no model is loaded. *)
PickPrecisionOrGpu ==
  /\ Ready
  /\ ~model_loaded
  /\ \E p \in Precisions, g \in {FALSE, HasVulkan} :
       settings' = [settings EXCEPT !.precision = p, !.gpu = g]
  /\ UNCHANGED <<frames, crashed, model_dir, v2_tag, v2_backbone, engineVars,
                 downloadVars, tagVars, local, imageVars>>

(* The edit of the directory is always enabled, and nothing listens to it.  *)
EditModelDir ==
  /\ Ready
  /\ model_dir' \in ModelDirs
  /\ UNCHANGED <<frames, crashed, settings, v2_tag, v2_backbone, engineVars,
                 downloadVars, tagVars, local, imageVars>>

Row(version, stem, p) == [version |-> version, stem |-> stem, precision |-> p]
Pairs(files) == {<<f.stem, f.precision>> : f \in {g \in files :
  {[g EXCEPT !.ext = "param"], [g EXCEPT !.ext = "bin"]} \subseteq files}}

(* The rows of onScanLocalModels(): the V1 stems, the known V2 stems, and   *)
(* every other pair as a V2 model.                                          *)
Scan(files) ==
  LET RowsOf(version, stems) ==
        {Row(version, w[1], w[2]) : w \in {x \in Pairs(files) : x[1] \in stems}}
      known == RowsOf("v1", V1Stems) \cup RowsOf("v2", V2Stems)
  IN  known \cup {Row("v2", w[1], w[2]) :
                    w \in {x \in Pairs(files) :
                             \A r \in known : <<r.stem, r.precision>> # x}}

OnScanLocalModels ==
  /\ Ready
  /\ \E files \in Directories : local' = Scan(files)
  /\ UNCHANGED <<frames, crashed, settingVars, engineVars, downloadVars, tagVars, imageVars>>

(* A row of the local table: its settings, a load, a new scan.  The         *)
(* backbone is what a V2 stem begins with; here the stem stands for it.     *)
OnLoadLocalModel ==
  /\ Ready
  /\ \E r \in local :
       LET chosen == [settings EXCEPT !.version = r.version, !.precision = r.precision]
       IN  /\ settings' = chosen
           /\ v2_backbone' = IF r.version = "v2" THEN r.stem ELSE v2_backbone
           /\ Load(chosen)
  /\ \E files \in Directories : local' = Scan(files)
  /\ UNCHANGED <<frames, crashed, model_dir, v2_tag, downloadVars, tagVars, imageVars>>

-----------------------------------------------------------------------------
(* Downloads. *)

(* Mutant: only the other entrance asks for download_active_. *)
AnyTime == TRUE

NotDownloading == ~download_active

(* onDownloadV2Model() up to its processEvents(). *)
OnDownloadV2Model ==
  /\ Ready
  /\ v2_enabled /\ settings.version = "v2"
  /\ NotDownloading
  /\ Push(Frame("v2 manifest", v2_tag, TRUE))
  /\ UNCHANGED <<crashed, settingVars, engineVars, downloadVars, tagVars, local, imageVars>>

(* A double click changes the label before the download is refused. *)
OnTableDoubleClick ==
  /\ Ready
  /\ table # None
  /\ v2_backbone' \in manifest.models
  /\ v2_tag' = manifest.tag
  /\ IF NotDownloading
     THEN Push(Frame("v2 manifest", manifest.tag, TRUE)) ELSE UNCHANGED frames
  /\ UNCHANGED <<crashed, settings, model_dir, engineVars, downloadVars, tagVars, local,
                 imageVars>>

(* The manifest is there: only now the download counts as active, whatever  *)
(* ran in the meantime.                                                     *)
V2ManifestFetched ==
  /\ TopIs("v2 manifest")
  /\ \/ Pop /\ UNCHANGED downloadVars
     \/ /\ frames' = Append(Below, [Top EXCEPT !.at = "v2 transfer"])
        /\ download_active' = TRUE
        /\ check_enabled' = FALSE
        /\ v2_enabled' = FALSE
  /\ UNCHANGED <<crashed, settingVars, engineVars, tagVars, local, imageVars>>

(* The check button, with the V1 model chosen and not every file on disk.   *)
(* startModelDownload() disables one button only.                           *)
StartModelDownload ==
  /\ Ready
  /\ check_enabled /\ settings.version = "v1"
  /\ ~download_active
  /\ Push(Frame("v1 transfer", None, TRUE))
  /\ download_active' = TRUE
  /\ check_enabled' = FALSE
  /\ UNCHANGED <<crashed, settingVars, engineVars, v2_enabled, tagVars, local, imageVars>>

(* The other ways through onCheckDownloadModels(): nothing is missing, or   *)
(* the version is V2.                                                       *)
OnCheckDownloadModels ==
  /\ Ready
  /\ check_enabled /\ ~download_active
  /\ \/ settings.version = "v1" /\ Load(settings) /\ UNCHANGED frames
     \/ settings.version = "v2" /\ Push(Frame("v2 manifest", v2_tag, TRUE))
        /\ UNCHANGED engineVars
  /\ UNCHANGED <<crashed, settingVars, downloadVars, tagVars, local, imageVars>>

FinishDownload(ok) == download_active' = FALSE /\ check_enabled' = TRUE

(* Mutant: the V2 button is forgotten. *)
EnableNothing == UNCHANGED v2_enabled

EnableV2 == v2_enabled' = (v2_enabled \/ Top.at = "v2 transfer")

(* The end of both downloads: what is loaded is what the controls say now,  *)
(* the directory as well, wherever the files went.                          *)
DownloadFinished ==
  /\ TopIs("v1 transfer") \/ TopIs("v2 transfer")
  /\ Pop
  /\ \E ok \in BOOLEAN :
       /\ FinishDownload(ok)
       /\ IF ok THEN Load(settings) ELSE UNCHANGED engineVars
  /\ EnableV2
  /\ UNCHANGED <<crashed, settingVars, tagVars, local, imageVars>>

-----------------------------------------------------------------------------
(* The list of releases. *)

ClearTable == manifest' = NoManifest /\ table' = None

Refreshing == \E i \in DOMAIN frames : frames[i].at = "refresh"

(* onTagSelected().  The combo has no tags while they are fetched. *)
OnTagSelected ==
  /\ Ready
  /\ ~Refreshing
  /\ \E i \in (0..Len(tags)) \ {index} :
       /\ index' = i
       /\ IF i = 0 THEN ClearTable /\ UNCHANGED frames
          ELSE Push(Frame("select", tags[i], TRUE)) /\ UNCHANGED <<manifest, table>>
  /\ UNCHANGED <<crashed, settingVars, engineVars, downloadVars, refresh_enabled,
                 tags, local, imageVars>>

(* The manifest has come, or not, or is of no use: then the table keeps its *)
(* rows.  The tag is a reference into cached_tags_; when a refresh has      *)
(* replaced the list, reading it ends the program or finds something.       *)
TagSelected ==
  /\ TopIs("select")
  /\ Pop
  /\ \/ UNCHANGED <<manifest, table, crashed>>
     \/ manifest' = [tag |-> Top.tag, models |-> {}] /\ UNCHANGED <<table, crashed>>
     \/ /\ manifest' = [tag |-> Top.tag, models |-> Backbones]
        /\ table' = Top.tag
        /\ UNCHANGED crashed
     \/ ~Top.live /\ crashed' = TRUE /\ UNCHANGED <<manifest, table>>
  /\ UNCHANGED <<settingVars, engineVars, downloadVars, refresh_enabled, tags,
                 index, local, imageVars>>

(* onRefreshTags(): emptying the combo selects no tag. *)
OnRefreshTags ==
  /\ Ready
  /\ refresh_enabled
  /\ refresh_enabled' = FALSE
  /\ index' = 0
  /\ ClearTable
  /\ Push(Frame("refresh", None, TRUE))
  /\ UNCHANGED <<crashed, settingVars, engineVars, downloadVars, tags, local, imageVars>>

Stale(below) == [i \in DOMAIN below |->
                   IF below[i].at = "select" THEN [below[i] EXCEPT !.live = FALSE]
                   ELSE below[i]]

(* A tag that is selected again is fetched before the button comes back. *)
TagsFetched ==
  /\ TopIs("refresh")
  /\ \E listing \in Listings :
       LET again == {i \in DOMAIN listing : listing[i] = v2_tag}
       IN  /\ tags' = listing
           /\ refresh_enabled' = (again = {})
           /\ IF again = {}
              THEN frames' = Stale(Below) /\ index' = 0
              ELSE \E i \in again :
                     /\ index' = i
                     /\ frames' = Stale(Below) \o <<[Top EXCEPT !.at = "reselect"],
                                                   Frame("select", v2_tag, TRUE)>>
  /\ ClearTable
  /\ UNCHANGED <<crashed, settingVars, engineVars, downloadVars, local, imageVars>>

TagReselected ==
  /\ TopIs("reselect")
  /\ Pop
  /\ refresh_enabled' = TRUE
  /\ UNCHANGED <<crashed, settingVars, engineVars, downloadVars, tags, index,
                 manifest, table, local, imageVars>>

-----------------------------------------------------------------------------
(* Images and the batch. *)

Opened(i) == [path |-> i, data |-> None]

(* onOpenLocalImage() and onDownloadCaptcha(). *)
GetImage ==
  /\ Ready
  /\ \/ \E i \in LocalImages : image' = Opened(i)
     \/ \E i \in WebImages : image' = [path |-> i, data |-> i]
  /\ UNCHANGED <<frames, crashed, settingVars, engineVars, downloadVars, tagVars,
                 local, batch>>

Item(img) == [path |-> img.path, data |-> img.data, status |-> "waiting"]

(* onAddToBatch(), and onBatchSelectFiles() for the files that are picked. *)
AddToBatch ==
  /\ Ready
  /\ Len(batch) < MaxItems
  /\ \/ model_loaded /\ image.path # None /\ batch' = Append(batch, Item(image))
     \/ \E i \in LocalImages : batch' = Append(batch, Item([path |-> i, data |-> None]))
  /\ UNCHANGED <<frames, crashed, settingVars, engineVars, downloadVars, tagVars,
                 local, image>>

Waiting(item) == item.status = "waiting"

(* onBatchRecognize() from the first item to the last, with no events in    *)
(* between.                                                                 *)
OnBatchRecognize ==
  /\ Ready
  /\ model_loaded /\ engine # None
  /\ \E verdicts \in [DOMAIN batch -> {"recognised", "failed"}] :
       batch' = [k \in DOMAIN batch |->
                   IF Waiting(batch[k]) THEN [batch[k] EXCEPT !.status = verdicts[k]]
                   ELSE batch[k]]
  /\ UNCHANGED <<frames, crashed, settingVars, engineVars, downloadVars, tagVars,
                 local, image>>

OnBatchClear ==
  /\ Ready
  /\ batch' = <<>>
  /\ UNCHANGED <<frames, crashed, settingVars, engineVars, downloadVars, tagVars,
                 local, image>>

-----------------------------------------------------------------------------
Stopped == crashed /\ UNCHANGED vars

Next ==
  \/ OnReleaseModel \/ OnModelVersionChanged \/ PickPrecisionOrGpu \/ EditModelDir
  \/ OnScanLocalModels \/ OnLoadLocalModel
  \/ OnDownloadV2Model \/ OnTableDoubleClick \/ V2ManifestFetched
  \/ StartModelDownload \/ OnCheckDownloadModels \/ DownloadFinished
  \/ OnTagSelected \/ TagSelected \/ OnRefreshTags \/ TagsFetched \/ TagReselected
  \/ GetImage \/ AddToBatch \/ OnBatchRecognize \/ OnBatchClear
  \/ Stopped

Spec == Init /\ [][Next]_vars

-----------------------------------------------------------------------------
Transferring == {i \in DOMAIN frames : frames[i].at \in {"v1 transfer", "v2 transfer"}}

(* download_active_ is tested before a message box and events and set after  *)
(* them.  Still no two downloads run inside one another, and the flag is     *)
(* true exactly while one does.                                              *)
OneDownloadAtATime ==
  /\ Cardinality(Transferring) <= 1
  /\ download_active = (Transferring # {})

(* No button is lost: each is enabled again when the slot that disabled it   *)
(* has returned, however the slots were nested and whatever failed.          *)
ButtonsComeBack ==
  /\ check_enabled = (Transferring = {})
  /\ v2_enabled = (\A i \in Transferring : frames[i].at # "v2 transfer")
  /\ refresh_enabled = (\A i \in DOMAIN frames : frames[i].at \notin {"refresh", "reselect"})

(* While "model ready" is shown, the version, the precision and the GPU box  *)
(* are those of the model in memory, whichever slots ran in the middle of a  *)
(* download.  It is not so of the directory, which may be edited, nor of the *)
(* V2 label, which a double click changes.                                   *)
EngineIsCurrent == model_loaded => engine.settings = settings
==============================================================================
