------------------------------- MODULE CliRun -------------------------------
(***************************************************************************)
(* The command line client (cli_config.cpp, cli_runner.cpp, cli_files.cpp, *)
(* cli_remote.cpp): invocations one after the other on one model directory, *)
(* each a process of its own that parses its arguments, runs one of four   *)
(* commands and exits.  An OCR command uses the engine of CasOcr, a server *)
(* that may fail at any request, or both.                                  *)
(*                                                                         *)
(* Not modelled: how the output is laid out, and health checks other than  *)
(* that nothing depends on them.                                           *)
(***************************************************************************)
EXTENDS CasOcr, ReleaseTags, Base64

CONSTANTS
  Invocations, \* the argument lists: sub, input, server, compare, json,
               \* version, precision, tag, backbone
  Content,     \* Content[name] is the bytes of a file
  NoTag,       \* --tag was not given
  TagReplies,  \* what the two release listings may answer
  Fallback,    \* the tags fetchV2ReleaseTags() knows itself
  Manifests,   \* what a source may serve as a manifest: a sequence of models
               \* [backbone, stem, precisions], <<>> when it does not parse
  Leftovers,   \* the weights the first invocation may find
  MaxRuns      \* bound: how many times the program is started

(* A command names finitely many files, which can be read, what they hold   *)
(* are bytes, and parse_args() takes no other version or precision.         *)
ASSUME CliAssumption ==
  /\ Content \in [DOMAIN Content -> Seq(Bytes)]
  /\ \A a \in Invocations : /\ a.version \in Versions /\ a.precision \in Precisions
                             /\ IsFiniteSet(a.input.entries)
                             /\ \A e \in a.input.entries : e.name \in DOMAIN Content
  /\ TagReplies \subseteq Seq(Seq(Tags))

VARIABLES
  sha_tool,  \* sha256sum can be run on this machine
  runs,      \* bound: invocations so far
  args,      \* the arguments of this one
  pc,
  replies,   \* what the release listings answer this time
  tag,       \* the release the command works on
  source,    \* which source the manifest is asked from
  manifest,
  images,    \* image_paths
  rows,      \* what was reported, one entry for each image done
  summary,   \* print_compare_summary()
  requests,  \* the requests of this run: the file named and what the server read
  exit,      \* the exit status, "" while it runs
  fetched    \* history: the weights the last download of them reported as complete

engine == <<v1, v2, is_init, loaded, status, reply>>
files == <<disk, has_dir, sha_tool, fetched>>
asking == <<replies, tag, source, manifest>>
batch == <<images, rows, summary, requests>>
cliVars == <<engine, files, runs, args, pc, asking, batch, exit>>

NoSummary == <<>>
Failed == [ok |-> FALSE, value |-> ""]

CliInit ==
  /\ \E there \in Leftovers :
       disk = [w \in Weights |-> IF w \in there THEN "whole" ELSE "absent"]
  /\ has_dir = TRUE
  /\ v1 = {} /\ v2 = {} /\ is_init = FALSE
  /\ loaded = NotLoaded("V2") /\ status = "NotLoaded"
  /\ reply = Reply("none", FALSE, "V2")
  /\ sha_tool \in BOOLEAN
  /\ runs = 0
  /\ args \in Invocations
  /\ pc = "exited"
  /\ replies = <<>> /\ tag = NoTag /\ source = 1 /\ manifest = <<>>
  /\ images = <<>> /\ rows = <<>> /\ summary = NoSummary /\ requests = <<>>
  /\ exit = "0"
  /\ fetched = {}

(* main(): a new process, with nothing left of the last but the files. *)
Start(a) ==
  /\ pc = "exited" /\ runs < MaxRuns
  /\ runs' = runs + 1
  /\ args' = a
  /\ pc' = "parse"
  /\ exit' = ""
  /\ replies' \in TagReplies
  /\ tag' = NoTag /\ source' = 1 /\ manifest' = <<>>
  /\ images' = <<>> /\ rows' = <<>> /\ summary' = NoSummary /\ requests' = <<>>
  /\ v1' = {} /\ v2' = {} /\ is_init' = FALSE
  /\ loaded' = NotLoaded("V2") /\ status' = "NotLoaded"
  /\ reply' = Reply("none", FALSE, "V2")
  /\ UNCHANGED files

Exit(code) ==
  /\ pc' = "exited"
  /\ exit' = code

(* parse_server_endpoint() and the tests at the end of parse_args(). *)
Refused(a) ==
  /\ a.sub = "ocr"
  /\ \/ a.input.kind = "none"
     \/ a.server = "bad port"
     \/ a.compare /\ a.server = "none"

NeedLocal(a) == a.server = "none" \/ a.compare
NeedRemote(a) == a.server # "none"

(* parse_args() and the dispatch of run_cli(). *)
ParseArgs ==
  /\ pc = "parse"
  /\ \/ /\ Refused(args)
        /\ Exit("1")
     \/ /\ args.sub = "download" /\ args.version = "V1"
        /\ Exit("1")
     \/ /\ args.sub # "ocr"
        /\ args.sub = "download" => args.version = "V2"
        /\ pc' = "tags"
        /\ UNCHANGED exit
     \/ /\ args.sub = "ocr" /\ ~Refused(args)
        /\ pc' = IF NeedLocal(args) THEN "load" ELSE "collect"
        /\ UNCHANGED exit
  /\ UNCHANGED <<engine, files, runs, args, asking, batch>>

(* "list-tags" *)
ListTags ==
  /\ pc = "tags" /\ args.sub = "list-tags"
  /\ \E listing \in FetchV2ReleaseTags(replies, Fallback) : rows' = listing
  /\ Exit("0")
  /\ UNCHANGED <<engine, files, runs, args, asking, images, summary, requests>>

(* --tag, or fetchLatestV2Tag(). *)
ChooseTag ==
  /\ pc = "tags" /\ args.sub # "list-tags"
  /\ \/ args.tag # NoTag /\ tag' = args.tag
     \/ /\ args.tag = NoTag
        /\ \E listing \in FetchV2ReleaseTags(replies, Fallback) : tag' = Head(listing)
  /\ pc' = "manifest"
  /\ UNCHANGED <<engine, files, runs, args, replies, source, manifest, batch, exit>>

(* downloadReleaseManifest() from GitHub, then from Gitee. *)
FetchManifest ==
  /\ pc = "manifest"
  /\ \/ /\ manifest' \in Manifests
        /\ pc' = "models"
        /\ UNCHANGED <<source, exit>>
     \/ /\ source = 1
        /\ source' = 2
        /\ UNCHANGED <<manifest, pc, exit>>
     \/ /\ source = 2
        /\ Exit("1")
        /\ UNCHANGED <<source, manifest>>
  /\ UNCHANGED <<engine, files, runs, args, replies, tag, batch>>

(* The rest of "list-models": a manifest that does not parse lists nothing. *)
ListModels ==
  /\ pc = "models" /\ args.sub = "list-models"
  /\ rows' = manifest
  /\ Exit("0")
  /\ UNCHANGED <<engine, files, runs, args, asking, images, summary, requests>>

RefuseEmptyManifest ==
  /\ pc = "models" /\ args.sub = "download" /\ manifest = <<>>
  /\ Exit("1")
  /\ UNCHANGED <<engine, files, runs, args, asking, batch>>

(* The first model of the backbone asked for, and the first of all when     *)
(* none was asked for or none has it.                                       *)
Target(models, backbone) ==
  LET match == {i \in DOMAIN models : models[i].backbone = backbone}
  IN  IF match = {} THEN models[1] ELSE models[Min(match)]

(* Mutant: the precision of the weights is the default one. *)
DefaultPrecision(weight) == [weight EXCEPT !.precision = "fp16"]

(* release_asset_name, in the model directory itself. *)
Destination(weight) == weight

(* downloadV2Artifact(), which ModelDownload has in detail: without the     *)
(* artifact nothing is touched; otherwise the files are truncated at once,  *)
(* removed when they do not arrive whole, and closed unverified where       *)
(* sha256sum cannot be run.                                                 *)
Download ==
  LET target == Target(manifest, args.backbone)
      weight == Destination(Weight("root", target.stem, args.precision))
  IN
  /\ pc = "models" /\ args.sub = "download" /\ manifest # <<>>
  /\ \/ /\ args.precision \notin target.precisions
        /\ Exit("1")
        /\ UNCHANGED <<disk, fetched>>
     \/ /\ args.precision \in target.precisions
        /\ disk' = [disk EXCEPT ![weight] = "absent"]
        /\ fetched' = fetched \ {weight}
        /\ Exit("1")
     \/ /\ args.precision \in target.precisions
        /\ \E content \in {"whole"} \cup IF sha_tool THEN {} ELSE {"damaged"} :
             disk' = [disk EXCEPT ![weight] = content]
        /\ fetched' = fetched \cup {Weight("root", target.stem, args.precision)}
        /\ Exit("0")
  /\ UNCHANGED <<engine, has_dir, sha_tool, runs, args, asking, batch>>

(* The process is killed while it downloads. *)
KilledInDownload ==
  LET target == Target(manifest, args.backbone)
      weight == Destination(Weight("root", target.stem, args.precision))
  IN
  /\ pc = "models" /\ args.sub = "download" /\ manifest # <<>>
  /\ args.precision \in target.precisions
  /\ \E content \in {"absent", "damaged"} : disk' = [disk EXCEPT ![weight] = content]
  /\ fetched' = fetched \ {weight}
  /\ Exit("killed")
  /\ UNCHANGED <<engine, has_dir, sha_tool, runs, args, asking, batch>>

(* load_model(); without a model the command ends. *)
LoadForOcr ==
  /\ pc = "load"
  /\ LoadModel([version |-> args.version, precision |-> args.precision,
                    use_gpu |-> FALSE, num_threads |-> 0])
  /\ IF reply'.ok THEN pc' = "collect" /\ UNCHANGED exit ELSE Exit("1")
  /\ UNCHANGED <<sha_tool, fetched, runs, args, asking, batch>>

(* collect_image_paths(): the image files of a directory in the order of    *)
(* their names; a single file is taken whatever it is called.               *)
ImageNames(input) ==
  {e.name : e \in {e \in input.entries : input.kind = "dir" => e.image}}

CollectImagePaths(input) ==
  {paths \in SetToSeqs(ImageNames(input)) :
     \A i, j \in DOMAIN paths : i < j => paths[i] < paths[j]}

Collect ==
  /\ pc = "collect"
  /\ IF args.input.kind = "missing" \/ ImageNames(args.input) = {}
     THEN Exit("1") /\ UNCHANGED images
     ELSE pc' = "images" /\ images' \in CollectImagePaths(args.input) /\ UNCHANGED exit
  /\ UNCHANGED <<engine, files, runs, args, asking, rows, summary, requests>>

Current == images[Len(rows) + 1]

(* predict() of the path: the file may have gone since it was listed, and   *)
(* an image may not be recognised.                                          *)
Results == {Failed} \cup {[ok |-> TRUE, value |-> v] : v \in {"1", "2"}}

(* call_remote_ocr(): no connection or no answer, a status other than 200,  *)
(* and an answer of either verdict; a field the body does not have reads as *)
(* FALSE or "".                                                             *)
RemoteAnswers ==
  {[status |-> "none", success |-> FALSE, value |-> ""],
   [status |-> "error", success |-> FALSE, value |-> ""],
   [status |-> "200", success |-> FALSE, value |-> ""]}
  \cup {[status |-> "200", success |-> TRUE, value |-> v] : v \in {"1", "2"}}

(* call_remote_ocr_file() and what POST /api/ocr reads from its body: an    *)
(* unreadable file is not sent; a request may have been served although     *)
(* its answer is lost.                                                      *)
CallRemote(path, result) ==
  \/ /\ result = Failed
     /\ UNCHANGED requests
  \/ \E answer \in RemoteAnswers :
       /\ result = IF answer.status = "200"
                   THEN [ok |-> answer.success, value |-> answer.value]
                   ELSE Failed
       /\ requests' = Append(requests, [path |-> path,
                                        read |-> Decode(Encode(Content[path]))])

(* One turn of the loop of each mode. *)
LocalImage ==
  /\ pc = "images" /\ ~NeedRemote(args) /\ Len(rows) < Len(images)
  /\ \E result \in Results :
       rows' = Append(rows, [path |-> Current, local |-> result])
  /\ UNCHANGED <<engine, files, runs, args, pc, asking, images, summary, requests, exit>>

RemoteImage ==
  /\ pc = "images" /\ ~NeedLocal(args) /\ Len(rows) < Len(images)
  /\ \E result \in Results :
       /\ CallRemote(Current, result)
       /\ rows' = Append(rows, [path |-> Current, remote |-> result])
  /\ UNCHANGED <<engine, files, runs, args, pc, asking, images, summary, exit>>

CompareImage ==
  /\ pc = "images" /\ args.compare /\ Len(rows) < Len(images)
  /\ \E here, there \in Results :
       /\ CallRemote(Current, there)
       /\ rows' = Append(rows, [path |-> Current, local |-> here, remote |-> there])
  /\ UNCHANGED <<engine, files, runs, args, pc, asking, images, summary, exit>>

(* Mutant: two failures agree. *)
SameText(row) == row.local.value = row.remote.value

(* compare_results_match() *)
Matches(row) ==
  row.local.ok /\ row.remote.ok /\ row.local.value = row.remote.value

Count(entries, Test(_)) == Cardinality({i \in DOMAIN entries : Test(entries[i])})

(* print_compare_summary(): the failures are what is left over. *)
Summary(entries) ==
  LET both == Count(entries, LAMBDA r : r.local.ok /\ r.remote.ok)
      here == Count(entries, LAMBDA r : r.local.ok /\ ~r.remote.ok)
      there == Count(entries, LAMBDA r : ~r.local.ok /\ r.remote.ok)
  IN  [both_ok |-> both, matching |-> Count(entries, Matches),
       local_only |-> here, remote_only |-> there,
       both_fail |-> Len(entries) - both - here - there]

(* The end of the loop: the exit status is 0 whatever became of the images. *)
FinishImages ==
  /\ pc = "images" /\ Len(rows) = Len(images)
  /\ summary' = IF args.compare /\ ~args.json THEN Summary(rows) ELSE NoSummary
  /\ Exit("0")
  /\ UNCHANGED <<engine, files, runs, args, asking, images, rows, requests>>

(* No more invocations within the bound. *)
Ended ==
  /\ pc = "exited" /\ runs = MaxRuns
  /\ UNCHANGED cliVars

CliNext ==
  \/ \E a \in Invocations : Start(a)
  \/ ParseArgs
  \/ ListTags
  \/ ChooseTag
  \/ FetchManifest
  \/ ListModels
  \/ RefuseEmptyManifest
  \/ Download
  \/ KilledInDownload
  \/ LoadForOcr
  \/ Collect
  \/ LocalImage
  \/ RemoteImage
  \/ CompareImage
  \/ FinishImages
  \/ Ended

CliSpec == CliInit /\ [][CliNext]_cliVars
-----------------------------------------------------------------------------
(* What is reported is about the images asked for, each once and in order,  *)
(* and the counts of the comparison agree with the table above them: every  *)
(* image is in one of four groups, and no more images match than were       *)
(* recognised on both sides, so that the consistency rate is at most 100%.  *)
(* The groups and the match of a row are counted apart, and the last group  *)
(* is what the others leave (cli_runner.cpp:123-149).                       *)
ReportAddsUp ==
  summary # NoSummary =>
    /\ [i \in DOMAIN rows |-> rows[i].path] = images
    /\ summary.matching <= summary.both_ok
    /\ summary.both_fail = Cardinality({i \in DOMAIN rows :
                                          ~rows[i].local.ok /\ ~rows[i].remote.ok})
    /\ summary.both_ok + summary.local_only + summary.remote_only
         + summary.both_fail = Len(images)

(* Every request is about an image of this run, and what the server decodes *)
(* is that file byte for byte, whatever its length (base64.cpp,             *)
(* cli_remote.cpp:128-131).                                                 *)
ServerReadsTheFile ==
  \A i \in DOMAIN requests :
    /\ requests[i].path \in {images[j] : j \in DOMAIN images}
    /\ requests[i].read.ok
    /\ requests[i].read.bytes = Content[requests[i].path]

(* A command without --tag works on a tag of the first source that lists a   *)
(* V2 tag at all, and on one whose three numbers no other V2 tag there       *)
(* exceeds (model_download.cpp:615-680).  That is what "newest" comes to:    *)
(* model_download.h:92-94 promises "newest-first" and "v2.*", but a          *)
(* pre-release counts as its release, and v20.1.0 as a V2 tag above both.    *)
LatestHasHighestNumbers ==
  args.sub # "list-tags" /\ args.tag = NoTag /\ tag # NoTag =>
    \/ /\ \A i \in DOMAIN replies : V2Tags(replies[i]) = {}
       /\ tag = Head(Fallback)
    \/ \E i \in DOMAIN replies :
         /\ tag \in V2Tags(replies[i])
         /\ \A j \in DOMAIN replies : j < i => V2Tags(replies[j]) = {}
         /\ \A t \in V2Tags(replies[i]) : ~V2Less(tag, t)

(* A download that exits with 0 leaves something the next invocation can    *)
(* use: while the last download of the weights V2Engine reads succeeded, on *)
(* a machine with sha256sum and a directory without a v2/ of that           *)
(* precision, the engine loads, whatever was downloaded, killed or refused  *)
(* in between (downloadV2Artifact, resolve_v2_dir, V2Engine::load).         *)
DownloadedModelLoads ==
  \A p \in Precisions :
    sha_tool /\ Weight("root", V2Stems[1], p) \in fetched
      /\ (\A s \in Elems(V2Stems) : disk[Weight("v2", s, p)] = "absent")
    => CanLoad("V2", p)
=============================================================================
