--------------------------- MODULE ModelDownload ---------------------------
(***************************************************************************)
(* The two downloaders of model_download.cpp and the file they leave       *)
(* behind: downloadModelFiles (the six V1 files, three attempts of two     *)
(* sources, checksums from SHA256SUMS.txt) and downloadV2Artifact (the     *)
(* files of one artifact, one attempt of two sources, digests from the     *)
(* manifest).  Both write straight into the model directory, so a crash    *)
(* between two steps is part of the model.                                 *)
(*                                                                         *)
(* A file is what a loader would find: absent, partial (still open), bad   *)
(* (closed, but not the published bytes) or good.                          *)
(***************************************************************************)
EXTENDS Naturals

CONSTANTS
  Files,       \* the file names of a model
  MaxAttempts, \* MAX_ATTEMPTS of downloadModelFiles
  MaxCrashes   \* bound: how often the program is killed

Kinds == {"v1", "v2"}
Contents == {"absent", "partial", "bad", "good"}
NumSources == 2

ASSUME DownloadAssumption ==
  /\ Files # {}
  /\ MaxAttempts \in Nat \ {0}
  /\ MaxCrashes \in Nat

VARIABLES
  disk,      \* what is in the model directory
  sha_tool,  \* sha256sum can be run on this machine
  phase,     \* the step the downloader is at
  kind,      \* which of the two downloaders runs
  asked,     \* the files this call has to fetch
  todo,      \* the files not decided yet
  digests,   \* the files whose digest is known
  attempt, source,
  all_ok,    \* what the call will return
  cancelled, \* the progress callback stopped the call
  clean,     \* history: every transfer of this call delivered the good bytes
  opened,    \* history: the files this call has opened
  crashes    \* bound: crashes so far

callVars == <<kind, asked, digests>>
tryVars == <<attempt, source>>
vars == <<disk, sha_tool, phase, callVars, todo, tryVars, all_ok, cancelled,
          clean, opened, crashes>>

(* The program starts on whatever an earlier one left in the directory. *)
Init ==
  /\ disk \in [Files -> {"absent", "bad", "good"}]
  /\ sha_tool \in BOOLEAN
  /\ phase = "idle"
  /\ kind = "v1"
  /\ asked = {}
  /\ todo = {}
  /\ digests = {}
  /\ attempt = 1
  /\ source = 1
  /\ all_ok = TRUE
  /\ cancelled = FALSE
  /\ clean = TRUE
  /\ opened = {}
  /\ crashes = 0

(* missingModelFiles(): existence is all it looks at. *)
MissingModelFiles == {f \in Files : disk[f] = "absent"}

Begin(k, files, known) ==
  /\ phase = "idle"
  /\ phase' = "next"
  /\ kind' = k
  /\ asked' = files
  /\ todo' = files
  /\ digests' = known
  /\ all_ok' = TRUE
  /\ cancelled' = FALSE
  /\ clean' = TRUE
  /\ opened' = {}
  /\ UNCHANGED <<disk, sha_tool, tryVars, crashes>>

(* onCheckDownloadModels() calls downloadModelFiles() only when a file is   *)
(* missing.  The checksum list comes from the primary source alone; when    *)
(* that fetch fails no digest is known.                                     *)
DownloadModelFiles ==
  /\ MissingModelFiles # {}
  /\ \E known \in SUBSET Files : Begin("v1", MissingModelFiles, known)

(* downloadV2Artifact() fetches every file of the artifact, those on disk   *)
(* too.  A file without a sha256 member in the manifest has an empty digest. *)
DownloadV2Artifact ==
  \E known \in SUBSET Files : Begin("v2", Files, known)

(* One file after the other; which of them comes next makes no difference. *)
Current == CHOOSE f \in todo : TRUE

(* The head of the file loop. *)
NextFile ==
  /\ phase = "next"
  /\ todo # {}
  /\ phase' = "open"
  /\ attempt' = 1
  /\ source' = 1
  /\ UNCHANGED <<disk, sha_tool, callVars, todo, all_ok, cancelled, clean,
                 opened, crashes>>

(* Only the V1 downloader asks its callback, and only between two files. *)
Cancel ==
  /\ phase = "next"
  /\ kind = "v1"
  /\ todo # {}
  /\ phase' = "done"
  /\ all_ok' = FALSE
  /\ cancelled' = TRUE
  /\ UNCHANGED <<disk, sha_tool, callVars, todo, tryVars, clean, opened,
                 crashes>>

(* downloadUrlToFile() truncates the destination before the request. *)
Open ==
  /\ phase = "open"
  /\ phase' = "transfer"
  /\ disk' = [disk EXCEPT ![Current] = "partial"]
  /\ opened' = opened \cup {Current}
  /\ UNCHANGED <<sha_tool, callVars, todo, tryVars, all_ok, cancelled, clean,
                 crashes>>

Attempts == IF kind = "v1" THEN MaxAttempts ELSE 1

(* Mutant: the attempts are not counted. *)
TryForEver ==
  \/ /\ source < NumSources
     /\ source' = source + 1
     /\ phase' = "open"
     /\ UNCHANGED <<attempt, todo, all_ok>>
  \/ /\ source = NumSources
     /\ source' = 1
     /\ phase' = "open"
     /\ UNCHANGED <<attempt, todo, all_ok>>

(* "continue": the other source, then the next attempt, then the next file. *)
TryNext ==
  \/ /\ source < NumSources
     /\ source' = source + 1
     /\ phase' = "open"
     /\ UNCHANGED <<attempt, todo, all_ok>>
  \/ /\ source = NumSources
     /\ attempt < Attempts
     /\ source' = 1
     /\ attempt' = attempt + 1
     /\ phase' = "open"
     /\ UNCHANGED <<todo, all_ok>>
  \/ /\ source = NumSources
     /\ attempt = Attempts
     /\ all_ok' = FALSE
     /\ todo' = todo \ {Current}
     /\ phase' = "next"
     /\ UNCHANGED tryVars

(* The destination cannot be opened; removing what is there may work or not. *)
OpenFails ==
  /\ phase = "open"
  /\ disk' \in {disk, [disk EXCEPT ![Current] = "absent"]}
  /\ clean' = FALSE
  /\ TryNext
  /\ UNCHANGED <<sha_tool, callVars, cancelled, opened, crashes>>

(* curl failed or timed out, or the status is not 200: the file is removed. *)
TransferFails ==
  /\ phase = "transfer"
  /\ disk' = [disk EXCEPT ![Current] = "absent"]
  /\ clean' = FALSE
  /\ TryNext
  /\ UNCHANGED <<sha_tool, callVars, cancelled, opened, crashes>>

(* Status 200 and a complete body: the published bytes or others, to which  *)
(* a last block belongs that close() could not write, for nobody asks it.   *)
Receive(c) ==
  /\ phase = "transfer"
  /\ phase' = "verify"
  /\ disk' = [disk EXCEPT ![Current] = c]
  /\ clean' = (clean /\ c = "good")
  /\ UNCHANGED <<sha_tool, callVars, todo, tryVars, all_ok, cancelled,
                 opened, crashes>>

(* Mutant: the checksum list is mandatory. *)
DigestRequired(f, c) == ~sha_tool \/ (f \in digests /\ c = "good")

(* Without sha256sum nothing is verified.  Without a digest the V1          *)
(* downloader accepts the file; the V2 downloader compares with "".         *)
DigestAccepts(f, c) ==
  \/ ~sha_tool
  \/ f \in digests /\ c = "good"
  \/ f \notin digests /\ kind = "v1"

(* Mutant: the result of the last file replaces that of the call. *)
AcceptClears ==
  /\ phase = "verify"
  /\ DigestAccepts(Current, disk[Current])
  /\ phase' = "next"
  /\ todo' = todo \ {Current}
  /\ all_ok' = TRUE
  /\ UNCHANGED <<disk, sha_tool, callVars, tryVars, cancelled, clean, opened,
                 crashes>>

Accept ==
  /\ phase = "verify"
  /\ DigestAccepts(Current, disk[Current])
  /\ phase' = "next"
  /\ todo' = todo \ {Current}
  /\ UNCHANGED <<disk, sha_tool, callVars, tryVars, all_ok, cancelled, clean,
                 opened, crashes>>

(* Mutant: a mismatch is retried without removing the file. *)
RejectLeaves ==
  /\ phase = "verify"
  /\ ~DigestAccepts(Current, disk[Current])
  /\ TryNext
  /\ UNCHANGED <<disk, sha_tool, callVars, cancelled, clean, opened, crashes>>

Reject ==
  /\ phase = "verify"
  /\ ~DigestAccepts(Current, disk[Current])
  /\ disk' = [disk EXCEPT ![Current] = "absent"]
  /\ TryNext
  /\ UNCHANGED <<sha_tool, callVars, cancelled, clean, opened, crashes>>

Finish ==
  /\ phase = "next"
  /\ todo = {}
  /\ phase' = "done"
  /\ UNCHANGED <<disk, sha_tool, callVars, todo, tryVars, all_ok, cancelled,
                 clean, opened, crashes>>

(* The caller takes the result; another download may be asked for. *)
Return ==
  /\ phase = "done"
  /\ phase' = "idle"
  /\ UNCHANGED <<disk, sha_tool, callVars, todo, tryVars, all_ok, cancelled,
                 clean, opened, crashes>>

(* The program is killed; only the disk survives, and it is started again. *)
Crash ==
  /\ phase \notin {"idle", "done"}
  /\ crashes < MaxCrashes
  /\ crashes' = crashes + 1
  /\ phase' = "idle"
  /\ UNCHANGED <<disk, sha_tool, callVars, todo, tryVars, all_ok, cancelled,
                 clean, opened>>

Download ==
  \/ NextFile \/ Open \/ OpenFails \/ TransferFails
  \/ \E c \in {"bad", "good"} : Receive(c)
  \/ Accept \/ Reject \/ Finish

Next ==
  \/ DownloadModelFiles \/ DownloadV2Artifact
  \/ Download \/ Cancel \/ Return \/ Crash

Spec == Init /\ [][Next]_vars

(* The downloading thread is never blocked for ever: every transfer has a   *)
(* connect timeout and a total timeout (curl_util.cpp:70-71).               *)
FairSpec == Spec /\ WF_vars(Download)
-----------------------------------------------------------------------------
(* All variables stay in their types, the current file included. *)
TypeOK ==
  /\ disk \in [Files -> Contents]
  /\ sha_tool \in BOOLEAN
  /\ phase \in {"idle", "next", "open", "transfer", "verify", "done"}
  /\ kind \in Kinds
  /\ asked \in SUBSET Files
  /\ todo \in SUBSET Files
  /\ phase \in {"open", "transfer", "verify"} => todo # {}
  /\ digests \in SUBSET Files
  /\ attempt \in 1..MaxAttempts
  /\ source \in 1..NumSources
  /\ all_ok \in BOOLEAN /\ cancelled \in BOOLEAN /\ clean \in BOOLEAN
  /\ opened \in SUBSET Files
  /\ crashes \in 0..MaxCrashes

Unverifiable(f) == ~sha_tool \/ (kind = "v1" /\ f \notin digests)

(* A call that returns true has left every file it was asked for complete   *)
(* on disk, with the published bytes wherever it could check them: no       *)
(* failure of one file, source or attempt is forgotten on the way.          *)
SuccessMeansFiles ==
  phase = "done" /\ all_ok =>
    \A f \in asked : disk[f] = "good" \/ (disk[f] = "bad" /\ Unverifiable(f))

(* A half-written file is on disk only while it is being transferred, or    *)
(* because the program was killed: every failing path removes it.           *)
PartialOnlyInTransfer ==
  \A f \in Files : disk[f] = "partial" =>
    \/ phase = "transfer" /\ f = Current
    \/ crashes > 0

(* Between two files and at the end, what this call has opened is the       *)
(* published file, or gone, or bad because it could not be checked: nothing *)
(* it rejected is left behind for a loader to find.                         *)
RejectedIsRemoved ==
  phase \in {"next", "done"} =>
    \A f \in opened : \/ disk[f] \in {"absent", "good"}
                      \/ disk[f] = "bad" /\ Unverifiable(f)

(* A call never truncates the good file it has fetched itself: no second    *)
(* source or attempt follows a success.                                     *)
NeverRefetched ==
  [][ phase = "open" /\ phase' = "transfer" /\ Current \in opened
        => disk[Current] # "good" ]_vars

(* downloadModelFiles() with a network that delivers every file succeeds,   *)
(* whether or not the checksum list could be fetched.                       *)
CleanV1Succeeds ==
  phase = "done" /\ kind = "v1" /\ clean /\ ~cancelled => all_ok

(* Every call ends, whatever the sources do: retries are bounded. *)
DownloadReturns == phase = "next" ~> phase \in {"done", "idle"}
=============================================================================
