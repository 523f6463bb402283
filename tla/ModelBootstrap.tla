--------------------------- MODULE ModelBootstrap ---------------------------
(***************************************************************************)
(* The container's model bootstrap: docker_download_models.sh, run by      *)
(* docker_runtime_entrypoint.sh before the server and again whenever the   *)
(* container is restarted (docker-compose.yml: restart: unless-stopped).   *)
(* The server is its outcome: it serves, or it fails to load its model and *)
(* the container ends (ServerLifecycle has the steps in between).          *)
(*                                                                         *)
(* download_v2 asks for the manifest before it looks at the disk.  When    *)
(* the manifest yields a file, the assignment to V2_EXPECTED_HASHES, an    *)
(* indexed array subscripted with a file name, is an arithmetic error that *)
(* makes bash abandon the enclosing command; the script goes on behind it. *)
(*                                                                         *)
(* download_v1 moves a complete temporary file into place and verifies it  *)
(* there.  Temporary files are never read again and are left out.          *)
(***************************************************************************)
EXTENDS Naturals

CONSTANTS
  V1Files,      \* V1_MODEL_FILES
  MaxAttempts,  \* MAX_DOWNLOAD_ATTEMPTS
  AutoDownload, \* SHMTU_AUTO_DOWNLOAD_MODELS
  HasPython,    \* python3 is installed in the image
  Checksums,    \* what SHA256SUMS.txt may turn out to cover, {} when not fetched
  MaxKills      \* bound: how often the container is killed

ASSUME BootstrapAssumption ==
  /\ V1Files # {}
  /\ MaxAttempts \in Nat \ {0}
  /\ {AutoDownload, HasPython} \subseteq BOOLEAN
  /\ Checksums \in SUBSET SUBSET V1Files /\ Checksums # {}
  /\ MaxKills \in Nat

Contents == {"absent", "empty", "bad", "good"}

VARIABLES
  wanted,   \* model versions: SHMTU_MODEL_VERSION, and v1 for SHMTU_INCLUDE_V1=1
  v1_dir,   \* ${MODEL_DIR}/v1
  v2_ready, \* the files of the manifest are in ${MODEL_DIR}/v2
  online,   \* the release server can be reached and delivers what it publishes
  pc,       \* the step the script is at, or that the server serves
  missing,  \* V1 files still to fetch
  expected, \* files with an entry in V1_EXPECTED_HASHES
  attempt,
  code,     \* exit status of the script, or of the container
  unchecked, \* history: files put in place and never verified
  kills     \* bound: kills so far

dirVars == <<v1_dir, v2_ready>>
envVars == <<wanted, online>>
vars == <<envVars, dirVars, pc, missing, expected, attempt, code,
          unchecked, kills>>

(* need_v1, need_v2 *)
NeedV1 == "v1" \in wanted
NeedV2 == "v2" \in wanted

Init ==
  /\ wanted \in {{"v1"}, {"v2"}, {"v1", "v2"}}
  /\ v1_dir \in [V1Files -> {"absent", "good"}]
  /\ v2_ready \in BOOLEAN
  /\ online \in BOOLEAN
  /\ pc = "begin"
  /\ missing = {}
  /\ expected = {}
  /\ attempt = 1
  /\ code = 0
  /\ unchecked = {}
  /\ kills = 0

Exit(c) == pc' = "exit" /\ code' = c

(* The end of the script, unless V1 is wanted as well. *)
AfterV2 ==
  IF NeedV1 THEN pc' = "v1" /\ UNCHANGED code ELSE Exit(0)

(* download_v2, whatever is on disk: no manifest, no python3 and no matching *)
(* artifact end the script, a match makes bash skip the rest of the block.   *)
DownloadV2 ==
  /\ pc = "begin"
  /\ IF NeedV2
     THEN \/ ~(online /\ HasPython) /\ Exit(1)
          \/ HasPython /\ (Exit(1) \/ AfterV2)
     ELSE pc' = "v1" /\ UNCHANGED code
  /\ UNCHANGED <<dirVars, envVars, missing, expected, attempt, unchecked, kills>>

Present(f) == v1_dir[f] \in {"bad", "good"}   \* [ -s file ]

(* Mutant: every file is fetched again at every start. *)
ScanNothing ==
  /\ pc = "v1"
  /\ missing' = V1Files
  /\ IF ~AutoDownload THEN Exit(1) /\ UNCHANGED expected
     ELSE /\ expected' \in IF online THEN Checksums ELSE Checksums \cup {{}}
          /\ pc' = "download"
          /\ UNCHANGED code
  /\ attempt' = 1
  /\ UNCHANGED <<dirVars, envVars, unchecked, kills>>

(* Mutant: a missing file is an error even when it may be downloaded. *)
ScanRefuses ==
  /\ pc = "v1"
  /\ missing' = {f \in V1Files : ~Present(f)}
  /\ IF missing' = {} THEN Exit(0) ELSE Exit(1)
  /\ attempt' = 1
  /\ UNCHANGED <<dirVars, envVars, expected, unchecked, kills>>

(* download_v1 up to its loop: what is missing, and the checksum list. *)
ScanV1 ==
  /\ pc = "v1"
  /\ missing' = {f \in V1Files : ~Present(f)}
  /\ IF missing' = {} THEN Exit(0) /\ UNCHANGED expected
     ELSE IF ~AutoDownload THEN Exit(1) /\ UNCHANGED expected
     ELSE /\ expected' \in IF online THEN Checksums ELSE Checksums \cup {{}}
          /\ pc' = "download"
          /\ UNCHANGED code
  /\ attempt' = 1
  /\ UNCHANGED <<dirVars, envVars, unchecked, kills>>

(* One file after the other; which of them comes next makes no difference. *)
Current == CHOOSE f \in missing : TRUE

FileDone ==
  /\ missing' = missing \ {Current}
  /\ attempt' = 1
  /\ pc' = "download"
  /\ UNCHANGED code

TryAgain ==
  IF attempt < MaxAttempts
  THEN attempt' = attempt + 1 /\ pc' = "download" /\ UNCHANGED <<missing, code>>
  ELSE Exit(1) /\ UNCHANGED <<missing, attempt>>

(* download_one: curl -f fails and the destination is as it was ... *)
DownloadFails ==
  /\ pc = "download"
  /\ missing # {}
  /\ ~online
  /\ TryAgain
  /\ UNCHANGED <<dirVars, envVars, expected, unchecked, kills>>

(* ... or mv puts a complete body in place, which is checked only now. *)
DownloadOne ==
  /\ pc = "download"
  /\ missing # {}
  /\ \E c \in IF online THEN {"good"} ELSE {"empty", "bad", "good"} :
       v1_dir' = [v1_dir EXCEPT ![Current] = c]
  /\ IF Current \in expected
     THEN pc' = "verify" /\ UNCHANGED <<missing, attempt, code>>
     ELSE FileDone
  /\ unchecked' = IF Current \in expected THEN unchecked \ {Current}
                  ELSE unchecked \cup {Current}
  /\ UNCHANGED <<v2_ready, envVars, expected, kills>>

(* Mutant: a mismatch is retried, and the file counts as present in the end. *)
VerifyLeaves ==
  /\ pc = "verify"
  /\ IF v1_dir[Current] = "good" \/ attempt = MaxAttempts
     THEN FileDone /\ UNCHANGED v1_dir
     ELSE TryAgain /\ UNCHANGED v1_dir
  /\ UNCHANGED <<v2_ready, envVars, expected, unchecked, kills>>

VerifySha256 ==
  /\ pc = "verify"
  /\ IF v1_dir[Current] = "good"
     THEN FileDone /\ UNCHANGED v1_dir
     ELSE TryAgain /\ v1_dir' = [v1_dir EXCEPT ![Current] = "absent"]
  /\ UNCHANGED <<v2_ready, envVars, expected, unchecked, kills>>

FinalCheck ==
  /\ pc = "download"
  /\ missing = {}
  /\ IF \A f \in V1Files : Present(f) THEN Exit(0) ELSE Exit(1)
  /\ UNCHANGED <<dirVars, envVars, missing, expected, attempt, unchecked, kills>>

(* The script's status is 0. *)
Succeeded == pc \in {"exit", "serving"} /\ code = 0

(* The container has ended without having served. *)
Failed == pc = "killed" \/ (pc = "exit" /\ code # 0)

(* The end of the entrypoint: exec of the server.  The published files load; *)
(* a damaged one may load or not; V2 is left open, for the server downloads  *)
(* what it misses itself.                                                    *)
StartServer ==
  /\ pc = "exit"
  /\ code = 0
  /\ \/ pc' = "serving" /\ UNCHANGED code
     \/ /\ NeedV2 \/ \E f \in V1Files : v1_dir[f] # "good"
        /\ Exit(1)
  /\ UNCHANGED <<dirVars, envVars, missing, expected, attempt, unchecked, kills>>

(* set -e of the entrypoint ends the container, or the server ends, and the *)
(* container is restarted.                                                  *)
Restart ==
  /\ Failed \/ pc = "serving"
  /\ pc' = "begin"
  /\ expected' = {}
  /\ UNCHANGED <<dirVars, envVars, missing, attempt, code, unchecked, kills>>

(* Between mv and the verification a file is left that never was verified. *)
Kill ==
  /\ ~Failed
  /\ kills < MaxKills
  /\ kills' = kills + 1
  /\ pc' = "killed"
  /\ unchecked' = IF pc = "verify" THEN unchecked \cup {Current} ELSE unchecked
  /\ UNCHANGED <<dirVars, envVars, missing, expected, attempt, code>>

(* The environment: the network comes and goes. *)
Network ==
  /\ online' = ~online
  /\ UNCHANGED <<wanted, dirVars, pc, missing, expected, attempt, code, unchecked,
                 kills>>

Script ==
  \/ DownloadV2 \/ ScanV1 \/ DownloadFails \/ DownloadOne \/ VerifySha256
  \/ FinalCheck

Next == Script \/ StartServer \/ Restart \/ Kill \/ Network

Spec == Init /\ [][Next]_vars

(* While the release server answers the script is never blocked for ever;   *)
(* without it nothing is assumed, for curl is run without a total timeout.  *)
(* The entrypoint goes on, and Docker restarts a container that failed.     *)
FairSpec ==
  /\ Spec
  /\ WF_vars(Script /\ online)
  /\ WF_vars(StartServer)
  /\ WF_vars(Restart /\ Failed)
-----------------------------------------------------------------------------
(* All variables stay in their types, the current file included. *)
TypeOK ==
  /\ wanted \in (SUBSET {"v1", "v2"}) \ {{}}
  /\ v1_dir \in [V1Files -> Contents]
  /\ v2_ready \in BOOLEAN
  /\ online \in BOOLEAN
  /\ pc \in {"begin", "v1", "download", "verify", "exit", "serving",
            "killed"}
  /\ missing \in SUBSET V1Files
  /\ pc = "verify" => missing # {}
  /\ expected \in SUBSET V1Files
  /\ attempt \in 1..MaxAttempts
  /\ code \in 0..1
  /\ unchecked \in SUBSET V1Files
  /\ kills \in 0..MaxKills

Serving == pc = "serving"

(* The script ends well only with every V1 file in place and not empty, and *)
(* with the published bytes, two kinds of files apart: those for which no   *)
(* checksum was to be had, and those a kill left between mv and their       *)
(* verification, which the next start takes for present.  "v1 uses          *)
(* SHA256SUMS.txt to verify the files; what fails is deleted and fetched    *)
(* again" (model-management.md).                                            *)
VerifiedModel ==
  Succeeded /\ NeedV1 =>
    \A f \in V1Files : Present(f) /\ (v1_dir[f] = "good" \/ f \in unchecked)

(* No step takes away or replaces a good file, that of an earlier container *)
(* included: what is on the volume survives failures of the network.        *)
GoodFilesStay ==
  [][ \A f \in V1Files : v1_dir[f] = "good" => v1_dir'[f] = "good" ]_vars

(* A damaged file in place that no start will look into again: the server   *)
(* may fail on it at every restart.                                         *)
Trapped == \E f \in unchecked : v1_dir[f] = "bad"

(* Once the release server stays reachable, a V1 container comes to serve,  *)
(* whatever kills and failed starts came before -- unless one of them, or a *)
(* release without a checksum, has left a damaged file that was never       *)
(* verified: that one stays, and with it the container may restart for ever.*)
ServesOnceOnline ==
  ~NeedV2 /\ <>[]online => <>Serving \/ <>[]Trapped

(* "Default behavior: download V2 weights into ${MODEL_DIR}/v2/"            *)
(* (docker_download_models.sh): a bootstrap that succeeds has done it.      *)
V2Bootstrapped == Succeeded /\ NeedV2 /\ AutoDownload => v2_ready
=============================================================================
