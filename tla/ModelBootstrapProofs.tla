------------------------ MODULE ModelBootstrapProofs ------------------------
(***************************************************************************)
(* What the container's bootstrap promises for any files, any number of    *)
(* attempts and any number of kills.                                       *)
(***************************************************************************)
EXTENDS ModelBootstrap, TLAPS

DirTyped ==
  /\ wanted \in (SUBSET {"v1", "v2"}) \ {{}}
  /\ v1_dir \in [V1Files -> Contents]
  /\ missing \in SUBSET V1Files
  /\ expected \in SUBSET V1Files
  /\ unchecked \in SUBSET V1Files

PlaceTyped ==
  /\ pc \in {"begin", "v1", "download", "verify", "exit", "serving",
            "killed"}
  /\ pc = "verify" => missing # {}

FlagsTyped == v2_ready \in BOOLEAN /\ online \in BOOLEAN

CountsTyped ==
  /\ attempt \in 1..MaxAttempts
  /\ code \in 0..1
  /\ kills \in 0..MaxKills

(* The file at hand is one of those to be fetched. *)
LEMMA CurrentIsMissing == missing # {} => Current \in missing
  BY DEF Current

(* It changes only when that set does. *)
LEMMA SameCurrent == missing' = missing => Current' = Current
  BY DEF Current

(* What a file on the volume may be. *)
LEMMA GoodIsContent == {"absent", "empty", "bad", "good"} = Contents
  BY DEF Contents

(* Every step keeps the volume and the lists of files in their types. *)
LEMMA DirStays ==
  ASSUME DirTyped, PlaceTyped, [Next]_vars
  PROVE  DirTyped'
<1> USE BootstrapAssumption DEF DirTyped
<1>1. CASE UNCHANGED <<v1_dir, wanted, missing, expected, unchecked>>
  BY <1>1
<1>2. CASE DownloadV2 \/ FinalCheck \/ StartServer \/ Network
  BY <1>1, <1>2 DEF DownloadV2, FinalCheck, StartServer, Network, dirVars, envVars
<1>3. CASE ScanV1
  BY <1>3 DEF ScanV1, dirVars, envVars
<1>4. CASE DownloadFails
  BY <1>4 DEF DownloadFails, TryAgain, dirVars, envVars
<1>5. CASE DownloadOne
  <2>1. Current \in V1Files
    BY <1>5, CurrentIsMissing DEF DownloadOne
  <2>2. v1_dir' \in [V1Files -> Contents]
    BY <1>5, GoodIsContent DEF DownloadOne
  <2>3. missing' \in SUBSET V1Files /\ unchecked' \in SUBSET V1Files
    BY <1>5, <2>1 DEF DownloadOne, FileDone
  <2> QED
    BY <1>5, <2>2, <2>3 DEF DownloadOne, envVars
<1>6. CASE VerifySha256
  <2>1. v1_dir' \in [V1Files -> Contents]
    BY <1>6, GoodIsContent DEF VerifySha256
  <2>2. missing' \in SUBSET V1Files
    BY <1>6 DEF VerifySha256, FileDone, TryAgain
  <2> QED
    BY <1>6, <2>1, <2>2 DEF VerifySha256, envVars
<1>7. CASE Restart
  BY <1>7 DEF Restart, dirVars, envVars
<1>8. CASE UNCHANGED vars
  BY <1>1, <1>8 DEF vars, dirVars, envVars
<1>9. CASE Kill
  <2>1. unchecked' \in SUBSET V1Files
    BY <1>9, CurrentIsMissing DEF Kill, PlaceTyped
  <2> QED
    BY <1>9, <2>1 DEF Kill, dirVars, envVars
<1> QED
  BY <1>2, <1>3, <1>4, <1>5, <1>6, <1>7, <1>8, <1>9 DEF Next, Script

(* Every step keeps the place of the script in its type. *)
LEMMA PlaceStays ==
  ASSUME PlaceTyped, [Next]_vars
  PROVE  PlaceTyped'
<1> USE DEF PlaceTyped
<1>1. CASE DownloadV2 \/ FinalCheck \/ Kill \/ Network \/ Restart \/ StartServer
  BY <1>1 DEF DownloadV2, AfterV2, Exit, FinalCheck, Kill, Network, Restart,
     StartServer
<1>2. CASE ScanV1
  BY <1>2 DEF ScanV1, Exit
<1>3. CASE DownloadFails
  BY <1>3 DEF DownloadFails, TryAgain, Exit
<1>4. CASE DownloadOne
  BY <1>4 DEF DownloadOne, FileDone
<1>5. CASE VerifySha256
  BY <1>5 DEF VerifySha256, FileDone, TryAgain, Exit
<1>6. CASE UNCHANGED vars
  BY <1>6 DEF vars
<1> QED
  BY <1>1, <1>2, <1>3, <1>4, <1>5, <1>6 DEF Next, Script

(* Every step keeps the two flags truth values. *)
LEMMA FlagsStay ==
  ASSUME FlagsTyped, [Next]_vars
  PROVE  FlagsTyped'
<1> USE DEF FlagsTyped
<1>1. CASE UNCHANGED <<v2_ready, online>>
  BY <1>1
<1>2. CASE Network
  BY <1>2 DEF Network, dirVars
<1> QED
  BY <1>1, <1>2 DEF Next, Script, DownloadV2, ScanV1, DownloadFails, DownloadOne,
     VerifySha256, FinalCheck, StartServer, Restart, Kill, vars, dirVars, envVars

(* Every step keeps attempts and kills natural. *)
LEMMA CountsStay ==
  ASSUME CountsTyped, [Next]_vars
  PROVE  CountsTyped'
<1> USE BootstrapAssumption DEF CountsTyped
<1>1. CASE DownloadV2
  BY <1>1 DEF DownloadV2, AfterV2, Exit
<1>2. CASE ScanV1
  BY <1>2 DEF ScanV1, Exit
<1>3. CASE DownloadFails
  BY <1>3 DEF DownloadFails, TryAgain, Exit
<1>4. CASE DownloadOne
  BY <1>4 DEF DownloadOne, FileDone
<1>5. CASE VerifySha256
  BY <1>5 DEF VerifySha256, FileDone, TryAgain, Exit
<1>6. CASE FinalCheck \/ StartServer
  BY <1>6 DEF FinalCheck, StartServer, Exit
<1>7. CASE Restart \/ Kill \/ Network
  BY <1>7 DEF Restart, Kill, Network
<1>8. CASE UNCHANGED vars
  BY <1>8 DEF vars
<1> QED
  BY <1>1, <1>2, <1>3, <1>4, <1>5, <1>6, <1>7, <1>8 DEF Next, Script

-----------------------------------------------------------------------------
(* What is still to be fetched is not good, the file in verification apart;  *)
(* what is bad is in verification or never was verified; and                 *)
(* the script ends well for V1 with every file in place.                     *)
InVerification(f) == pc = "verify" /\ f = Current

ToFetch == \A f \in missing :
  pc \in {"download", "verify"} /\ ~InVerification(f) => v1_dir[f] # "good"

Suspect ==
  \A f \in V1Files : v1_dir[f] = "bad" => f \in unchecked \/ InVerification(f)

Complete == Succeeded /\ NeedV1 => \A f \in V1Files : Present(f)

BootstrapInv ==
  DirTyped /\ PlaceTyped /\ FlagsTyped /\ CountsTyped /\ ToFetch /\ Suspect /\ Complete

(* No good file is put on the list of those to be fetched. *)
LEMMA ToFetchStays ==
  ASSUME DirTyped, PlaceTyped, ToFetch, [Next]_vars
  PROVE  ToFetch'
<1> USE DEF ToFetch, InVerification, DirTyped
<1>1. CASE pc' \notin {"download", "verify"}
  BY <1>1
<1>2. CASE UNCHANGED <<pc, missing, v1_dir>>
  BY <1>2, SameCurrent
<1>3. CASE DownloadV2 \/ FinalCheck \/ StartServer \/ Kill \/ Restart
  BY <1>1, <1>3 DEF DownloadV2, AfterV2, Exit, FinalCheck, StartServer, Kill,
     Restart
<1>4. CASE ScanV1
  BY <1>4 DEF ScanV1, Exit, Present, dirVars
<1>5. CASE DownloadFails
  BY <1>1, <1>2, <1>5 DEF DownloadFails, TryAgain, Exit, dirVars
<1>6. CASE DownloadOne
  <2>1. \A f \in missing : f # Current => v1_dir'[f] = v1_dir[f]
    BY <1>6 DEF DownloadOne
  <2>2. CASE pc' = "verify" /\ missing' = missing
    BY <1>6, <2>1, <2>2, SameCurrent DEF DownloadOne
  <2>3. CASE pc' = "download" /\ missing' = missing \ {Current}
    BY <1>6, <2>1, <2>3 DEF DownloadOne
  <2> QED
    BY <1>6, <2>2, <2>3 DEF DownloadOne, FileDone
<1>7. CASE VerifySha256
  <2>1. \A f \in missing : f # Current => v1_dir[f] # "good"
    BY <1>7 DEF VerifySha256
  <2>2. CASE missing' = missing \ {Current} /\ v1_dir' = v1_dir
    BY <1>7, <2>1, <2>2
  <2>3. CASE missing' = missing /\ v1_dir' = [v1_dir EXCEPT ![Current] = "absent"]
    BY <1>7, <2>1, <2>3
  <2> QED
    BY <1>7, <2>2, <2>3 DEF VerifySha256, FileDone, TryAgain
<1>8. CASE Network \/ UNCHANGED vars
  BY <1>2, <1>8 DEF Network, vars, dirVars
<1> QED
  BY <1>3, <1>4, <1>5, <1>6, <1>7, <1>8 DEF Next, Script

(* No bad file escapes the verification but by a kill or for want of a sum. *)
LEMMA SuspectStays ==
  ASSUME DirTyped, PlaceTyped, Suspect, [Next]_vars
  PROVE  Suspect'
<1> USE DEF Suspect, InVerification, DirTyped
<1>1. CASE UNCHANGED <<v1_dir, unchecked>> /\ pc # "verify"
  BY <1>1
<1>2. CASE DownloadV2 \/ ScanV1 \/ DownloadFails \/ FinalCheck \/ StartServer \/ Restart
  BY <1>1, <1>2 DEF DownloadV2, ScanV1, DownloadFails, FinalCheck, StartServer,
     Restart, Failed, dirVars
<1>3. CASE DownloadOne
  <2>1. \A f \in V1Files : f # Current => v1_dir'[f] = v1_dir[f]
    BY <1>3 DEF DownloadOne
  <2>2. pc # "verify"
    BY <1>3 DEF DownloadOne
  <2>3. CASE Current \in expected
    <3>1. pc' = "verify" /\ Current' = Current /\ unchecked' = unchecked \ {Current}
      BY <1>3, <2>3, SameCurrent DEF DownloadOne
    <3> QED
      BY <2>1, <2>2, <3>1
  <2>4. CASE Current \notin expected
    <3>1. unchecked' = unchecked \cup {Current}
      BY <1>3, <2>4 DEF DownloadOne
    <3> QED
      BY <2>1, <2>2, <3>1
  <2> QED
    BY <2>3, <2>4
<1>4. CASE VerifySha256
  <2>1. UNCHANGED unchecked
    BY <1>4 DEF VerifySha256
  <2>2. CASE v1_dir[Current] = "good" /\ v1_dir' = v1_dir
    BY <2>1, <2>2
  <2>3. CASE v1_dir' = [v1_dir EXCEPT ![Current] = "absent"]
    BY <2>1, <2>3
  <2> QED
    BY <1>4, <2>2, <2>3 DEF VerifySha256
<1>5. CASE Kill
  BY <1>5 DEF Kill, dirVars
<1>6. CASE Network \/ UNCHANGED vars
  <2>1. UNCHANGED <<v1_dir, unchecked, pc, missing>>
    BY <1>6 DEF Network, vars, dirVars
  <2> QED
    BY <2>1, SameCurrent
<1> QED
  BY <1>2, <1>3, <1>4, <1>5, <1>6 DEF Next, Script

(* The script ends well only when nothing was missing. *)
LEMMA CompleteStays ==
  ASSUME Complete, [Next]_vars
  PROVE  Complete'
<1> USE DEF Complete, Succeeded, NeedV1, Present
<1>1. CASE pc' \notin {"exit", "serving"} \/ code' # 0
  BY <1>1
<1>2. CASE DownloadV2
  BY <1>2 DEF DownloadV2, AfterV2, Exit, envVars
<1>3. CASE ScanV1
  BY <1>3 DEF ScanV1, Exit, dirVars
<1>4. CASE DownloadFails
  BY <1>1, <1>4 DEF DownloadFails, TryAgain, Exit
<1>5. CASE DownloadOne
  BY <1>1, <1>5 DEF DownloadOne, FileDone
<1>6. CASE VerifySha256
  BY <1>1, <1>6 DEF VerifySha256, FileDone, TryAgain, Exit
<1>7. CASE FinalCheck
  BY <1>7 DEF FinalCheck, Exit, dirVars
<1>8. CASE Restart \/ Kill
  BY <1>1, <1>8 DEF Restart, Kill
<1>9. CASE StartServer
  BY <1>9 DEF StartServer, Exit, dirVars, envVars
<1>10. CASE Network \/ UNCHANGED vars
  BY <1>10 DEF Network, vars, dirVars, envVars
<1> QED
  BY <1>2, <1>3, <1>4, <1>5, <1>6, <1>7, <1>8, <1>9, <1>10 DEF Next, Script

(* Where the script is says what the directory holds.                        *)
THEOREM BootstrapInvariant == Spec => []BootstrapInv
<1>1. Init => BootstrapInv
  <2> SUFFICES ASSUME Init PROVE BootstrapInv
    OBVIOUS
  <2>1. v1_dir \in [V1Files -> Contents] /\ \A f \in V1Files : v1_dir[f] # "bad"
    BY DEF Init, Contents
  <2>2. DirTyped
    <3>1. wanted \in (SUBSET {"v1", "v2"}) \ {{}}
      BY DEF Init
    <3>2. missing \in SUBSET V1Files /\ expected \in SUBSET V1Files /\ unchecked \in SUBSET V1Files
      BY DEF Init
    <3> QED
      BY <2>1, <3>1, <3>2 DEF DirTyped
  <2>3. PlaceTyped /\ FlagsTyped
    BY DEF Init, PlaceTyped, FlagsTyped
  <2>4. CountsTyped
    BY BootstrapAssumption DEF Init, CountsTyped
  <2>5. ToFetch /\ Suspect /\ Complete
    BY <2>1 DEF Init, ToFetch, Suspect, Complete, NeedV1, Succeeded
  <2> QED
    BY <2>2, <2>3, <2>4, <2>5 DEF BootstrapInv
<1>2. BootstrapInv /\ [Next]_vars => BootstrapInv'
  BY DirStays, PlaceStays, FlagsStay, CountsStay, ToFetchStays, SuspectStays, CompleteStays
     DEF BootstrapInv
<1> QED
  BY <1>1, <1>2, PTL DEF Spec

(* Every variable keeps its type.                                            *)
THEOREM BootstrapTypeCorrect == Spec => []TypeOK
<1>1. BootstrapInv => TypeOK
  BY DEF BootstrapInv, DirTyped, PlaceTyped, FlagsTyped, CountsTyped, TypeOK
<1> QED
  BY <1>1, BootstrapInvariant, PTL

(* The script ends well only with every V1 file in place and verified, those *)
(* apart that had no checksum or were left by a kill between mv and their    *)
(* verification (download_v1, download_one).                                 *)
THEOREM ServedModelIsVerified == Spec => []VerifiedModel
<1>1. BootstrapInv => VerifiedModel
  BY DEF BootstrapInv, DirTyped, Suspect, InVerification, Complete, Succeeded, Present,
     VerifiedModel
<1> QED
  BY <1>1, BootstrapInvariant, PTL

(* No failure, kill or restart costs a good file (the test for missing       *)
(* files in download_v1, and download_one).                                  *)
THEOREM NoGoodFileIsLost == Spec => GoodFilesStay
<1> DEFINE Kept == \A f \in V1Files : v1_dir[f] = "good" => v1_dir'[f] = "good"
<1>1. BootstrapInv /\ [Next]_vars => [Kept]_vars
  <2> SUFFICES ASSUME DirTyped, ToFetch, Next PROVE Kept
    BY DEF BootstrapInv
  <2>1. CASE UNCHANGED v1_dir
    BY <2>1
  <2>2. CASE DownloadOne
    <3>1. v1_dir[Current] # "good"
      BY <2>2, CurrentIsMissing DEF DownloadOne, ToFetch, InVerification
    <3> QED
      BY <2>2, <3>1 DEF DownloadOne, DirTyped
  <2>3. CASE VerifySha256
    BY <2>3 DEF VerifySha256, DirTyped
  <2> QED
    BY <2>1, <2>2, <2>3 DEF Next, Script, DownloadV2, ScanV1, DownloadFails, FinalCheck,
       StartServer, Restart, Kill, Network, dirVars
<1> QED
  BY <1>1, BootstrapInvariant, PTL DEF Spec, GoodFilesStay
=============================================================================
