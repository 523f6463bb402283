------------------------ MODULE ModelDownloadProofs ------------------------
(***************************************************************************)
(* Proofs about ModelDownload for every set of files, number of attempts   *)
(* and number of crashes.                                                  *)
(*                                                                         *)
(* The argument: what a call has decided is never written again, because   *)
(* the only file a step writes is the current one, and the current one is  *)
(* still to do.                                                            *)
(***************************************************************************)
EXTENDS ModelDownload, TLAPS

USE DownloadAssumption

(* As long as a file is to do, the current file is one of them. *)
LEMMA CurrentIsToDo == todo # {} => Current \in todo
  BY DEF Current

(* The current file changes with todo only. *)
LEMMA CurrentStays == todo' = todo => Current' = Current
  BY DEF Current

(* What the three outcomes of "continue" have in common. *)
LEMMA TryNextStep ==
  ASSUME TypeOK, TryNext, phase \in {"open", "transfer", "verify"}
  PROVE  /\ attempt' \in 1..MaxAttempts /\ source' \in 1..NumSources
         /\ \/ phase' = "open" /\ todo' = todo /\ all_ok' = all_ok
            \/ phase' = "next" /\ todo' = todo \ {Current} /\ all_ok' = FALSE
  BY DEF TypeOK, TryNext, Attempts, NumSources, tryVars

(* The variables stay in their types, and a file is current whenever a step *)
(* needs one.                                                               *)
THEOREM DownloadTypeCorrect == Spec => []TypeOK
<1>1. Init => TypeOK
  <2>1. Init => disk \in [Files -> Contents]
    BY DEF Init, Contents
  <2>2. Init => attempt \in 1..MaxAttempts /\ source \in 1..NumSources
    BY DEF Init, NumSources
  <2>3. Init => crashes \in 0..MaxCrashes
    BY DEF Init
  <2>4. Init => /\ asked \in SUBSET Files /\ todo \in SUBSET Files
                /\ digests \in SUBSET Files /\ opened \in SUBSET Files
    BY DEF Init
  <2> QED
    BY <2>1, <2>2, <2>3, <2>4 DEF Init, TypeOK, Kinds
<1>2. TypeOK /\ [Next]_vars => TypeOK'
  <2> SUFFICES ASSUME TypeOK, [Next]_vars PROVE TypeOK'
    OBVIOUS
  <2>0. phase \in {"open", "transfer", "verify"} => Current \in Files
    BY CurrentIsToDo DEF TypeOK
  <2>1. CASE DownloadModelFiles
    BY <2>1 DEF DownloadModelFiles, MissingModelFiles, Begin, TypeOK, Kinds, tryVars
  <2>2. CASE DownloadV2Artifact
    BY <2>2 DEF DownloadV2Artifact, Begin, TypeOK, Kinds, tryVars
  <2>3. CASE NextFile
    BY <2>3 DEF NextFile, TypeOK, NumSources, callVars
  <2>4. CASE Open
    BY <2>0, <2>4 DEF Open, TypeOK, Contents, callVars, tryVars
  <2>5. CASE OpenFails
    <3>1. disk' \in [Files -> Contents]
      BY <2>0, <2>5 DEF OpenFails, TypeOK, Contents
    <3> QED
      BY <2>5, <3>1, TryNextStep DEF OpenFails, TypeOK, callVars
  <2>6. CASE TransferFails
    <3>1. disk' \in [Files -> Contents]
      BY <2>0, <2>6 DEF TransferFails, TypeOK, Contents
    <3> QED
      BY <2>6, <3>1, TryNextStep DEF TransferFails, TypeOK, callVars
  <2>7. ASSUME NEW c \in {"bad", "good"}, Receive(c) PROVE TypeOK'
    BY <2>0, <2>7 DEF Receive, TypeOK, Contents, callVars, tryVars
  <2>8. CASE Accept
    BY <2>8 DEF Accept, TypeOK, callVars, tryVars
  <2>9. CASE Reject
    <3>1. disk' \in [Files -> Contents]
      BY <2>0, <2>9 DEF Reject, TypeOK, Contents
    <3> QED
      BY <2>9, <3>1, TryNextStep DEF Reject, TypeOK, callVars
  <2>10. CASE Finish
    BY <2>10 DEF Finish, TypeOK, callVars, tryVars
  <2>11. CASE Cancel
    BY <2>11 DEF Cancel, TypeOK, callVars, tryVars
  <2>12. CASE Return
    BY <2>12 DEF Return, TypeOK, callVars, tryVars
  <2>13. CASE Crash
    BY <2>13 DEF Crash, TypeOK, callVars, tryVars
  <2>14. CASE UNCHANGED vars
    BY <2>14 DEF vars, TypeOK, callVars, tryVars
  <2> QED
    BY <2>1, <2>2, <2>3, <2>4, <2>5, <2>6, <2>7, <2>8, <2>9, <2>10, <2>11,
       <2>12, <2>13, <2>14 DEF Next, Download
<1> QED
  BY <1>1, <1>2, PTL DEF Spec
-----------------------------------------------------------------------------
(* A file that may stay on disk once the call is through with it. *)
Settled(f) ==
  \/ disk[f] \in {"absent", "good"}
  \/ disk[f] = "bad" /\ Unverifiable(f)

(* What has been decided keeps its verdict. *)
Decided ==
  /\ phase = "done" /\ all_ok => todo = {}
  /\ all_ok => \A f \in asked \ todo :
       disk[f] = "good" \/ (disk[f] = "bad" /\ Unverifiable(f))

(* Of the files a call has opened and not decided there is only the current  *)
(* one, and it is gone whenever the call is about to open it again.          *)
OneOpen ==
  phase # "idle" =>
    /\ \A f \in opened : f \notin todo => Settled(f)
    /\ \A f \in opened : f \in todo =>
         f = Current /\ phase \in {"open", "transfer", "verify"}
    /\ phase = "open" /\ Current \in opened => disk[Current] = "absent"
    /\ phase = "verify" => disk[Current] \in {"bad", "good"}

(* After clean transfers the file to verify is the published one, and        *)
(* nothing but a failed transfer, a cancel or an absent V2 digest fails.     *)
CleanSoFar ==
  kind = "v1" /\ clean =>
    /\ phase = "verify" => disk[Current] = "good"
    /\ cancelled \/ all_ok

DownloadInv ==
  TypeOK /\ Decided /\ OneOpen /\ PartialOnlyInTransfer /\ CleanSoFar
-----------------------------------------------------------------------------
(* Only the current file is written, and only by four actions. *)
OtherFilesStay == \A f \in Files : f # Current => disk'[f] = disk[f]

(* A call begins with nothing opened and nothing decided. *)
LEMMA StartKeepsInv ==
  ASSUME DownloadInv, NEW k \in Kinds, NEW files \in SUBSET Files,
         NEW known \in SUBSET Files, Begin(k, files, known)
  PROVE  Decided' /\ OneOpen' /\ PartialOnlyInTransfer' /\ CleanSoFar'
  BY DEF DownloadInv, TypeOK, Begin, Decided, OneOpen, PartialOnlyInTransfer,
     CleanSoFar

(* The steps that write no file keep what has been decided. *)
LEMMA QuietKeepsInv ==
  ASSUME DownloadInv,
         NextFile \/ Cancel \/ Finish \/ Return \/ Crash \/ UNCHANGED vars
  PROVE  Decided' /\ OneOpen' /\ PartialOnlyInTransfer' /\ CleanSoFar'
<1>1. /\ todo' = todo /\ Current' = Current /\ disk' = disk /\ opened' = opened
      /\ kind' = kind /\ digests' = digests /\ sha_tool' = sha_tool
      /\ asked' = asked /\ clean' = clean
  BY CurrentStays DEF NextFile, Cancel, Finish, Return, Crash, vars, callVars
<1>2. \A f : Settled(f) => Settled(f)'
  BY <1>1 DEF Settled, Unverifiable
<1>3. Decided'
  BY <1>1 DEF DownloadInv, Decided, Unverifiable, NextFile, Cancel, Finish,
     Return, Crash, vars
<1>4. OneOpen'
  <2>1. CASE NextFile
    BY <1>1, <1>2, <2>1, CurrentIsToDo DEF DownloadInv, OneOpen, NextFile
  <2>2. CASE Cancel \/ Finish
    BY <1>1, <1>2, <2>2 DEF DownloadInv, OneOpen, Cancel, Finish
  <2>3. CASE Return \/ Crash
    BY <2>3 DEF OneOpen, Return, Crash
  <2>4. CASE UNCHANGED vars
    BY <1>1, <1>2, <2>4 DEF DownloadInv, OneOpen, vars
  <2> QED
    BY <2>1, <2>2, <2>3, <2>4
<1>5. PartialOnlyInTransfer'
  BY <1>1 DEF DownloadInv, TypeOK, PartialOnlyInTransfer, NextFile, Cancel,
     Finish, Return, Crash, vars
<1>6. CleanSoFar'
  BY <1>1 DEF DownloadInv, CleanSoFar, NextFile, Cancel, Finish, Return, Crash,
     vars
<1> QED
  BY <1>3, <1>4, <1>5, <1>6

(* Opening, receiving and accepting: the current file moves on, no verdict of *)
(* another one changes.                                                       *)
LEMMA ProgressKeepsInv ==
  ASSUME DownloadInv,
         \/ Open
         \/ \E c \in {"bad", "good"} : Receive(c)
         \/ Accept
  PROVE  Decided' /\ OneOpen' /\ PartialOnlyInTransfer' /\ CleanSoFar'
<1>1. /\ todo # {} /\ Current \in todo /\ Current \in Files
      /\ kind' = kind /\ digests' = digests /\ sha_tool' = sha_tool
      /\ asked' = asked
  BY CurrentIsToDo DEF DownloadInv, TypeOK, Open, Receive, Accept, callVars
<1>2. CASE Open
  <2>1. /\ todo' = todo /\ Current' = Current
        /\ disk' = [disk EXCEPT ![Current] = "partial"]
        /\ opened' = opened \cup {Current}
        /\ phase = "open" /\ phase' = "transfer"
        /\ all_ok' = all_ok /\ clean' = clean /\ cancelled' = cancelled
        /\ crashes' = crashes
    BY <1>2, CurrentStays DEF Open
  <2>2. \A f \in Files : f # Current => disk'[f] = disk[f]
    BY <2>1 DEF DownloadInv, TypeOK
  <2>3. Decided'
    BY <1>1, <2>1, <2>2 DEF DownloadInv, TypeOK, Decided, Unverifiable
  <2>4. OneOpen'
    BY <1>1, <2>1, <2>2 DEF DownloadInv, TypeOK, OneOpen, Settled, Unverifiable
  <2>5. PartialOnlyInTransfer'
    BY <1>1, <2>1, <2>2 DEF DownloadInv, TypeOK, PartialOnlyInTransfer
  <2>6. CleanSoFar'
    BY <1>1, <2>1 DEF DownloadInv, CleanSoFar
  <2> QED
    BY <2>3, <2>4, <2>5, <2>6
<1>3. ASSUME NEW c \in {"bad", "good"}, Receive(c)
      PROVE  Decided' /\ OneOpen' /\ PartialOnlyInTransfer' /\ CleanSoFar'
  <2>1. /\ todo' = todo /\ Current' = Current
        /\ disk' = [disk EXCEPT ![Current] = c]
        /\ opened' = opened
        /\ phase = "transfer" /\ phase' = "verify"
        /\ all_ok' = all_ok /\ clean' = (clean /\ c = "good")
        /\ cancelled' = cancelled /\ crashes' = crashes
    BY <1>3, CurrentStays DEF Receive
  <2>2. /\ \A f \in Files : f # Current => disk'[f] = disk[f]
        /\ disk'[Current] = c
    BY <1>1, <2>1 DEF DownloadInv, TypeOK
  <2>3. Decided'
    BY <1>1, <2>1, <2>2 DEF DownloadInv, TypeOK, Decided, Unverifiable
  <2>4. OneOpen'
    BY <1>1, <2>1, <2>2 DEF DownloadInv, TypeOK, OneOpen, Settled, Unverifiable
  <2>5. PartialOnlyInTransfer'
    BY <1>1, <2>1, <2>2 DEF DownloadInv, TypeOK, PartialOnlyInTransfer
  <2>6. CleanSoFar'
    BY <1>1, <2>1, <2>2 DEF DownloadInv, CleanSoFar
  <2> QED
    BY <2>3, <2>4, <2>5, <2>6
<1>4. CASE Accept
  <2>1. /\ todo' = todo \ {Current} /\ disk' = disk /\ opened' = opened
        /\ phase = "verify" /\ phase' = "next"
        /\ all_ok' = all_ok /\ clean' = clean
        /\ cancelled' = cancelled /\ crashes' = crashes
    BY <1>4 DEF Accept
  <2>2. disk[Current] = "good" \/ (disk[Current] = "bad" /\ Unverifiable(Current))
    BY <1>4 DEF Accept, DigestAccepts, DownloadInv, TypeOK, Kinds, OneOpen,
       Unverifiable
  <2>3. Decided'
    BY <1>1, <2>1, <2>2 DEF DownloadInv, Decided, Unverifiable
  <2>4. OneOpen'
    <3>1. \A f \in opened' : f \notin todo' => Settled(f)'
      BY <1>1, <2>1, <2>2 DEF DownloadInv, OneOpen, Settled, Unverifiable
    <3>2. \A f \in opened' : f \notin todo'
      BY <1>1, <2>1 DEF DownloadInv, OneOpen
    <3> QED
      BY <3>1, <3>2, <2>1 DEF OneOpen
  <2>5. PartialOnlyInTransfer'
    BY <1>1, <2>1 DEF DownloadInv, TypeOK, PartialOnlyInTransfer
  <2>6. CleanSoFar'
    BY <1>1, <2>1 DEF DownloadInv, CleanSoFar
  <2> QED
    BY <2>3, <2>4, <2>5, <2>6
<1> QED
  BY <1>2, <1>3, <1>4

(* Failing: the current file is gone or as it was, and TryNext moves on. *)
LEMMA FailureKeepsInv ==
  ASSUME DownloadInv, OpenFails \/ TransferFails \/ Reject
  PROVE  Decided' /\ OneOpen' /\ PartialOnlyInTransfer' /\ CleanSoFar'
<1>1. /\ todo # {} /\ Current \in todo /\ Current \in Files
      /\ kind' = kind /\ digests' = digests /\ sha_tool' = sha_tool
      /\ asked' = asked /\ opened' = opened /\ cancelled' = cancelled
      /\ crashes' = crashes
      /\ phase \in {"open", "transfer", "verify"}
  BY CurrentIsToDo
     DEF DownloadInv, TypeOK, OpenFails, TransferFails, Reject, callVars
<1>2. \/ phase' = "open" /\ todo' = todo /\ all_ok' = all_ok
      \/ phase' = "next" /\ todo' = todo \ {Current} /\ all_ok' = FALSE
  BY <1>1, TryNextStep DEF DownloadInv, OpenFails, TransferFails, Reject
<1>3. \A f \in Files : f # Current => disk'[f] = disk[f]
  BY <1>1 DEF DownloadInv, TypeOK, OpenFails, TransferFails, Reject
<1>4. disk'[Current] = "absent" \/ (phase = "open" /\ disk'[Current] = disk[Current])
  BY <1>1 DEF DownloadInv, TypeOK, OpenFails, TransferFails, Reject
<1>5. Current \in opened => disk'[Current] = "absent"
  BY <1>1, <1>4 DEF DownloadInv, OneOpen
<1>6. Decided'
  BY <1>1, <1>2, <1>3 DEF DownloadInv, TypeOK, Decided, Unverifiable
<1>7. OneOpen'
  <2>1. \A f \in opened : f # Current =>
          f \notin todo /\ f \notin todo' /\ Settled(f) /\ Settled(f)'
    BY <1>1, <1>2, <1>3
       DEF DownloadInv, TypeOK, OneOpen, Settled, Unverifiable
  <2>3. CASE phase' = "open"
    <3>1. todo' = todo /\ Current' = Current
      BY <1>2, <2>3, CurrentStays
    <3> QED
      BY <1>1, <1>5, <2>1, <2>3, <3>1 DEF OneOpen
  <2>4. CASE phase' = "next"
    <3>1. todo' = todo \ {Current}
      BY <1>2, <2>4
    <3>2. \A f \in opened : f = Current => f \notin todo' /\ Settled(f)'
      BY <1>5, <3>1 DEF Settled
    <3> QED
      BY <1>1, <2>1, <2>4, <3>2 DEF OneOpen
  <2> QED
    BY <1>2, <2>3, <2>4
<1>8. PartialOnlyInTransfer'
  <2>1. phase = "open" /\ disk[Current] = "partial" => crashes > 0
    BY <1>1 DEF DownloadInv, PartialOnlyInTransfer
  <2>2. \A f \in Files : f # Current /\ disk[f] = "partial" => crashes > 0
    BY DEF DownloadInv, PartialOnlyInTransfer
  <2> QED
    BY <1>1, <1>3, <1>4, <2>1, <2>2 DEF PartialOnlyInTransfer
<1>9. CleanSoFar'
  <2>1. CASE OpenFails \/ TransferFails
    BY <2>1 DEF OpenFails, TransferFails, CleanSoFar
  <2>2. CASE Reject
    <3>1. clean' = clean
      BY <2>2 DEF Reject
    <3>2. ~(kind = "v1" /\ clean)
      BY <2>2 DEF Reject, DigestAccepts, DownloadInv, CleanSoFar
    <3> QED
      BY <1>1, <3>1, <3>2 DEF CleanSoFar
  <2> QED
    BY <2>1, <2>2
<1> QED
  BY <1>6, <1>7, <1>8, <1>9

-----------------------------------------------------------------------------
(* The inductive invariant holds in every reachable state. *)
THEOREM DownloadInvariant == Spec => []DownloadInv
<1>1. Init => Decided /\ OneOpen /\ PartialOnlyInTransfer /\ CleanSoFar
  BY DEF Init, Decided, OneOpen, PartialOnlyInTransfer, CleanSoFar
<1>2. TypeOK /\ Decided /\ OneOpen /\ PartialOnlyInTransfer /\ CleanSoFar
      /\ [Next]_vars
        => Decided' /\ OneOpen' /\ PartialOnlyInTransfer' /\ CleanSoFar'
  <2> SUFFICES ASSUME DownloadInv, [Next]_vars
               PROVE  Decided' /\ OneOpen' /\ PartialOnlyInTransfer' /\ CleanSoFar'
    BY DEF DownloadInv
  <2>1. CASE DownloadModelFiles
    <3>1. PICK known \in SUBSET Files : Begin("v1", MissingModelFiles, known)
      BY <2>1 DEF DownloadModelFiles
    <3>2. "v1" \in Kinds /\ MissingModelFiles \in SUBSET Files
      BY DEF Kinds, MissingModelFiles
    <3> QED
      BY <3>1, <3>2, StartKeepsInv
  <2>2. CASE DownloadV2Artifact
    <3>1. PICK known \in SUBSET Files : Begin("v2", Files, known)
      BY <2>2 DEF DownloadV2Artifact
    <3>2. "v2" \in Kinds /\ Files \in SUBSET Files
      BY DEF Kinds
    <3> QED
      BY <3>1, <3>2, StartKeepsInv
  <2>3. CASE Cancel \/ Return \/ Crash \/ NextFile \/ Finish \/ UNCHANGED vars
    BY <2>3, QuietKeepsInv
  <2>4. CASE Open \/ Accept \/ \E c \in {"bad", "good"} : Receive(c)
    BY <2>4, ProgressKeepsInv
  <2>5. CASE OpenFails \/ TransferFails \/ Reject
    BY <2>5, FailureKeepsInv
  <2> QED
    BY <2>1, <2>2, <2>3, <2>4, <2>5 DEF Next, Download
<1>3. QED
  BY <1>1, <1>2, DownloadTypeCorrect, PTL DEF Spec, DownloadInv

(* True means that the files are there: the main promise of both downloaders, *)
(* for any number of files, attempts and crashes before the call.             *)
THEOREM SuccessIsTrue == Spec => []SuccessMeansFiles
<1>1. DownloadInv => SuccessMeansFiles
  BY DEF DownloadInv, Decided, SuccessMeansFiles
<1> QED
  BY <1>1, DownloadInvariant, PTL

(* Without a crash no half-written file is ever left for a loader to find. *)
THEOREM NoPartialFiles == Spec => []PartialOnlyInTransfer
<1>1. DownloadInv => PartialOnlyInTransfer
  BY DEF DownloadInv
<1> QED
  BY <1>1, DownloadInvariant, PTL

(* What a call rejected is gone when it turns to the next file or returns. *)
THEOREM NothingRejectedStays == Spec => []RejectedIsRemoved
<1>1. DownloadInv => RejectedIsRemoved
  BY DEF DownloadInv, OneOpen, Settled, RejectedIsRemoved
<1> QED
  BY <1>1, DownloadInvariant, PTL

(* With a network that delivers every file the V1 downloader succeeds. *)
THEOREM V1Succeeds == Spec => []CleanV1Succeeds
<1>1. DownloadInv => CleanV1Succeeds
  BY DEF DownloadInv, CleanSoFar, CleanV1Succeeds
<1> QED
  BY <1>1, DownloadInvariant, PTL

(* A success ends the work on a file: the call does not truncate it again. *)
THEOREM SuccessIsFinal == Spec => NeverRefetched
<1>1. DownloadInv =>
        (phase = "open" /\ phase' = "transfer" /\ Current \in opened
           => disk[Current] # "good")
  BY DEF DownloadInv, OneOpen
<1> QED
  BY <1>1, DownloadInvariant, PTL DEF NeverRefetched
=============================================================================
