------------------------------ MODULE MCCliRun ------------------------------
(***************************************************************************)
(* A small world for CliRun: two networks of each version, a folder with   *)
(* images and a text file, releases with and without a pre-release, and    *)
(* tags isV2Tag() decides about.  And CasOcr on its own in the same world, *)
(* as its other users have it: any call after any other, while files come  *)
(* and go.  Two V1 networks are enough for one to decide on the directory  *)
(* of the other.                                                           *)
(***************************************************************************)
EXTENDS CliRun

Two == <<"v", "2", ".">>
Ver(head, nums, pre, rank) == [head |-> head, nums |-> nums, pre |-> pre, rank |-> rank]
Candidate == <<[kind |-> "word", value |-> 0, rank |-> 1]>>
Bare == Ver(<<"v", "2">>, <<2>>, <<>>, 0)
Old == Ver(<<"v", "1", ".">>, <<1, 0, 0>>, <<>>, 1)
V201 == Ver(Two, <<2, 0, 1>>, <<>>, 2)
V205 == Ver(Two, <<2, 0, 5>>, <<>>, 3)
V21 == Ver(Two, <<2, 1>>, <<>>, 4)
V21rc == Ver(Two, <<2, 1, 0>>, Candidate, 5)
V20 == Ver(<<"v", "2", "0">>, <<20, 1, 0>>, <<>>, 6)
MCFallback == <<V205, V201>>
MCTagReplies == {<< <<>>, <<>> >>,
                 << <<V201, V21, Old, V205, V21rc>>, <<V201>> >>,
                 << <<Old, Bare>>, <<V205, V20, V201>> >>}

MCContent == << <<>>, <<255>>, <<7, 128>>, <<1, 2, 251>>, <<9, 8, 7, 255>> >>
File(name, image) == [name |-> name, image |-> image]
Folder == [kind |-> "dir", entries |-> {File(2, TRUE), File(1, FALSE), File(3, TRUE),
                                        File(5, TRUE)}]
Pair == [kind |-> "dir", entries |-> {File(3, TRUE), File(2, TRUE)}]
Single == [kind |-> "file", entries |-> {File(1, FALSE)}]
Fourth == [kind |-> "file", entries |-> {File(4, TRUE)}]
Nothing == [kind |-> "none", entries |-> {}]
Gone == [kind |-> "missing", entries |-> {}]
Empty == [kind |-> "dir", entries |-> {File(1, FALSE)}]

Default == [sub |-> "ocr", input |-> Folder, server |-> "none", compare |-> FALSE,
            json |-> FALSE, version |-> "V2", precision |-> "fp16", tag |-> NoTag,
            backbone |-> ""]
MCInvocations ==
  {[Default EXCEPT !.sub = "list-tags"],
   [Default EXCEPT !.sub = "list-models"],
   [Default EXCEPT !.sub = "list-models", !.tag = V201],
   [Default EXCEPT !.sub = "download"],
   [Default EXCEPT !.sub = "download", !.version = "V1"],
   [Default EXCEPT !.sub = "download", !.precision = "fp32", !.backbone = "small"],
   [Default EXCEPT !.sub = "download", !.tag = V205, !.backbone = "large"],
   Default,
   [Default EXCEPT !.precision = "fp32", !.input = Single],
   [Default EXCEPT !.input = Nothing],
   [Default EXCEPT !.input = Empty, !.version = "V1"],
   [Default EXCEPT !.server = "bad port"],
   [Default EXCEPT !.compare = TRUE],
   [Default EXCEPT !.server = "host", !.input = Gone],
   [Default EXCEPT !.server = "host", !.input = Single],
   [Default EXCEPT !.server = "host", !.input = Fourth, !.json = TRUE],
   [Default EXCEPT !.server = "host", !.compare = TRUE, !.input = Pair],
   [Default EXCEPT !.server = "host", !.compare = TRUE, !.json = TRUE,
                   !.input = Single]}

Small == [backbone |-> "small", stem |-> "stemA", precisions |-> {"fp16", "fp32"}]
Large == [backbone |-> "large", stem |-> "stemB", precisions |-> {"fp16"}]
MCManifests == {<<>>, <<Small, Large>>, <<Large, Small>>, <<Large>>}

MCLeftovers == {{}, {[dir |-> "v2", stem |-> "stemA", precision |-> "fp16"]},
                {[dir |-> "root", stem |-> "stemB", precision |-> "fp32"]}}

MCV1Stems == <<"equal", "digit">>
MCV2Stems == <<"stemA", "stemB">>

MaxDamaged == 1   \* bound: weights damaged at once
MaxStray == 1     \* bound: weights in the second precision at once

(* An object of the library outside the command line client. *)
LibraryInit ==
  /\ Init
  /\ sha_tool = TRUE /\ fetched = {}
  /\ runs = MaxRuns
  /\ args = Default
  /\ pc = "library"
  /\ replies = <<>> /\ tag = NoTag /\ source = 1 /\ manifest = <<>>
  /\ images = <<>> /\ rows = <<>> /\ summary = NoSummary /\ requests = <<>>
  /\ exit = ""

LibraryNext ==
  /\ pc = "library"
  /\ Next
  /\ Cardinality({w \in Weights : disk'[w] = "damaged"}) <= MaxDamaged
  /\ Cardinality({w \in Weights : w.precision = "fp32" /\ disk'[w] # "absent"})
       <= MaxStray
  /\ UNCHANGED <<sha_tool, fetched, runs, args, pc, asking, batch, exit>>

MCInit == CliInit \/ LibraryInit
MCNext == CliNext \/ LibraryNext
MCSpec == MCInit /\ [][MCNext]_cliVars
=============================================================================
