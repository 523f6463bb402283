------------------------------ MODULE MCTuiApp ------------------------------
(***************************************************************************)
(* Releases and artifacts for TLC: a tag of a version that is not          *)
(* supported, two of which one has more digits than an int, and those the  *)
(* order of the list is told by; an artifact of two files and a choice the *)
(* manifest does not have.                                                 *)
(***************************************************************************)
EXTENDS TuiApp

Tag(head, nums, pre, rank) == [head |-> head, nums |-> nums, pre |-> pre, rank |-> rank]
V2 == <<"v", "2", ".">>
V3 == <<"v", "3", ".">>

Word(rank) == [kind |-> "word", value |-> 0, rank |-> rank]
Number(value, rank) == [kind |-> "number", value |-> value, rank |-> rank]

Short == Tag(V2, <<>>, <<>>, 0)
First == Tag(V2, <<2, 0, 0>>, <<>>, 1)
Beta == Tag(V2, <<2, 0, 0>>, <<Word(5), Number(1, 1)>>, 2)
Older == Tag(<<"v", "1", ".">>, <<1, 0, 0>>, <<>>, -1)
Most == Tag(V2, <<2, MaxInt, 0>>, <<>>, 3)
Over == Tag(V2, <<2, -2, 0>>, <<>>, 4)
Third == Tag(V3, <<3, 0, 0>>, <<>>, 5)

(* No list, or one in either of two orders, from the second source. *)
MCReplies == {<< <<>>, <<>> >>, << <<Third>>, <<Most, Over, Third>> >>}

(* A pre-release and its release, an older one, and a tag with no version. *)
MCOrderReplies == {<< <<>>, <<Short, First, Beta, Older>> >>}

MCArtifact == [c \in Options |-> IF c = "ncnn" THEN <<"param", "bin">> ELSE <<>>]
=============================================================================
