----------------------------- MODULE ReleaseTags -----------------------------
(***************************************************************************)
(* How the clients choose between releases: the semantic versions of the   *)
(* terminal user interface (semver.cpp, github_client.cpp) and the plainer *)
(* ordering the desktop and command line clients share (the end of         *)
(* model_download.cpp).  Both ask Gitee first, then GitHub.                *)
(*                                                                         *)
(* A tag is [head, nums, pre, rank].  `head' is its first three characters.*)
(* `nums' are the ints its client reads from it: for the terminal, three   *)
(* or, in a tag that is no version, none; for the others, up to three.     *)
(* Digits that fit an int are read as their value; others overflow it, and *)
(* any int may come out.  `pre' is the pre-release, segment by segment,    *)
(* and `rank' the rank of its text among all texts.  A segment is a number *)
(* with its value, "huge" when its digits do not fit a long long, or a     *)
(* word; it has a rank as well.  A reply of a source is the sequence of    *)
(* its tags, <<>> when the source failed.                                  *)
(***************************************************************************)
EXTENDS Integers, SequencesExt

MaxInt == 2147483647
MinInt == -MaxInt - 1

Segments == [kind : {"number", "huge", "word"}, value : Int, rank : Int]

Tags == [head : Seq(STRING), nums : Seq(MinInt..MaxInt), pre : Seq(Segments),
         rank : Int]

MaxMajor == 2

(* parseSemVer(): exactly three numbers; "v2.0" is not a semantic version. *)
IsSemVer(tag) == Len(tag.nums) = 3

(* a - b overflows an int, which is undefined. *)
Overflows(a, b) ==
  \/ b > 0 /\ a < MinInt + b
  \/ b < 0 /\ a > MaxInt + b

(* compareSemVer() of the numbers: the first that differs decides. *)
NumbersLess(s, t) ==
  \E i \in 1..3 : s[i] < t[i] /\ \A j \in 1..(i - 1) : s[j] = t[j]

(* One segment: numbers below words, numbers by value, and by their text    *)
(* two words, or two numbers of which stoll() does not take one.            *)
SegmentLess(a, b) ==
  \/ a.kind # "word" /\ b.kind = "word"
  \/ a.kind = "number" /\ b.kind = "number" /\ a.value < b.value
  \/ a.kind = "word" /\ b.kind = "word" /\ a.rank < b.rank
  \/ /\ "huge" \in {a.kind, b.kind} /\ "word" \notin {a.kind, b.kind}
     /\ a.rank < b.rank

SameSegment(a, b) == ~SegmentLess(a, b) /\ ~SegmentLess(b, a)

(* comparePrerelease(): the first segment that differs, a prefix first. *)
PrereleaseLess(s, t) ==
  \E i \in 1..Len(t) :
    /\ i <= Len(s) + 1
    /\ \A j \in 1..(i - 1) : SameSegment(s[j], t[j])
    /\ i <= Len(s) => SegmentLess(s[i], t[i])

(* compareSemVer() < 0: a pre-release comes before its release. *)
SemVerLess(a, b) ==
  \/ NumbersLess(a.nums, b.nums)
  \/ a.nums = b.nums /\ a.pre # <<>> /\ b.pre = <<>>
  \/ /\ a.nums = b.nums /\ a.pre # <<>> /\ b.pre # <<>>
     /\ PrereleaseLess(a.pre, b.pre)

(* compareSemVerStrings() < 0, which is what listReleases() sorts by: the   *)
(* smallest version first, tags without a version last and in the reverse   *)
(* of their text.                                                           *)
Precedes(a, b) ==
  \/ IsSemVer(a) /\ ~IsSemVer(b)
  \/ IsSemVer(a) /\ IsSemVer(b) /\ SemVerLess(a, b)
  \/ ~IsSemVer(a) /\ ~IsSemVer(b) /\ a.rank > b.rank

(* What the sort asks of its comparator: a defined result, and a strict     *)
(* weak ordering.  Numbers that overflow, or numeric segments of which       *)
(* stoll() takes only some, may break either.                               *)
Sortable(tags) ==
  /\ \A a, b \in {t \in tags : IsSemVer(t)} :
       \A i \in 1..3 : ~Overflows(a.nums[i], b.nums[i])
  /\ \A a, b \in tags : Precedes(a, b) => ~Precedes(b, a)
  /\ \A a, b, c \in tags : Precedes(a, b) => Precedes(a, c) \/ Precedes(c, b)

(* Tags the sort leaves equal stay in the order they have. *)
Before(tags, i, j) ==
  Precedes(tags[i], tags[j]) \/ (~Precedes(tags[j], tags[i]) /\ i < j)

(* std::stable_sort of the tags at some positions of a reply: when they are *)
(* not sortable, any arrangement of them.                                   *)
StableSort(tags, positions) ==
  {[i \in DOMAIN p |-> tags[p[i]]] :
     p \in {q \in SetToSeqs(positions) :
              Sortable({tags[i] : i \in positions}) =>
                \A i, j \in DOMAIN q : i < j => Before(tags, q[i], q[j])}}

(* The filter of listReleases(): tags without a version are kept. *)
Kept(tag) == IsSemVer(tag) => tag.nums[1] <= MaxMajor

Listed(reply) == {i \in DOMAIN reply : Kept(reply[i])}

(* The lists listReleases() may return: those of the first source with      *)
(* something to show.                                                       *)
ListReleases(replies) ==
  LET answering == {r \in DOMAIN replies : Listed(replies[r]) # {}}
  IN  IF answering = {} THEN {<<>>}
      ELSE StableSort(replies[Min(answering)], Listed(replies[Min(answering)]))

(* compareV2Tags(): three numbers, a missing one being 0; the pre-release   *)
(* part is cut off by atoi().                                               *)
V2Numbers(tag) ==
  [i \in 1..3 |-> IF i \in DOMAIN tag.nums THEN tag.nums[i] ELSE 0]

V2Less(a, b) ==
  LET s == V2Numbers(a)
      t == V2Numbers(b)
  IN  \E i \in 1..3 : s[i] < t[i] /\ \A j \in 1..(i - 1) : s[j] = t[j]

(* isV2Tag(): three characters at least, so not "v2", but v20.1.0.  *)
IsV2Tag(tag) ==
  /\ Len(tag.head) = 3
  /\ tag.head[1] \in {"v", "V"}
  /\ tag.head[2] = "2"

(* Mutant: the comparator of the sort the other way round. *)
OldestFirst(tags) ==
  {s \in SetToSeqs(tags) : \A i, j \in DOMAIN s : i < j => ~V2Less(s[j], s[i])}

(* std::sort() by compareV2Tags() > 0: any order of the tags it leaves equal. *)
NewestFirst(tags) ==
  {s \in SetToSeqs(tags) : \A i, j \in DOMAIN s : i < j => ~V2Less(s[i], s[j])}

(* The listings fetchV2ReleaseTags() may return; `fallback' is its          *)
(* hard-coded list.                                                         *)
V2Tags(reply) == {t \in ToSet(reply) : IsV2Tag(t)}

FetchV2ReleaseTags(replies, fallback) ==
  LET answering == {r \in DOMAIN replies : V2Tags(replies[r]) # {}}
  IN  IF answering = {} THEN {fallback}
      ELSE NewestFirst(V2Tags(replies[Min(answering)]))
=============================================================================
