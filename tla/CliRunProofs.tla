---------------------------- MODULE CliRunProofs ----------------------------
(***************************************************************************)
(* Proofs about the recognition engine (CasOcr) and about the command line *)
(* client that runs on it (CliRun): for every list of networks, every      *)
(* argument list, every file and every answer of the servers.              *)
(***************************************************************************)
EXTENDS CliRun, SequenceTheorems, FiniteSetTheorems, WellFoundedInduction, TLAPS

(* The stems of a version are a sequence that is not empty. *)
LEMMA StemsFacts ==
  ASSUME NEW v \in Versions
  PROVE  /\ Stems(v) \in Seq(Elems(Stems(v)))
         /\ Len(Stems(v)) \in Nat \ {0}
         /\ Stems(v)[1] \in Elems(Stems(v))
         /\ Elems(Stems(v)) \subseteq AllStems
<1>1. Stems(v) \in {V1Stems, V2Stems}
  BY DEF Stems, Versions
<1>2. Stems(v) \in Seq(Elems(Stems(v))) /\ Stems(v) # <<>>
  BY <1>1, CasOcrAssumption
<1>3. Len(Stems(v)) \in Nat \ {0}
  BY <1>2, EmptySeq, LenProperties
<1>4. Stems(v)[1] \in Elems(Stems(v))
  BY <1>3 DEF Elems
<1>5. Elems(Stems(v)) \subseteq AllStems
  BY DEF Stems, Versions, AllStems
<1> QED
  BY <1>2, <1>3, <1>4, <1>5

(* The weights an engine reads are places of the disk, and there are some. *)
LEMMA EngineWeightsFacts ==
  ASSUME NEW v \in Versions, NEW d \in {"root", Subdir(v)}, NEW p \in Precisions
  PROVE  /\ EngineWeights(v, d, p) \subseteq Weights
         /\ EngineWeights(v, d, p) # {}
<1>1. ASSUME NEW s \in Elems(Stems(v))
      PROVE  Weight(d, s, p) \in Weights
  <2>1. s \in AllStems
    BY StemsFacts
  <2>2. d \in {"root", "v1", "v2"}
    BY DEF Subdir
  <2> QED
    BY <2>1, <2>2 DEF Weight, Weights
<1>2. \A s : s \in (IF v = "V1" THEN Elems(V1Stems) ELSE {V2Stems[1]})
               => s \in Elems(Stems(v))
  BY StemsFacts DEF Stems, Versions
<1>3. \E s : s \in (IF v = "V1" THEN Elems(V1Stems) ELSE {V2Stems[1]})
  BY StemsFacts DEF Stems, Versions
<1> QED
  BY <1>1, <1>2, <1>3 DEF EngineWeights

(* The directory a model is loaded from is one that is looked into. *)
LEMMA ResolveRange ==
  ASSUME NEW v \in Versions, NEW p
  PROVE  Resolve(v, p) \in {"", "root", Subdir(v)}
<1>1. \A s : ResolveV1Dir(s, p) \in {"", "root", "v1"}
  BY DEF ResolveV1Dir
<1>2. ResolveV1(p) \in {"", "root", "v1"}
  BY <1>1 DEF ResolveV1
<1>3. ResolveV2(p) \in {"", "root", "v2"}
  BY DEF ResolveV2
<1> QED
  BY <1>2, <1>3 DEF Resolve, Subdir, Versions

-----------------------------------------------------------------------------
(* When every network is in v1/, or in the root and none of them in v1/,    *)
(* the directory of the first one is that directory.                        *)
LEMMA ResolveV1Whole ==
  ASSUME NEW p, NEW d \in {"root", "v1"},
         \A s \in Elems(V1Stems) : ResolveV1Dir(s, p) = d
  PROVE  ResolveV1(p) = d
<1> DEFINE Found(s) == ResolveV1Dir(s, p) # ""
           Begins(i) == Found(V1Stems[i]) /\ \A j \in 1..(i - 1) : ~Found(V1Stems[j])
<1>1. Len(V1Stems) \in Nat \ {0} /\ V1Stems[1] \in Elems(V1Stems)
  BY StemsFacts DEF Stems, Versions
<1>2. Found(V1Stems[1])
  BY <1>1
<1>3. 1 \in 1..Len(V1Stems) /\ 1..(1 - 1) = {}
  BY <1>1
<1>4. \E i \in 1..Len(V1Stems) : Begins(i)
  BY <1>2, <1>3
<1>5. (CHOOSE i \in 1..Len(V1Stems) : Begins(i)) \in 1..Len(V1Stems)
  BY <1>4
<1>6. First(V1Stems, Found) \in Elems(V1Stems)
  <2>1. First(V1Stems, Found) = V1Stems[CHOOSE i \in 1..Len(V1Stems) : Begins(i)]
    BY DEF First
  <2> QED
    BY <1>5, <2>1 DEF Elems
<1>7. ResolveV1(p) = ResolveV1Dir(First(V1Stems, Found), p)
  BY <1>1, <1>2 DEF ResolveV1
<1> QED
  BY <1>6, <1>7

(* A directory that holds the stem of the V2 engine is one that is chosen,  *)
(* for no other stem comes before it.                                       *)
LEMMA HoldsV2Engine ==
  ASSUME NEW d, NEW p \in Precisions, Exists(d, V2Stems[1], p)
  PROVE  HoldsV2(d, p)
<1> DEFINE Known(s) == \E q \in Precisions : Exists(d, s, q)
           Begins(i) == Known(V2Stems[i]) /\ \A j \in 1..(i - 1) : ~Known(V2Stems[j])
<1>1. Len(V2Stems) \in Nat \ {0} /\ V2Stems[1] \in Elems(V2Stems)
  BY StemsFacts DEF Stems, Versions
<1>2. Known(V2Stems[1])
  OBVIOUS
<1>3. 1 \in 1..Len(V2Stems) /\ 1..(1 - 1) = {}
  BY <1>1
<1>4. Begins(1)
  BY <1>2, <1>3
<1> DEFINE start == CHOOSE i \in 1..Len(V2Stems) : Begins(i)
<1>5. start \in 1..Len(V2Stems) /\ Begins(start)
  <2> HIDE DEF Begins
  <2> QED BY <1>3, <1>4
<1>6. start = 1
  <2>1. start # 1 => 1 \in 1..(start - 1)
    <3> HIDE DEF start
    <3> QED BY <1>1, <1>5
  <2>2. 1 \in 1..(start - 1) => ~Known(V2Stems[1])
    BY <1>5
  <2> QED
    BY <1>2, <2>1, <2>2
<1>7. First(V2Stems, Known) = V2Stems[1]
  <2>1. First(V2Stems, Known) = V2Stems[start]
    BY DEF First
  <2> QED
    BY <1>6, <2>1
<1> QED
  BY <1>1, <1>2, <1>7 DEF HoldsV2

(* In every state, whatever is on disk, the documented layouts load.        *)
LEMMA LayoutsLoad == DocumentedLayoutsLoad
<1> SUFFICES ASSUME NEW v \in Versions, NEW p \in Precisions,
                    \/ AllWhole(v, Subdir(v), p)
                    \/ AllWhole(v, "root", p) /\ NoneOf(v, Subdir(v))
             PROVE  CanLoad(v, p)
  BY DEF DocumentedLayoutsLoad
<1>1. \A d, s : disk[Weight(d, s, p)] = "whole" => Exists(d, s, p)
  BY DEF Exists
<1>2. CASE v = "V1"
  <2>0. Subdir(v) = "v1" /\ Stems(v) = V1Stems
    BY <1>2 DEF Subdir, Stems
  <2>1. ASSUME NEW d, AllWhole(v, d, p), NEW s \in Elems(V1Stems)
        PROVE  Exists(d, s, p)
    BY <1>1, <1>2, <2>1 DEF AllWhole, EngineWeights
  <2>2. CASE AllWhole(v, "v1", p)
    <3>1. \A s \in Elems(V1Stems) : ResolveV1Dir(s, p) = "v1"
      BY <2>1, <2>2 DEF ResolveV1Dir
    <3>2. ResolveV1(p) = "v1"
      BY <3>1, ResolveV1Whole
    <3> QED
      BY <1>2, <2>2, <3>2 DEF CanLoad, Resolve, EngineLoads, AllWhole
  <2>3. CASE AllWhole(v, "root", p) /\ NoneOf(v, "v1")
    <3>1. \A s \in Elems(V1Stems) : ResolveV1Dir(s, p) = "root"
      BY <2>0, <2>1, <2>3 DEF ResolveV1Dir, NoneOf
    <3>2. ResolveV1(p) = "root"
      BY <3>1, ResolveV1Whole
    <3> QED
      BY <1>2, <2>3, <3>2 DEF CanLoad, Resolve, EngineLoads, AllWhole
  <2> QED
    BY <2>0, <2>2, <2>3
<1>3. CASE v = "V2"
  <2>0. Subdir(v) = "v2" /\ Stems(v) = V2Stems
    BY <1>3 DEF Subdir, Stems
  <2>1. ASSUME NEW d, AllWhole(v, d, p)
        PROVE  HoldsV2(d, p)
    <3>1. Exists(d, V2Stems[1], p)
      BY <1>1, <1>3, <2>1 DEF AllWhole, EngineWeights
    <3> QED
      BY <3>1, HoldsV2Engine
  <2>2. CASE AllWhole(v, "v2", p)
    <3>1. ResolveV2(p) = "v2"
      BY <2>1, <2>2 DEF ResolveV2
    <3> QED
      BY <1>3, <2>2, <3>1 DEF CanLoad, Resolve, EngineLoads, AllWhole
  <2>3. CASE AllWhole(v, "root", p) /\ NoneOf(v, "v2")
    <3>1. ~HoldsV2("v2", p)
      <4>1. \A s \in Elems(V2Stems), q \in Precisions : ~Exists("v2", s, q)
        BY <2>0, <2>3 DEF NoneOf
      <4> QED
        BY <4>1 DEF HoldsV2
    <3>2. ResolveV2(p) = "root"
      BY <2>1, <2>3, <3>1 DEF ResolveV2
    <3> QED
      BY <1>3, <2>3, <3>2 DEF CanLoad, Resolve, EngineLoads, AllWhole
  <2> QED
    BY <2>0, <2>2, <2>3
<1> QED
  BY <1>2, <1>3 DEF Versions

(* The documented layouts load in every reachable state.                    *)
THEOREM LayoutsOfTheHeaderLoad == Spec => []DocumentedLayoutsLoad
  BY LayoutsLoad, PTL

-----------------------------------------------------------------------------
(* A released object has a type, whatever version it last loaded. *)
LEMMA NotLoadedFacts ==
  /\ "V1" \in Versions /\ "V2" \in Versions
  /\ \A c \in Configs : c.version \in Versions /\ c.precision \in Precisions
  /\ \A v \in Versions : NotLoaded(v).version = v
  /\ \A c \in Configs \cup {NotLoaded(v) : v \in Versions} : c.version \in Versions
<1>1. "V1" \in Versions /\ "V2" \in Versions
  BY DEF Versions
<1>2. \A c \in Configs : c.version \in Versions /\ c.precision \in Precisions
  BY DEF Configs
<1>3. \A v : NotLoaded(v).version = v
  BY DEF NotLoaded
<1>4. \A c \in {NotLoaded(v) : v \in Versions} : c.version \in Versions
  BY <1>3
<1> QED
  BY <1>1, <1>2, <1>3, <1>4

(* The weights of a model that can be loaded are places of the disk. *)
LEMMA LoadedWeights ==
  ASSUME NEW c \in Configs, CanLoad(c.version, c.precision)
  PROVE  LET d == Resolve(c.version, c.precision)
             ws == EngineWeights(c.version, d, c.precision)
         IN  /\ d \in {"root", Subdir(c.version)}
             /\ ws \subseteq Weights /\ ws # {}
             /\ \A w \in ws : disk[w] = "whole"
<1>1. c.version \in Versions /\ c.precision \in Precisions
  BY NotLoadedFacts
<1>2. Resolve(c.version, c.precision) \in {"root", Subdir(c.version)}
  BY <1>1, ResolveRange DEF CanLoad
<1> QED
  BY <1>1, <1>2, EngineWeightsFacts DEF CanLoad, EngineLoads

(* The four outcomes of load_model(). *)
LEMMA LoadOutcomes ==
  ASSUME NEW c \in Configs, LoadModel(c), has_dir \in BOOLEAN
  PROVE  /\ disk' = disk /\ has_dir' = has_dir
         /\ \/ /\ ~has_dir \/ SameConfig(c)
               /\ UNCHANGED <<v1, v2, is_init, loaded, status>>
               /\ reply' = Reply("load", has_dir, c.version)
            \/ /\ has_dir /\ CanLoad(c.version, c.precision) /\ LoadEngine(c)
               /\ reply' = Reply("load", TRUE, c.version)
            \/ /\ Released
               /\ reply' = Reply("load", FALSE, c.version)
<1>1. CASE has_dir = FALSE
  BY <1>1 DEF LoadModel
<1>2. CASE has_dir = TRUE
  BY <1>2 DEF LoadModel
<1> QED
  BY <1>1, <1>2

(* A new object has a type. *)
LEMMA InitialTypes == Init => TypeOK
<1> SUFFICES ASSUME Init PROVE TypeOK
  OBVIOUS
<1>1. disk \in [Weights -> {"absent", "damaged", "whole"}]
  BY DEF Init
<1>2. loaded \in Configs \cup {NotLoaded(v) : v \in Versions}
  BY NotLoadedFacts DEF Init
<1>3. reply \in [call : {"none", "load", "release", "predict"}, ok : BOOLEAN,
                 version : Versions]
  BY NotLoadedFacts DEF Init, Reply
<1>4. /\ has_dir \in BOOLEAN /\ v1 = {} /\ v2 = {} /\ is_init = FALSE
      /\ status = "NotLoaded"
  BY DEF Init
<1> QED
  BY <1>1, <1>2, <1>3, <1>4 DEF TypeOK

(* Every step keeps the types. *)
LEMMA TypeStep == TypeOK /\ [Next]_vars => TypeOK'
<1> SUFFICES ASSUME TypeOK, [Next]_vars PROVE TypeOK'
  OBVIOUS
<1>0. ASSUME Released
      PROVE  /\ v1' \in SUBSET Weights /\ v2' \in SUBSET Weights /\ is_init' \in BOOLEAN
             /\ loaded' \in Configs \cup {NotLoaded(v) : v \in Versions}
             /\ status' \in {"NotLoaded", "LoadedCPU", "LoadedGPU"}
  BY <1>0, NotLoadedFacts DEF Released, TypeOK
<1>1. ASSUME NEW c \in Configs, LoadModel(c) PROVE TypeOK'
  <2>1. c.version \in Versions
    BY NotLoadedFacts
  <2>2. CASE UNCHANGED <<v1, v2, is_init, loaded, status>>
             /\ reply' = Reply("load", has_dir, c.version)
    BY <1>1, <2>1, <2>2, LoadOutcomes DEF TypeOK, Reply
  <2>3. CASE CanLoad(c.version, c.precision) /\ LoadEngine(c)
             /\ reply' = Reply("load", TRUE, c.version)
    BY <1>1, <2>1, <2>3, LoadOutcomes, LoadedWeights DEF TypeOK, Reply, LoadEngine
  <2>4. CASE Released /\ reply' = Reply("load", FALSE, c.version)
    BY <1>0, <1>1, <2>1, <2>4, LoadOutcomes DEF TypeOK, Reply
  <2>5. has_dir \in BOOLEAN
    BY DEF TypeOK
  <2> QED
    BY <1>1, <2>2, <2>3, <2>4, <2>5, LoadOutcomes
<1>2. CASE Release
  BY <1>0, <1>2, NotLoadedFacts DEF Release, TypeOK, Reply
<1>3. ASSUME NEW readable \in BOOLEAN, Predict(readable) PROVE TypeOK'
  BY <1>3, NotLoadedFacts DEF Predict, TypeOK, Reply
<1>4. ASSUME NEW w \in Weights, NEW content \in {"absent", "damaged", "whole"},
             WriteWeight(w, content)
      PROVE  TypeOK'
  BY <1>4 DEF WriteWeight, TypeOK
<1>5. CASE UNCHANGED vars
  BY <1>5 DEF vars, TypeOK
<1> QED
  BY <1>1, <1>2, <1>3, <1>4, <1>5 DEF Next

(* All variables of the object stay in their types. *)
THEOREM EngineTypeCorrect == Spec => []TypeOK
<1>1. Init => TypeOK
  BY InitialTypes
<1>2. TypeOK /\ [Next]_vars => TypeOK'
  BY TypeStep
<1> QED
  BY <1>1, <1>2, PTL DEF Spec

(* The inductive invariant: the properties proved below, and an object      *)
(* without a directory that never loads.                                    *)
EngineInv ==
  /\ TypeOK
  /\ EngineMatchesState
  /\ ReplyIsHonest
  /\ is_init => has_dir /\ loaded \in Configs

(* A released object satisfies the invariant but for its reply. *)
LEMMA ReleasedMatches ==
  ASSUME Released
  PROVE  EngineMatchesState' /\ ~is_init'
  BY DEF Released, EngineMatchesState

(* A loaded one as well. *)
LEMMA LoadedMatches ==
  ASSUME NEW c \in Configs, CanLoad(c.version, c.precision), LoadEngine(c)
  PROVE  /\ EngineMatchesState'
         /\ is_init' /\ loaded' = c
         /\ \A w \in v1' \cup v2' : disk[w] = "whole"
<1> DEFINE d == Resolve(c.version, c.precision)
           ws == EngineWeights(c.version, d, c.precision)
<1>1. d \in {"root", Subdir(c.version)} /\ ws # {} /\ (\A w \in ws : disk[w] = "whole")
  BY LoadedWeights
<1>2. /\ v1' = IF c.version = "V1" THEN ws ELSE {}
      /\ v2' = IF c.version = "V2" THEN ws ELSE {}
      /\ is_init' = TRUE /\ loaded' = c /\ status' # "NotLoaded"
  BY DEF LoadEngine
<1>3. c.version = "V1" \/ c.version = "V2"
  BY NotLoadedFacts DEF Versions
<1> HIDE DEF ws, d
<1>4. Engine(loaded.version)' = ws
  BY <1>2, <1>3 DEF Engine
<1>5. ws = EngineWeights(c.version, d, c.precision)
  BY DEF ws
<1>6. (\E e \in {"root", Subdir(loaded.version)} :
         Engine(loaded.version) = EngineWeights(loaded.version, e, loaded.precision))'
  BY <1>1, <1>2, <1>4, <1>5
<1>7. (v1' = {} \/ v2' = {}) /\ (v1' # {} \/ v2' # {})
  BY <1>1, <1>2, <1>3
<1> QED
  BY <1>1, <1>2, <1>6, <1>7 DEF EngineMatchesState

(* Every step keeps the invariant. *)
LEMMA EngineStep == EngineInv /\ TypeOK' /\ [Next]_vars => EngineInv'
<1> SUFFICES ASSUME EngineInv, TypeOK', [Next]_vars PROVE EngineInv'
  OBVIOUS
<1>1. ASSUME NEW c \in Configs, LoadModel(c) PROVE EngineInv'
  <2>1. CASE (~has_dir \/ SameConfig(c))
             /\ UNCHANGED <<v1, v2, is_init, loaded, status>>
             /\ reply' = Reply("load", has_dir, c.version)
    BY <1>1, <2>1, LoadOutcomes
       DEF EngineInv, EngineMatchesState, Engine, ReplyIsHonest, Reply, SameConfig,
           TypeOK
  <2>2. CASE has_dir /\ CanLoad(c.version, c.precision) /\ LoadEngine(c)
             /\ reply' = Reply("load", TRUE, c.version)
    BY <1>1, <2>2, LoadOutcomes, LoadedMatches DEF EngineInv, ReplyIsHonest, Reply
  <2>3. CASE Released /\ reply' = Reply("load", FALSE, c.version)
    BY <2>3, ReleasedMatches DEF EngineInv, ReplyIsHonest, Reply
  <2>4. has_dir \in BOOLEAN
    BY DEF EngineInv, TypeOK
  <2> QED
    BY <1>1, <2>1, <2>2, <2>3, <2>4, LoadOutcomes
<1>2. CASE Release
  BY <1>2, ReleasedMatches DEF Release, EngineInv, ReplyIsHonest, Reply
<1>3. ASSUME NEW readable \in BOOLEAN, Predict(readable) PROVE EngineInv'
  BY <1>3 DEF Predict, EngineInv, EngineMatchesState, Engine, ReplyIsHonest, Reply
<1>4. ASSUME NEW w \in Weights, NEW content \in {"absent", "damaged", "whole"},
             WriteWeight(w, content)
      PROVE  EngineInv'
  BY <1>4 DEF WriteWeight, EngineInv, EngineMatchesState, Engine, ReplyIsHonest
<1>5. CASE UNCHANGED vars
  BY <1>5 DEF vars, EngineInv, EngineMatchesState, Engine, ReplyIsHonest
<1> QED
  BY <1>1, <1>2, <1>3, <1>4, <1>5 DEF Next

(* EngineInv holds in every reachable state. *)
THEOREM EngineInvariant == Spec => []EngineInv
<1>1. Init => EngineInv
  <2>1. Init => TypeOK
    BY InitialTypes
  <2> QED
    BY <2>1 DEF Init, EngineInv, EngineMatchesState, ReplyIsHonest, Reply
<1>2. EngineInv /\ TypeOK' /\ [Next]_vars => EngineInv'
  BY EngineStep
<1> QED
  BY <1>1, <1>2, EngineTypeCorrect, PTL DEF Spec

(* After any sequence of calls the flags and the engine pointers agree. *)
THEOREM EngineIsThere == Spec => []EngineMatchesState
  BY EngineInvariant, PTL DEF EngineInv

(* What load_model() and predict() report is what is in memory. *)
THEOREM RepliesAreHonest == Spec => []ReplyIsHonest
  BY EngineInvariant, PTL DEF EngineInv

(* No step brings an incomplete model into memory. *)
THEOREM NoIncompleteModel == Spec => OnlyWholeModels
<1>1. ASSUME EngineInv, [Next]_vars, is_init', loaded' # loaded
      PROVE  \A w \in v1' \cup v2' : disk[w] = "whole"
  <2>1. ASSUME NEW c \in Configs, LoadModel(c)
        PROVE  \A w \in v1' \cup v2' : disk[w] = "whole"
    <3>1. has_dir \in BOOLEAN
      BY <1>1 DEF EngineInv, TypeOK
    <3>2. CanLoad(c.version, c.precision) /\ LoadEngine(c)
      BY <1>1, <2>1, <3>1, LoadOutcomes, ReleasedMatches
    <3> QED
      BY <3>2, LoadedMatches
  <2>2. CASE Release
    BY <1>1, <2>2, ReleasedMatches DEF Release
  <2>3. CASE \E readable \in BOOLEAN : Predict(readable)
    BY <1>1, <2>3 DEF Predict
  <2>4. CASE \E w \in Weights, content \in {"absent", "damaged", "whole"} :
               WriteWeight(w, content)
    BY <1>1, <2>4 DEF WriteWeight
  <2>5. CASE UNCHANGED vars
    BY <1>1, <2>5 DEF vars
  <2> QED
    BY <1>1, <2>1, <2>2, <2>3, <2>4, <2>5 DEF Next
<1> QED
  BY <1>1, EngineInvariant, PTL DEF Spec, OnlyWholeModels

-----------------------------------------------------------------------------
(* A set of natural numbers that is not empty has a least element. *)
LEMMA LeastNumber ==
  ASSUME NEW T \in SUBSET Nat, T # {}
  PROVE  \E m \in T : \A n \in T : m <= n
<1> DEFINE R == OpToRel(<, Nat)
<1>1. IsWellFoundedOn(R, Nat)
  BY NatLessThanWellFounded
<1>2. \A x, y \in Nat : x < y => <<x, y>> \in R
  BY DEF OpToRel
<1> HIDE DEF R
<1>3. PICK m \in T : \A n \in T : ~(<<n, m>> \in R)
  BY <1>1, WFMin
<1>4. \A n \in T : ~(n < m)
  BY <1>2, <1>3
<1> QED
  BY <1>4

(* Induction over the natural numbers, for a set of them. *)
LEMMA NumbersByInduction ==
  ASSUME NEW T, 0 \in T, \A n \in Nat : n \in T => n + 1 \in T
  PROVE  \A n \in Nat : n \in T
<1> SUFFICES ASSUME Nat \ T # {} PROVE FALSE
  OBVIOUS
<1>1. PICK m \in Nat \ T : \A n \in Nat \ T : m <= n
  BY LeastNumber
<1>2. m - 1 \in Nat /\ m - 1 < m
  BY <1>1
<1>3. m - 1 \in T
  BY <1>1, <1>2
<1> QED
  BY <1>1, <1>2, <1>3

(* The least number of a set. *)
LEMMA MinOfNumbers ==
  ASSUME NEW T \in SUBSET Nat, T # {}
  PROVE  Min(T) \in T /\ \A x \in T : Min(T) <= x
BY LeastNumber DEF Min

(* The elements of a sequence are finitely many. *)
LEMMA FinitelyListed ==
  ASSUME NEW S, NEW s \in Seq(S)
  PROVE  IsFiniteSet(ToSet(s))
<1>1. DOMAIN s = 1..Len(s) /\ Len(s) \in Int /\ 1 \in Int
  BY LenProperties
<1>2. IsFiniteSet(DOMAIN s)
  BY <1>1, FS_Interval
<1>3. s \in Surjection(DOMAIN s, ToSet(s))
  <2>1. s \in [DOMAIN s -> ToSet(s)]
    <3>1. \A i \in DOMAIN s : s[i] \in ToSet(s)
      BY DEF ToSet
    <3>2. s = [i \in DOMAIN s |-> s[i]]
      BY LenProperties
    <3> QED
      BY <3>1, <3>2
  <2>2. \A x \in ToSet(s) : \E i \in DOMAIN s : s[i] = x
    BY DEF ToSet
  <2> QED
    BY <2>1, <2>2 DEF Surjection
<1> QED
  BY <1>2, <1>3, FS_Surjection

(* A sequence of a set's elements without repetition has them all. *)
LEMMA ListsThemAll ==
  ASSUME NEW S, IsFiniteSet(S), NEW s \in SetToSeqs(S)
  PROVE  /\ s \in Seq(S) /\ Len(s) = Cardinality(S) /\ DOMAIN s = 1..Cardinality(S)
         /\ \A x \in S : \E i \in DOMAIN s : s[i] = x
<1> DEFINE n == Cardinality(S)
<1>1. n \in Nat
  BY FS_CardinalityType
<1>2. s \in [1..n -> S] /\ \A i, j \in 1..n : i # j => s[i] # s[j]
  BY DEF SetToSeqs
<1> HIDE DEF n
<1>3. s \in Injection(1..n, S)
  BY <1>2 DEF Injection, IsInjective
<1>4. IsFiniteSet(1..n) /\ Cardinality(1..n) = n
  BY <1>1, FS_Interval
<1>5. s \in Surjection(1..n, S)
  BY <1>3, <1>4, FS_Injection DEF n
<1>6. s \in Seq(S) /\ Len(s) = n
  BY <1>1, <1>2, SeqDef, LenProperties
<1> QED
  BY <1>2, <1>5, <1>6 DEF Surjection, n

-----------------------------------------------------------------------------
(* The bits of three bytes, six at a time and back. *)
LEMMA BitsOfBytes ==
  ASSUME NEW a \in Bytes, NEW b \in Bytes, NEW c \in Bytes
  PROVE  /\ a \div 4 \in 0..63
         /\ (a % 4) * 16 + b \div 16 \in 0..63
         /\ (b % 16) * 4 + c \div 64 \in 0..63
         /\ c % 64 \in 0..63
         /\ LET v == 64 * (a \div 4) + ((a % 4) * 16 + b \div 16)
            IN  (v \div 16) % 256 = a /\ v % 16 = b \div 16
         /\ LET v == 64 * (b \div 16) + ((b % 16) * 4 + c \div 64)
            IN  (v \div 4) % 256 = b /\ v % 4 = c \div 64
         /\ LET v == 64 * (c \div 64) + (c % 64)
            IN  (v \div 1) % 256 = c /\ v % 1 = 0
<1>1. /\ a \div 4 \in 0..63
      /\ (a % 4) * 16 + b \div 16 \in 0..63
      /\ (b % 16) * 4 + c \div 64 \in 0..63
      /\ c % 64 \in 0..63
  BY DEF Bytes
<1>2. LET v == 64 * (a \div 4) + ((a % 4) * 16 + b \div 16)
      IN  (v \div 16) % 256 = a /\ v % 16 = b \div 16
  <2>1. 64 * (a \div 4) + ((a % 4) * 16 + b \div 16) = 16 * a + b \div 16
    <3>1. a = 4 * (a \div 4) + (a % 4)
      BY DEF Bytes
    <3> QED
      BY <3>1 DEF Bytes
  <2>2. b \div 16 \in 0..15
    BY DEF Bytes
  <2> DEFINE q == b \div 16
  <2> HIDE DEF q
  <2>3. (16 * a + q) \div 16 = a /\ (16 * a + q) % 16 = q
    BY <2>2 DEF Bytes, q
  <2>4. a % 256 = a
    BY DEF Bytes
  <2> QED
    BY <2>1, <2>3, <2>4 DEF q
<1>3. LET v == 64 * (b \div 16) + ((b % 16) * 4 + c \div 64)
      IN  (v \div 4) % 256 = b /\ v % 4 = c \div 64
  <2>1. 64 * (b \div 16) + ((b % 16) * 4 + c \div 64) = 4 * b + c \div 64
    BY DEF Bytes
  <2>2. c \div 64 \in 0..3
    BY DEF Bytes
  <2> DEFINE q == c \div 64
  <2> HIDE DEF q
  <2>3. (4 * b + q) \div 4 = b /\ (4 * b + q) % 4 = q
    BY <2>2 DEF Bytes, q
  <2>4. b % 256 = b
    BY DEF Bytes
  <2> QED
    BY <2>1, <2>3, <2>4 DEF q
<1>4. LET v == 64 * (c \div 64) + (c % 64)
      IN  (v \div 1) % 256 = c /\ v % 1 = 0
  <2>1. c = 64 * (c \div 64) + (c % 64)
    BY DEF Bytes
  <2>2. (c \div 1) % 256 = c /\ c % 1 = 0
    BY DEF Bytes
  <2> QED
    BY <2>1, <2>2
<1> QED
  BY <1>1, <1>2, <1>3, <1>4

(* One more byte of what has been read so far. *)
LEMMA OneByteMore ==
  ASSUME NEW data \in Seq(Bytes), NEW m \in 0..(Len(data) - 1)
  PROVE  Append(SubSeq(data, 1, m), data[m + 1]) = SubSeq(data, 1, m + 1)
<1>1. Len(data) \in Nat /\ m \in Nat /\ m + 1 \in 1..Len(data) /\ 1 \in 1..Len(data)
  BY LenProperties
<1>2. /\ SubSeq(data, 1, m) \in Seq(Bytes) /\ Len(SubSeq(data, 1, m)) = m
      /\ SubSeq(data, 1, m + 1) \in Seq(Bytes) /\ Len(SubSeq(data, 1, m + 1)) = m + 1
      /\ \A i \in 1..m : SubSeq(data, 1, m)[i] = data[i]
      /\ \A i \in 1..(m + 1) : SubSeq(data, 1, m + 1)[i] = data[i]
  BY <1>1, ElementOfSeq, SubSeqProperties
<1>3. data[m + 1] \in Bytes
  BY <1>1, ElementOfSeq
<1> DEFINE t == Append(SubSeq(data, 1, m), data[m + 1])
<1>4. /\ t \in Seq(Bytes) /\ Len(t) = m + 1
      /\ \A i \in 1..m : t[i] = data[i]
      /\ t[m + 1] = data[m + 1]
  BY <1>1, <1>2, <1>3, AppendProperties
<1> HIDE DEF t
<1>5. \A i \in 1..(m + 1) : t[i] = data[i]
  BY <1>1, <1>4
<1>6. t = SubSeq(data, 1, m + 1)
  BY <1>2, <1>4, <1>5, SeqEqual
<1> QED
  BY <1>6 DEF t

-----------------------------------------------------------------------------
(* How many bytes are whole after k characters, and what the decoder is then *)
(* left with.                                                                *)
Whole(k) == 3 * (k \div 4) + <<0, 0, 1, 2>>[(k % 4) + 1]
Pending(data, k) == Byte(data, Whole(k) + 1) \div <<256, 4, 16, 64>>[(k % 4) + 1]

(* saw_payload after k characters. *)
Saw(k) == <<FALSE, TRUE>>[IF k = 0 THEN 1 ELSE 2]
Yes == Saw(1)

(* The two states the decoder may be in. *)
Reading(data, saw, value, bits, m) ==
  Held("reading", saw, value, bits, SubSeq(data, 1, m))
Padded(data, bits) == Held("padded", Yes, 0, bits, data)

(* The state after k characters: the last group is cut short by its "=". *)
Expected(data, k) ==
  IF Whole(k) <= Len(data)
  THEN Reading(data, Saw(k), Pending(data, k), <<-8, -2, -4, -6>>[(k % 4) + 1], Whole(k))
  ELSE Padded(data, IF Len(data) % 3 = 1 THEN -4 ELSE -6)

(* The fields of the decoder's state. *)
LEMMA FieldByField ==
  ASSUME NEW phase, NEW saw, NEW value, NEW bits, NEW result, NEW x
  PROVE  LET state == Held(phase, saw, value, bits, result)
         IN  /\ [state EXCEPT !.phase = x] = Held(x, saw, value, bits, result)
             /\ state.phase = phase /\ state.saw_payload = saw
             /\ state.value = value /\ state.bits = bits /\ state.result = result
BY DEF Held

(* The characters of a group come four by four. *)
LEMMA Positions ==
  ASSUME NEW g \in Nat
  PROVE  /\ (4 * g) \div 4 = g /\ (4 * g) % 4 = 0
         /\ (4 * g + 1) \div 4 = g /\ (4 * g + 1) % 4 = 1
         /\ (4 * g + 2) \div 4 = g /\ (4 * g + 2) % 4 = 2
         /\ (4 * g + 3) \div 4 = g /\ (4 * g + 3) % 4 = 3
         /\ (4 * g + 4) \div 4 = g + 1 /\ (4 * g + 4) % 4 = 0
OBVIOUS

(* The bytes that are whole at each of them. *)
LEMMA WholeBytes ==
  ASSUME NEW g \in Nat
  PROVE  /\ Whole(4 * g) = 3 * g
         /\ Whole(4 * g + 1) = 3 * g
         /\ Whole(4 * g + 2) = 3 * g + 1
         /\ Whole(4 * g + 3) = 3 * g + 2
         /\ Whole(4 * g + 4) = 3 * g + 3
BY Positions DEF Whole

(* A character of the alphabet is neither of the others. *)
LEMMA TakesBits ==
  ASSUME NEW state, NEW c \in 0..63, state.phase = "reading"
  PROVE  Step(state, c) = Take(state, c)
BY DEF Step, Pad, Space, Other

(* The four characters of a group, as the decoder meets them. *)
(* saw_payload once a character has been read. *)
LEMMA YesIsTrue == Yes = TRUE
BY DEF Yes, Saw

(* The first character of a group completes no byte. *)
LEMMA FirstCharacter ==
  ASSUME NEW a \in Bytes, NEW b \in Bytes, NEW c \in Bytes, NEW saw, NEW result
  PROVE  Step(Held("reading", saw, 0, -8, result), a \div 4)
           = Held("reading", Yes, a \div 4, -2, result)
<1> DEFINE x == a \div 4
           state == Held("reading", saw, 0, -8, result)
<1>1. x \in 0..63 /\ 64 * 0 + x = x
  BY BitsOfBytes
<1>2. /\ state.phase = "reading" /\ state.value = 0
      /\ state.bits = -8 /\ state.result = result
  BY FieldByField
<1> HIDE DEF x, state
<1>3. Step(state, x) = Take(state, x)
  BY <1>1, <1>2, TakesBits
<1>4. Take(state, x) = Held("reading", TRUE, x, -2, result)
  BY <1>1, <1>2 DEF Take
<1>5. Held("reading", TRUE, x, -2, result) = Held("reading", Yes, x, -2, result)
  BY YesIsTrue DEF Held
<1> QED
  BY <1>3, <1>4, <1>5 DEF state, x

(* The second completes the first byte. *)
LEMMA SecondCharacter ==
  ASSUME NEW a \in Bytes, NEW b \in Bytes, NEW c \in Bytes, NEW result
  PROVE  Step(Held("reading", Yes, a \div 4, -2, result), (a % 4) * 16 + b \div 16)
           = Held("reading", Yes, b \div 16, -4, Append(result, a))
<1> DEFINE x == (a % 4) * 16 + b \div 16
           value == a \div 4
           rest == b \div 16
           state == Held("reading", Yes, value, -2, result)
<1>1. /\ x \in 0..63 /\ (64 * value + x) % 16 = rest
      /\ ((64 * value + x) \div 16) % 256 = a
  BY BitsOfBytes
<1>2. /\ state.phase = "reading" /\ state.value = value
      /\ state.bits = -2 /\ state.result = result
  BY FieldByField
<1> HIDE DEF x, value, rest, state
<1>3. Step(state, x) = Take(state, x)
  BY <1>1, <1>2, TakesBits
<1>4. Take(state, x) = Held("reading", TRUE, rest, -4, Append(result, a))
  <2>1. Take(state, x) = Held("reading", TRUE, (64 * value + x) % 16, -4,
                              Append(result, ((64 * value + x) \div 16) % 256))
    BY <1>2 DEF Take, Power2
  <2> QED
    BY <1>1, <2>1
<1>5. Held("reading", TRUE, rest, -4, Append(result, a)) = Held("reading", Yes, rest, -4, Append(result, a))
  BY YesIsTrue DEF Held
<1> QED
  BY <1>3, <1>4, <1>5 DEF state, x, value, rest

(* The third completes the second byte. *)
LEMMA ThirdCharacter ==
  ASSUME NEW a \in Bytes, NEW b \in Bytes, NEW c \in Bytes, NEW result
  PROVE  Step(Held("reading", Yes, b \div 16, -4, result), (b % 16) * 4 + c \div 64)
           = Held("reading", Yes, c \div 64, -6, Append(result, b))
<1> DEFINE x == (b % 16) * 4 + c \div 64
           value == b \div 16
           rest == c \div 64
           state == Held("reading", Yes, value, -4, result)
<1>1. /\ x \in 0..63 /\ (64 * value + x) % 4 = rest
      /\ ((64 * value + x) \div 4) % 256 = b
  BY BitsOfBytes
<1>2. /\ state.phase = "reading" /\ state.value = value
      /\ state.bits = -4 /\ state.result = result
  BY FieldByField
<1> HIDE DEF x, value, rest, state
<1>3. Step(state, x) = Take(state, x)
  BY <1>1, <1>2, TakesBits
<1>4. Take(state, x) = Held("reading", TRUE, rest, -6, Append(result, b))
  <2>1. Take(state, x) = Held("reading", TRUE, (64 * value + x) % 4, -6,
                              Append(result, ((64 * value + x) \div 4) % 256))
    BY <1>2 DEF Take, Power2
  <2> QED
    BY <1>1, <2>1
<1>5. Held("reading", TRUE, rest, -6, Append(result, b)) = Held("reading", Yes, rest, -6, Append(result, b))
  BY YesIsTrue DEF Held
<1> QED
  BY <1>3, <1>4, <1>5 DEF state, x, value, rest

(* The fourth completes the third byte and leaves no bits over. *)
LEMMA FourthCharacter ==
  ASSUME NEW a \in Bytes, NEW b \in Bytes, NEW c \in Bytes, NEW result
  PROVE  Step(Held("reading", Yes, c \div 64, -6, result), c % 64)
           = Held("reading", Yes, 0, -8, Append(result, c))
<1> DEFINE x == c % 64
           value == c \div 64
           state == Held("reading", Yes, value, -6, result)
<1>1. /\ x \in 0..63 /\ (64 * value + x) % 1 = 0
      /\ ((64 * value + x) \div 1) % 256 = c
  BY BitsOfBytes
<1>2. /\ state.phase = "reading" /\ state.value = value
      /\ state.bits = -6 /\ state.result = result
  BY FieldByField
<1> HIDE DEF x, value, state
<1>3. Step(state, x) = Take(state, x)
  BY <1>1, <1>2, TakesBits
<1>4. Take(state, x) = Held("reading", TRUE, 0, -8, Append(result, c))
  <2>1. Take(state, x) = Held("reading", TRUE, (64 * value + x) % 1, -8,
                              Append(result, ((64 * value + x) \div 1) % 256))
    BY <1>2 DEF Take, Power2
  <2> QED
    BY <1>1, <2>1
<1>5. Held("reading", TRUE, 0, -8, Append(result, c)) = Held("reading", Yes, 0, -8, Append(result, c))
  BY YesIsTrue DEF Held
<1> QED
  BY <1>3, <1>4, <1>5 DEF state, x, value

(* A "=" ends what is read, and nothing after it counts. *)
LEMMA PaddingEnds ==
  ASSUME NEW saw, NEW value, NEW bits, NEW result, NEW c
  PROVE  /\ Step(Held("reading", saw, value, bits, result), Pad)
              = Held("padded", saw, value, bits, result)
         /\ Step(Held("padded", saw, value, bits, result), c)
              = Held("padded", saw, value, bits, result)
<1>1. /\ Held("reading", saw, value, bits, result).phase = "reading"
      /\ Held("padded", saw, value, bits, result).phase = "padded"
      /\ [Held("reading", saw, value, bits, result) EXCEPT !.phase = "padded"]
           = Held("padded", saw, value, bits, result)
  BY FieldByField
<1> QED
  BY <1>1 DEF Step, Pad, Space

(* The characters of the group g, where it has begun. *)
LEMMA GroupOf ==
  ASSUME NEW data \in Seq(Bytes), NEW g \in Nat, 3 * g + 1 <= Len(data)
  PROVE  LET a == Byte(data, 3 * g + 1)
             b == Byte(data, 3 * g + 2)
             c == Byte(data, 3 * g + 3)
             input == Encode(data)
         IN  /\ a \in Bytes /\ b \in Bytes /\ c \in Bytes
             /\ a = data[3 * g + 1]
             /\ input[4 * g + 1] = a \div 4
             /\ input[4 * g + 2] = (a % 4) * 16 + b \div 16
             /\ IF 3 * g + 2 <= Len(data)
                THEN b = data[3 * g + 2] /\ input[4 * g + 3] = (b % 16) * 4 + c \div 64
                ELSE b = 0 /\ input[4 * g + 3] = Pad
             /\ IF 3 * g + 3 <= Len(data)
                THEN c = data[3 * g + 3] /\ input[4 * g + 4] = c % 64
                ELSE c = 0 /\ input[4 * g + 4] = Pad
<1>0. Len(data) \in Nat /\ \A i \in 1..Len(data) : data[i] \in Bytes
  BY LenProperties, ElementOfSeq
<1>1. \A i \in Nat \ {0} : /\ i <= Len(data) => Byte(data, i) = data[i]
                           /\ ~(i <= Len(data)) => Byte(data, i) = 0
                           /\ Byte(data, i) \in Bytes
  BY <1>0 DEF Byte, Bytes
<1>2. /\ 3 * g + 1 \in Nat \ {0} /\ 3 * g + 2 \in Nat \ {0} /\ 3 * g + 3 \in Nat \ {0}
      /\ (3 * g + 1) + 1 = 3 * g + 2 /\ (3 * g + 1) + 2 = 3 * g + 3
  OBVIOUS
<1>3. \A r \in 0..3 : (4 * g + r + 1) \in 1..(4 * ((Len(data) + 2) \div 3))
  BY <1>0
<1>4. \A r \in 0..3 : Encode(data)[4 * g + r + 1] = Group(data, 3 * g + 1)[r + 1]
  <2> TAKE r \in 0..3
  <2>1. ((4 * g + r + 1) - 1) \div 4 = g /\ ((4 * g + r + 1) - 1) % 4 = r
    OBVIOUS
  <2> QED
    BY <1>3, <2>1 DEF Encode
<1>5. /\ Encode(data)[4 * g + 1] = Group(data, 3 * g + 1)[1]
      /\ Encode(data)[4 * g + 2] = Group(data, 3 * g + 1)[2]
      /\ Encode(data)[4 * g + 3] = Group(data, 3 * g + 1)[3]
      /\ Encode(data)[4 * g + 4] = Group(data, 3 * g + 1)[4]
  <2>1. /\ 4 * g + 0 + 1 = 4 * g + 1 /\ 4 * g + 1 + 1 = 4 * g + 2
        /\ 4 * g + 2 + 1 = 4 * g + 3 /\ 4 * g + 3 + 1 = 4 * g + 4
    OBVIOUS
  <2> HIDE DEF Encode, Group
  <2> QED
    BY <1>4, <2>1
<1> QED
  BY <1>0, <1>1, <1>2, <1>5 DEF Group

(* What the decoder should have at each character of a group. *)
LEMMA ExpectedInGroup ==
  ASSUME NEW data \in Seq(Bytes), NEW g \in Nat, 3 * g + 1 <= Len(data)
  PROVE  LET n == Len(data)
             a == Byte(data, 3 * g + 1)
             b == Byte(data, 3 * g + 2)
             c == Byte(data, 3 * g + 3)
         IN  /\ Expected(data, 4 * g) = Reading(data, Saw(4 * g), 0, -8, 3 * g)
             /\ Expected(data, 4 * g + 1) = Reading(data, Yes, a \div 4, -2, 3 * g)
             /\ Expected(data, 4 * g + 2) = Reading(data, Yes, b \div 16, -4, 3 * g + 1)
             /\ n = 3 * g + 1 => Expected(data, 4 * g + 3) = Padded(data, -4)
             /\ n # 3 * g + 1 =>
                  Expected(data, 4 * g + 3) = Reading(data, Yes, c \div 64, -6, 3 * g + 2)
             /\ n = 3 * g + 1 => Expected(data, 4 * g + 4) = Padded(data, -4)
             /\ n = 3 * g + 2 => Expected(data, 4 * g + 4) = Padded(data, -6)
             /\ n # 3 * g + 1 /\ n # 3 * g + 2 =>
                  Expected(data, 4 * g + 4) = Reading(data, Yes, 0, -8, 3 * g + 3)
<1>0. Len(data) \in Nat
  BY LenProperties
<1>1. \A i \in Nat \ {0} : Byte(data, i) \div 256 = 0
  <2>1. \A i \in Nat \ {0} : Byte(data, i) \in Bytes
    BY <1>0, ElementOfSeq, LenProperties DEF Byte, Bytes
  <2>2. \A x \in Bytes : x \div 256 = 0
    BY DEF Bytes
  <2> QED
    BY <2>1, <2>2
<1>2. /\ Pending(data, 4 * g) = 0
      /\ Pending(data, 4 * g + 1) = Byte(data, 3 * g + 1) \div 4
      /\ Pending(data, 4 * g + 2) = Byte(data, 3 * g + 2) \div 16
      /\ Pending(data, 4 * g + 3) = Byte(data, 3 * g + 3) \div 64
      /\ Pending(data, 4 * g + 4) = 0
  BY <1>1, WholeBytes, Positions DEF Pending
<1>3. /\ Saw(4 * g + 1) = Yes /\ Saw(4 * g + 2) = Yes
      /\ Saw(4 * g + 3) = Yes /\ Saw(4 * g + 4) = Yes
  <2>1. 4 * g + 1 # 0 /\ 4 * g + 2 # 0 /\ 4 * g + 3 # 0 /\ 4 * g + 4 # 0 /\ 1 # 0
    OBVIOUS
  <2>2. \A k : k # 0 => Saw(k) = <<FALSE, TRUE>>[2]
    BY DEF Saw
  <2> QED
    BY <2>1, <2>2 DEF Yes
<1>4. /\ \A k : Whole(k) <= Len(data) =>
                  Expected(data, k) = Reading(data, Saw(k), Pending(data, k),
                                              <<-8, -2, -4, -6>>[(k % 4) + 1], Whole(k))
      /\ \A k : ~(Whole(k) <= Len(data)) =>
                  Expected(data, k) = Padded(data, IF Len(data) % 3 = 1 THEN -4 ELSE -6)
  BY DEF Expected
<1>5. /\ <<-8, -2, -4, -6>>[((4 * g) % 4) + 1] = -8
      /\ <<-8, -2, -4, -6>>[((4 * g + 1) % 4) + 1] = -2
      /\ <<-8, -2, -4, -6>>[((4 * g + 2) % 4) + 1] = -4
      /\ <<-8, -2, -4, -6>>[((4 * g + 3) % 4) + 1] = -6
      /\ <<-8, -2, -4, -6>>[((4 * g + 4) % 4) + 1] = -8
  BY Positions
<1>6. /\ Whole(4 * g) <= Len(data)
      /\ Whole(4 * g + 1) <= Len(data)
      /\ Whole(4 * g + 2) <= Len(data)
      /\ Whole(4 * g + 3) <= Len(data) <=> Len(data) # 3 * g + 1
      /\ Whole(4 * g + 4) <= Len(data) <=> Len(data) # 3 * g + 1 /\ Len(data) # 3 * g + 2
  BY <1>0, WholeBytes
<1>7. /\ Len(data) = 3 * g + 1 => Len(data) % 3 = 1
      /\ Len(data) = 3 * g + 2 => Len(data) % 3 # 1
  OBVIOUS
<1>8. Expected(data, 4 * g) = Reading(data, Saw(4 * g), 0, -8, 3 * g)
  BY <1>2, <1>3, <1>4, <1>5, <1>6, WholeBytes
<1>9. /\ Expected(data, 4 * g + 1)
           = Reading(data, Yes, Byte(data, 3 * g + 1) \div 4, -2, 3 * g)
      /\ Expected(data, 4 * g + 2)
           = Reading(data, Yes, Byte(data, 3 * g + 2) \div 16, -4, 3 * g + 1)
  BY <1>2, <1>3, <1>4, <1>5, <1>6, WholeBytes
<1>10. /\ Len(data) = 3 * g + 1 => Expected(data, 4 * g + 3) = Padded(data, -4)
       /\ Len(data) # 3 * g + 1 =>
            Expected(data, 4 * g + 3)
              = Reading(data, Yes, Byte(data, 3 * g + 3) \div 64, -6, 3 * g + 2)
  BY <1>2, <1>3, <1>4, <1>5, <1>6, <1>7, WholeBytes
<1>11. /\ Len(data) = 3 * g + 1 => Expected(data, 4 * g + 4) = Padded(data, -4)
       /\ Len(data) = 3 * g + 2 => Expected(data, 4 * g + 4) = Padded(data, -6)
       /\ Len(data) # 3 * g + 1 /\ Len(data) # 3 * g + 2 =>
            Expected(data, 4 * g + 4) = Reading(data, Yes, 0, -8, 3 * g + 3)
  BY <1>2, <1>3, <1>4, <1>5, <1>6, <1>7, WholeBytes
<1> QED
  BY <1>8, <1>9, <1>10, <1>11

(* Character after character, the decoder is where it should be. *)
LEMMA OneCharacterMore ==
  ASSUME NEW data \in Seq(Bytes), NEW g \in Nat, 3 * g + 1 <= Len(data)
  PROVE  LET input == Encode(data)
         IN  /\ Step(Expected(data, 4 * g), input[4 * g + 1]) = Expected(data, 4 * g + 1)
             /\ Step(Expected(data, 4 * g + 1), input[4 * g + 2]) = Expected(data, 4 * g + 2)
             /\ Step(Expected(data, 4 * g + 2), input[4 * g + 3]) = Expected(data, 4 * g + 3)
             /\ Step(Expected(data, 4 * g + 3), input[4 * g + 4]) = Expected(data, 4 * g + 4)
<1> DEFINE n == Len(data)
           a == Byte(data, 3 * g + 1)
           b == Byte(data, 3 * g + 2)
           c == Byte(data, 3 * g + 3)
           input == Encode(data)
<1>0. n \in Nat
  BY LenProperties
<1>2. /\ a \in Bytes /\ b \in Bytes /\ c \in Bytes /\ a = data[3 * g + 1]
      /\ input[4 * g + 1] = a \div 4
      /\ input[4 * g + 2] = (a % 4) * 16 + b \div 16
      /\ 3 * g + 2 <= n => b = data[3 * g + 2] /\ input[4 * g + 3] = (b % 16) * 4 + c \div 64
      /\ ~(3 * g + 2 <= n) => b = 0 /\ input[4 * g + 3] = Pad
      /\ 3 * g + 3 <= n => c = data[3 * g + 3] /\ input[4 * g + 4] = c % 64
      /\ ~(3 * g + 3 <= n) => c = 0 /\ input[4 * g + 4] = Pad
  BY GroupOf
<1>3. /\ Expected(data, 4 * g) = Reading(data, Saw(4 * g), 0, -8, 3 * g)
      /\ Expected(data, 4 * g + 1) = Reading(data, Yes, a \div 4, -2, 3 * g)
      /\ Expected(data, 4 * g + 2) = Reading(data, Yes, b \div 16, -4, 3 * g + 1)
      /\ n = 3 * g + 1 => Expected(data, 4 * g + 3) = Padded(data, -4)
      /\ n # 3 * g + 1 =>
           Expected(data, 4 * g + 3) = Reading(data, Yes, c \div 64, -6, 3 * g + 2)
      /\ n = 3 * g + 1 => Expected(data, 4 * g + 4) = Padded(data, -4)
      /\ n = 3 * g + 2 => Expected(data, 4 * g + 4) = Padded(data, -6)
      /\ n # 3 * g + 1 /\ n # 3 * g + 2 =>
           Expected(data, 4 * g + 4) = Reading(data, Yes, 0, -8, 3 * g + 3)
  BY ExpectedInGroup
<1> HIDE DEF a, b, c, input
<1>4. Step(Expected(data, 4 * g), input[4 * g + 1]) = Expected(data, 4 * g + 1)
  BY <1>2, <1>3, FirstCharacter DEF Reading
<1>5. Step(Expected(data, 4 * g + 1), input[4 * g + 2]) = Expected(data, 4 * g + 2)
  <2>1. Append(SubSeq(data, 1, 3 * g), a) = SubSeq(data, 1, 3 * g + 1)
    BY <1>0, <1>2, OneByteMore
  <2>2. Step(Reading(data, Yes, a \div 4, -2, 3 * g), (a % 4) * 16 + b \div 16)
          = Held("reading", Yes, b \div 16, -4, Append(SubSeq(data, 1, 3 * g), a))
    BY <1>2, SecondCharacter DEF Reading
  <2> QED
    BY <1>2, <1>3, <2>1, <2>2 DEF Reading
<1>6. Step(Expected(data, 4 * g + 2), input[4 * g + 3]) = Expected(data, 4 * g + 3)
  <2>1. CASE n = 3 * g + 1
    <3>1. SubSeq(data, 1, 3 * g + 1) = data
      BY <2>1, SubSeqFull
    <3>2. b = 0 /\ input[4 * g + 3] = Pad /\ b \div 16 = 0
      BY <1>0, <1>2, <2>1
    <3>3. Step(Reading(data, Yes, 0, -4, 3 * g + 1), Pad) = Padded(data, -4)
      BY <3>1, PaddingEnds DEF Reading, Padded
    <3> QED
      BY <1>3, <2>1, <3>2, <3>3
  <2>2. CASE n # 3 * g + 1
    <3>0. 3 * g + 2 <= n
      BY <1>0, <2>2
    <3>2. Append(SubSeq(data, 1, 3 * g + 1), b) = SubSeq(data, 1, 3 * g + 2)
      <4>1. 3 * g + 1 \in 0..(Len(data) - 1) /\ (3 * g + 1) + 1 = 3 * g + 2
        BY <1>0, <3>0
      <4> QED
        BY <1>2, <3>0, <4>1, OneByteMore
    <3>3. Step(Reading(data, Yes, b \div 16, -4, 3 * g + 1), (b % 16) * 4 + c \div 64)
            = Held("reading", Yes, c \div 64, -6, Append(SubSeq(data, 1, 3 * g + 1), b))
      BY <1>2, ThirdCharacter DEF Reading
    <3> QED
      BY <1>2, <1>3, <2>2, <3>0, <3>2, <3>3 DEF Reading
  <2> QED
    BY <2>1, <2>2
<1>7. Step(Expected(data, 4 * g + 3), input[4 * g + 4]) = Expected(data, 4 * g + 4)
  <2>1. CASE n = 3 * g + 1
    <3>1. Step(Padded(data, -4), input[4 * g + 4]) = Padded(data, -4)
      BY PaddingEnds DEF Padded
    <3> QED
      BY <1>3, <2>1, <3>1
  <2>2. CASE n = 3 * g + 2
    <3>1. SubSeq(data, 1, 3 * g + 2) = data
      BY <2>2, SubSeqFull
    <3>2. c = 0 /\ input[4 * g + 4] = Pad /\ c \div 64 = 0 /\ n # 3 * g + 1
      BY <1>0, <1>2, <2>2
    <3>3. Step(Reading(data, Yes, 0, -6, 3 * g + 2), Pad) = Padded(data, -6)
      BY <3>1, PaddingEnds DEF Reading, Padded
    <3> QED
      BY <1>3, <2>2, <3>2, <3>3
  <2>3. CASE n # 3 * g + 1 /\ n # 3 * g + 2
    <3>0. 3 * g + 3 <= n
      BY <1>0, <2>3
    <3>2. Append(SubSeq(data, 1, 3 * g + 2), c) = SubSeq(data, 1, 3 * g + 3)
      <4>1. 3 * g + 2 \in 0..(Len(data) - 1) /\ (3 * g + 2) + 1 = 3 * g + 3
        BY <1>0, <3>0
      <4> QED
        BY <1>2, <3>0, <4>1, OneByteMore
    <3>3. Step(Reading(data, Yes, c \div 64, -6, 3 * g + 2), c % 64)
            = Held("reading", Yes, 0, -8, Append(SubSeq(data, 1, 3 * g + 2), c))
      BY <1>2, FourthCharacter DEF Reading
    <3> QED
      BY <1>2, <1>3, <2>3, <3>0, <3>2, <3>3 DEF Reading
  <2> QED
    BY <2>1, <2>2, <2>3
<1> QED
  BY <1>4, <1>5, <1>6, <1>7 DEF input

(* The decoder starts with nothing. *)
LEMMA ExpectedAtStart ==
  ASSUME NEW data \in Seq(Bytes)
  PROVE  Expected(data, 0) = Held("reading", FALSE, 0, -8, <<>>)
<1>1. Len(data) \in Nat
  BY LenProperties
<1>2. Byte(data, 1) \in Bytes
  BY <1>1, ElementOfSeq DEF Byte, Bytes
<1>3. \A x \in Bytes : x \div 256 = 0
  BY DEF Bytes
<1>4. Whole(0) = 0 /\ Saw(0) = FALSE /\ 0 % 4 = 0
  BY DEF Whole, Saw
<1>5. Pending(data, 0) = 0
  BY <1>2, <1>3, <1>4 DEF Pending
<1>6. SubSeq(data, 1, 0) = <<>>
  <2>1. SubSeq(data, 1, 0) \in Seq(Bytes) /\ Len(SubSeq(data, 1, 0)) = 0
    BY <1>1, SubSeqProperties
  <2> QED
    BY <2>1, EmptySeq
<1>7. <<-8, -2, -4, -6>>[(0 % 4) + 1] = -8
  BY <1>4
<1>8. Expected(data, 0) = Reading(data, Saw(0), Pending(data, 0),
                                  <<-8, -2, -4, -6>>[(0 % 4) + 1], Whole(0))
  BY <1>1, <1>4 DEF Expected
<1>9. Expected(data, 0) = Reading(data, FALSE, 0, -8, 0)
  BY <1>4, <1>5, <1>7, <1>8
<1> QED
  BY <1>6, <1>9 DEF Reading

(* At the end it has all the bytes. *)
LEMMA ExpectedAtEnd ==
  ASSUME NEW data \in Seq(Bytes), NEW groups, groups = (Len(data) + 2) \div 3
  PROVE  LET last == Expected(data, 4 * groups)
         IN  /\ last.phase # "invalid"
             /\ last.saw_payload = Saw(4 * groups)
             /\ last.result = data
<1>1. Len(data) \in Nat /\ groups \in Nat
  BY LenProperties
<1>2. Whole(4 * groups) = 3 * groups
  BY <1>1, WholeBytes
<1>3. CASE 3 * groups <= Len(data)
  <2>1. 3 * groups = Len(data)
    BY <1>1, <1>3
  <2>2. SubSeq(data, 1, 3 * groups) = data
    BY <2>1, SubSeqFull
  <2>3. Expected(data, 4 * groups)
          = Held("reading", Saw(4 * groups), Pending(data, 4 * groups),
                 <<-8, -2, -4, -6>>[((4 * groups) % 4) + 1], data)
    BY <1>2, <1>3, <2>2 DEF Expected, Reading
  <2> QED
    BY <2>3, FieldByField
<1>4. CASE ~(3 * groups <= Len(data))
  <2>1. Expected(data, 4 * groups)
          = Held("padded", Yes, 0, IF Len(data) % 3 = 1 THEN -4 ELSE -6, data)
    BY <1>2, <1>4 DEF Expected, Padded
  <2>2. 4 * groups # 0
    BY <1>1, <1>4
  <2>3. Saw(4 * groups) = Yes
    BY <2>2 DEF Saw, Yes
  <2> QED
    BY <2>1, <2>3, FieldByField
<1> QED
  BY <1>3, <1>4

(* base64_decode() returns what base64_encode() was given, for any bytes. *)
THEOREM DecodeOfEncode ==
  ASSUME NEW data \in Seq(Bytes)
  PROVE  Decode(Encode(data)) = [ok |-> TRUE, bytes |-> data]
<1> DEFINE input == Encode(data)
           groups == (Len(data) + 2) \div 3
           N == 4 * groups
           Begin == Held("reading", FALSE, 0, -8, <<>>)
           Runs(f) == f = [k \in 0..Len(input) |-> IF k = 0 THEN Begin
                                                   ELSE Step(f[k - 1], input[k])]
           run == CHOOSE f : Runs(f)
           E == [k \in 0..N |-> Expected(data, k)]
<1>0. Len(data) \in Nat /\ groups \in Nat /\ N \in Nat
  BY LenProperties
<1>1. Len(input) = N /\ DOMAIN input = 1..N
  <2>1. input = [k \in 1..N |-> Group(data, 3 * ((k - 1) \div 4) + 1)[((k - 1) % 4) + 1]]
    BY DEF Encode
  <2> HIDE DEF input, N
  <2>2. DOMAIN input = 1..N
    BY <2>1
  <2> QED
    BY <1>0, <2>1, <2>2
<1>2. Expected(data, 0) = Begin
  BY ExpectedAtStart
<1>3. \A k \in 1..N : Step(Expected(data, k - 1), input[k]) = Expected(data, k)
  <2> SUFFICES ASSUME NEW k \in 1..N
               PROVE  Step(Expected(data, k - 1), input[k]) = Expected(data, k)
    OBVIOUS
  <2> DEFINE g == (k - 1) \div 4
  <2>1. g \in Nat /\ 3 * g + 1 <= Len(data)
    BY <1>0
  <2>2. \/ k - 1 = 4 * g     /\ k = 4 * g + 1
        \/ k - 1 = 4 * g + 1 /\ k = 4 * g + 2
        \/ k - 1 = 4 * g + 2 /\ k = 4 * g + 3
        \/ k - 1 = 4 * g + 3 /\ k = 4 * g + 4
    BY <1>0
  <2> HIDE DEF g, input, N
  <2>3. /\ Step(Expected(data, 4 * g), input[4 * g + 1]) = Expected(data, 4 * g + 1)
        /\ Step(Expected(data, 4 * g + 1), input[4 * g + 2]) = Expected(data, 4 * g + 2)
        /\ Step(Expected(data, 4 * g + 2), input[4 * g + 3]) = Expected(data, 4 * g + 3)
        /\ Step(Expected(data, 4 * g + 3), input[4 * g + 4]) = Expected(data, 4 * g + 4)
    BY <2>1, OneCharacterMore DEF input
  <2> QED
    BY <2>2, <2>3
<1> HIDE DEF input, groups, N, Begin
<1>4. Runs(E)
  <2>1. \A k \in 0..N : E[k] = IF k = 0 THEN Begin ELSE Step(E[k - 1], input[k])
    <3> SUFFICES ASSUME NEW k \in 0..N
                 PROVE  E[k] = IF k = 0 THEN Begin ELSE Step(E[k - 1], input[k])
      OBVIOUS
    <3>1. CASE k = 0
      BY <1>0, <1>2, <3>1
    <3>2. CASE k # 0
      <4>1. k \in 1..N /\ k - 1 \in 0..N
        BY <1>0, <3>2
      <4> QED
        BY <1>3, <3>2, <4>1
    <3> QED
      BY <3>1, <3>2
  <2>2. E = [k \in 0..N |-> IF k = 0 THEN Begin ELSE Step(E[k - 1], input[k])]
    <3> DEFINE R == [k \in 0..N |-> IF k = 0 THEN Begin ELSE Step(E[k - 1], input[k])]
    <3>1. DOMAIN E = 0..N /\ \A k \in 0..N : R[k] = E[k]
      BY <2>1
    <3> QED
      BY <3>1
  <2> HIDE DEF E
  <2> QED
    BY <1>1, <2>2
<1>5. Runs(run)
  <2> HIDE DEF E, Runs
  <2> QED
    BY <1>4
<1>6. \A k \in 0..N : run[k] = IF k = 0 THEN Begin ELSE Step(run[k - 1], input[k])
  <2> HIDE DEF run
  <2> QED
    BY <1>1, <1>5
<1>7. run[N] = Expected(data, N)
  <2> HIDE DEF run
  <2> DEFINE T == {n \in Nat : n \in 0..N => run[n] = Expected(data, n)}
  <2>1. 0 \in T
    BY <1>0, <1>2, <1>6
  <2>2. \A n \in Nat : n \in T => n + 1 \in T
    <3> SUFFICES ASSUME NEW n \in Nat, n \in 0..N => run[n] = Expected(data, n),
                        n + 1 \in 0..N
                 PROVE  run[n + 1] = Expected(data, n + 1)
      OBVIOUS
    <3>1. n \in 0..N /\ n + 1 \in 1..N /\ n + 1 # 0 /\ (n + 1) - 1 = n
      BY <1>0
    <3> QED
      BY <1>3, <1>6, <3>1
  <2> HIDE DEF T
  <2>3. N \in T
    BY <1>0, <2>1, <2>2, NumbersByInduction
  <2> QED
    BY <1>0, <2>3 DEF T
<1>8. /\ run[N].phase # "invalid"
      /\ run[N].saw_payload = Saw(N)
      /\ run[N].result = data
  BY <1>7, ExpectedAtEnd DEF N, groups
<1>9. ~(~run[N].saw_payload /\ input # <<>>)
  <2>1. CASE N = 0
    <3>1. input = <<>>
      BY <1>1, <2>1, EmptySeq
    <3> QED
      BY <3>1
  <2>2. CASE N # 0
    <3>1. Saw(N) = TRUE
      BY <2>2 DEF Saw
    <3> QED
      BY <1>8, <3>1
  <2> QED
    BY <2>1, <2>2
<1> HIDE DEF run
<1>10. Decode(input) = IF run[N].phase = "invalid"
                       THEN [ok |-> FALSE, error |-> "Invalid base64 character"]
                       ELSE IF ~run[N].saw_payload /\ input # <<>>
                       THEN [ok |-> FALSE, error |-> "Empty base64 payload"]
                       ELSE [ok |-> TRUE, bytes |-> run[N].result]
  BY <1>1 DEF Decode, run, Begin
<1> QED
  BY <1>8, <1>9, <1>10 DEF input

-----------------------------------------------------------------------------
(* A network that is found first is one of those asked for. *)
LEMMA HoldsV2Stem ==
  ASSUME NEW d, NEW p \in Precisions, HoldsV2(d, p)
  PROVE  \E s \in Elems(V2Stems) : Exists(d, s, p)
<1> DEFINE Known(s) == \E q \in Precisions : Exists(d, s, q)
           Begins(i) == Known(V2Stems[i]) /\ \A j \in 1..(i - 1) : ~Known(V2Stems[j])
           T == {i \in 1..Len(V2Stems) : Known(V2Stems[i])}
           first == CHOOSE i \in 1..Len(V2Stems) : Begins(i)
<1>0. Len(V2Stems) \in Nat
  BY StemsFacts DEF Stems, Versions
<1>1. T # {}
  BY DEF HoldsV2, Elems
<1>2. PICK m \in T : \A n \in T : m <= n
  <2>1. T \in SUBSET Nat
    BY <1>0
  <2> HIDE DEF T
  <2> QED
    BY <1>1, <2>1, LeastNumber
<1>3. \A j \in 1..(m - 1) : j \in 1..Len(V2Stems) /\ ~(m <= j)
  BY <1>0
<1>4. m \in 1..Len(V2Stems) /\ Begins(m)
  BY <1>2, <1>3
<1>5. first \in 1..Len(V2Stems)
  <2> HIDE DEF Begins
  <2> QED BY <1>4
<1>6. First(V2Stems, Known) = V2Stems[first]
  BY DEF First
<1>7. Exists(d, V2Stems[first], p)
  BY <1>6 DEF HoldsV2
<1> HIDE DEF first
<1> QED
  BY <1>5, <1>7 DEF Elems

(* What is on disk, and what the last download of a weight left of it.       *)
FilesInv ==
  /\ disk \in [Weights -> {"absent", "damaged", "whole"}]
  /\ has_dir = TRUE
  /\ sha_tool \in BOOLEAN
  /\ sha_tool => \A w \in fetched \cap Weights : disk[w] = "whole"

(* A download leaves the weight whole or forgets it, finished or killed. *)
LEMMA FilesOfDownload ==
  ASSUME FilesInv, Download \/ KilledInDownload
  PROVE  FilesInv'
<1> DEFINE target == Target(manifest, args.backbone)
           weight == Weight("root", target.stem, args.precision)
<1>1. PICK content \in {"absent", "damaged", "whole"} :
        /\ has_dir' = has_dir /\ sha_tool' = sha_tool
        /\ \/ UNCHANGED <<disk, fetched>>
           \/ /\ disk' = [disk EXCEPT ![weight] = content]
              /\ \/ fetched' = fetched \ {weight}
                 \/ fetched' = fetched \cup {weight} /\ (sha_tool => content = "whole")
  BY DEF Download, KilledInDownload, Destination
<1> HIDE DEF weight
<1>2. disk' \in [Weights -> {"absent", "damaged", "whole"}]
  BY <1>1 DEF FilesInv
<1>3. ASSUME sha_tool', NEW w \in fetched' \cap Weights
      PROVE  disk'[w] = "whole"
  <2>1. CASE w = weight
    BY <1>1, <1>3, <2>1 DEF FilesInv
  <2>2. CASE w # weight
    BY <1>1, <1>3, <2>2 DEF FilesInv
  <2> QED
    BY <2>1, <2>2
<1> QED
  BY <1>1, <1>2, <1>3 DEF FilesInv

(* Only downloads touch the files. *)
LEMMA FilesStay ==
  ASSUME CliNext, ~Download, ~KilledInDownload
  PROVE  UNCHANGED <<disk, has_dir, sha_tool, fetched>>
<1>1. ASSUME NEW a \in Invocations, Start(a)
      PROVE  UNCHANGED <<disk, has_dir, sha_tool, fetched>>
  BY <1>1 DEF Start, files
<1>2. CASE LoadForOcr
  BY <1>2 DEF LoadForOcr, LoadModel
<1>3. CASE \/ ParseArgs \/ ListTags \/ ChooseTag \/ FetchManifest \/ ListModels
           \/ RefuseEmptyManifest \/ Collect
  BY <1>3 DEF ParseArgs, ListTags, ChooseTag, FetchManifest, ListModels,
              RefuseEmptyManifest, Collect, files
<1>4. CASE LocalImage \/ RemoteImage \/ CompareImage \/ FinishImages \/ Ended
  BY <1>4 DEF LocalImage, RemoteImage, CompareImage, FinishImages, Ended, files, cliVars
<1> QED
  BY <1>1, <1>2, <1>3, <1>4 DEF CliNext

(* FilesInv holds in every reachable state, over any number of runs. *)
THEOREM FilesInvariant == CliSpec => []FilesInv
<1>1. CliInit => FilesInv
  BY DEF CliInit, FilesInv
<1>2. FilesInv /\ [CliNext]_cliVars => FilesInv'
  <2> SUFFICES ASSUME FilesInv, [CliNext]_cliVars PROVE FilesInv'
    OBVIOUS
  <2>1. CASE Download \/ KilledInDownload
    BY <2>1, FilesOfDownload
  <2>2. CASE CliNext /\ ~Download /\ ~KilledInDownload
    BY <2>2, FilesStay DEF FilesInv
  <2>3. CASE UNCHANGED cliVars
    BY <2>3 DEF cliVars, files, FilesInv
  <2> QED
    BY <2>1, <2>2, <2>3
<1> QED
  BY <1>1, <1>2, PTL DEF CliSpec

(* A download that exits with 0 leaves something the engine loads. *)
THEOREM DownloadsLoad == CliSpec => []DownloadedModelLoads
<1>1. FilesInv => DownloadedModelLoads
  <2> SUFFICES ASSUME FilesInv, NEW p \in Precisions, sha_tool,
                      Weight("root", V2Stems[1], p) \in fetched,
                      \A s \in Elems(V2Stems) : disk[Weight("v2", s, p)] = "absent"
               PROVE  CanLoad("V2", p)
    BY DEF DownloadedModelLoads
  <2>1. EngineWeights("V2", "root", p) = {Weight("root", V2Stems[1], p)}
    BY DEF EngineWeights
  <2>2. Weight("root", V2Stems[1], p) \in Weights
    BY <2>1, EngineWeightsFacts DEF Versions
  <2>3. disk[Weight("root", V2Stems[1], p)] = "whole"
    BY <2>2 DEF FilesInv
  <2>4. HoldsV2("root", p)
    BY <2>3, HoldsV2Engine DEF Exists
  <2>5. ~HoldsV2("v2", p)
    BY HoldsV2Stem DEF Exists
  <2>6. Resolve("V2", p) = "root"
    BY <2>4, <2>5 DEF Resolve, ResolveV2
  <2> QED
    BY <2>1, <2>3, <2>6 DEF CanLoad, EngineLoads
<1> QED
  BY <1>1, FilesInvariant, PTL

-----------------------------------------------------------------------------
(* No tag is below itself. *)
LEMMA V2LessIrreflexive ==
  ASSUME NEW t \in Tags
  PROVE  ~V2Less(t, t)
<1>1. ASSUME NEW i \in DOMAIN t.nums
      PROVE  t.nums[i] \in Int
  <2>1. t.nums \in Seq(MinInt..MaxInt)
    BY DEF Tags
  <2>2. t.nums[i] \in MinInt..MaxInt
    BY <1>1, <2>1, LenProperties, ElementOfSeq
  <2> QED
    BY <2>2
<1>2. \A i \in 1..3 : V2Numbers(t)[i] \in Int
  BY <1>1 DEF V2Numbers
<1>3. \A i \in 1..3 : ~(V2Numbers(t)[i] < V2Numbers(t)[i])
  BY <1>2
<1> QED
  BY <1>3 DEF V2Less

(* The first tag of a listing that some source gave is one of the first     *)
(* source that lists any, and none of that source is above it.              *)
LEMMA NewestFirstTag ==
  ASSUME NEW answers \in Seq(Seq(Tags)), NEW fallback,
         NEW listing \in FetchV2ReleaseTags(answers, fallback)
  PROVE  \/ /\ \A i \in DOMAIN answers : V2Tags(answers[i]) = {}
            /\ listing = fallback
         \/ \E i \in DOMAIN answers :
              /\ Head(listing) \in V2Tags(answers[i])
              /\ \A j \in DOMAIN answers : j < i => V2Tags(answers[j]) = {}
              /\ \A t \in V2Tags(answers[i]) : ~V2Less(Head(listing), t)
<1> DEFINE answering == {r \in DOMAIN answers : V2Tags(answers[r]) # {}}
           given == answers[Min(answering)]
           S == V2Tags(given)
<1>1. CASE answering = {}
  BY <1>1 DEF FetchV2ReleaseTags
<1>2. CASE answering # {}
  <2>1. answering \in SUBSET Nat
    BY LenProperties
  <2>2. Min(answering) \in answering /\ \A x \in answering : Min(answering) <= x
    <3> HIDE DEF answering
    <3> QED BY <1>2, <2>1, MinOfNumbers
  <2>3. Min(answering) \in DOMAIN answers /\ S # {}
    BY <2>2
  <2>13. \A j \in DOMAIN answers : j < Min(answering) => V2Tags(answers[j]) = {}
    <3> TAKE j \in DOMAIN answers
    <3> HAVE j < Min(answering)
    <3>1. j \in Nat /\ Min(answering) \in Nat
      BY <2>1, <2>2, LenProperties
    <3>2. j \notin answering
      <4> HIDE DEF answering
      <4> QED BY <2>2, <3>1
    <3> QED
      BY <3>2
  <2>4. given \in Seq(Tags)
    <3> HIDE DEF answering
    <3> QED BY <2>3, LenProperties, ElementOfSeq
  <2>5. listing \in NewestFirst(S)
    BY <1>2 DEF FetchV2ReleaseTags
  <2> HIDE DEF answering
  <2>6. S \subseteq ToSet(given) /\ S \subseteq Tags
    <3>1. \A i \in DOMAIN given : given[i] \in Tags
      BY <2>4, LenProperties, ElementOfSeq
    <3> QED
      BY <3>1 DEF V2Tags, ToSet
  <2>7. IsFiniteSet(S)
    BY <2>4, <2>6, FinitelyListed, FS_Subset
  <2> HIDE DEF S
  <2>8. listing \in SetToSeqs(S)
    BY <2>5 DEF NewestFirst
  <2>9. /\ listing \in Seq(S) /\ DOMAIN listing = 1..Len(listing)
        /\ \A x \in S : \E i \in DOMAIN listing : listing[i] = x
    BY <2>7, <2>8, ListsThemAll, LenProperties
  <2>10. Len(listing) \in Nat \ {0} /\ 1 \in DOMAIN listing /\ Head(listing) = listing[1]
    <3>1. Len(listing) \in Nat
      BY <2>9, LenProperties
    <3>2. Len(listing) # 0
      BY <2>3, <2>9
    <3>3. listing # <<>>
      BY <2>9, <3>2, EmptySeq
    <3> QED
      BY <2>9, <3>1, <3>2, <3>3, HeadTailProperties
  <2>11. listing[1] \in S
    BY <2>9, <2>10, ElementOfSeq
  <2>12. ASSUME NEW t \in S
         PROVE  ~V2Less(listing[1], t)
    <3>1. PICK i \in DOMAIN listing : listing[i] = t
      BY <2>9
    <3>2. CASE i = 1
      BY <2>6, <2>11, <3>1, <3>2, V2LessIrreflexive
    <3>3. CASE i # 1
      <4>1. 1 < i
        BY <2>9, <2>10, <3>3
      <4> QED
        BY <2>5, <2>10, <3>1, <4>1 DEF NewestFirst
    <3> QED
      BY <3>2, <3>3
  <2> QED
    BY <2>3, <2>10, <2>11, <2>12, <2>13 DEF S
<1> QED
  BY <1>1, <1>2

(* The inductive invariant: the tag and the replies it was chosen from. *)
TagsInv ==
  /\ replies \in Seq(Seq(Tags))
  /\ LatestHasHighestNumbers

(* The release a command without --tag works on is one of the first source   *)
(* that lists a V2 tag, as isV2Tag() understands it, and none there has      *)
(* higher numbers (fetchV2ReleaseTags, fetchLatestV2Tag).                    *)
THEOREM LatestIsHighest == CliSpec => []LatestHasHighestNumbers
<1>1. CliInit => TagsInv
  <2> SUFFICES ASSUME CliInit PROVE TagsInv
    OBVIOUS
  <2>1. replies \in Seq(Seq(Tags)) /\ tag = NoTag
    BY EmptySeq DEF CliInit
  <2> QED
    BY <2>1 DEF TagsInv, LatestHasHighestNumbers
<1>2. TagsInv /\ [CliNext]_cliVars => TagsInv'
  <2> SUFFICES ASSUME TagsInv, [CliNext]_cliVars PROVE TagsInv'
    OBVIOUS
  <2>1. ASSUME NEW a \in Invocations, Start(a) PROVE TagsInv'
    <3>1. replies' \in Seq(Seq(Tags)) /\ tag' = NoTag
      BY <2>1, CliAssumption DEF Start
    <3> QED
      BY <3>1 DEF TagsInv, LatestHasHighestNumbers
  <2>2. CASE ChooseTag
    <3>1. replies' = replies /\ args' = args
      BY <2>2 DEF ChooseTag
    <3>2. CASE args.tag # NoTag
      BY <3>1, <3>2 DEF TagsInv, LatestHasHighestNumbers
    <3>3. CASE args.tag = NoTag
      <4>1. PICK listing \in FetchV2ReleaseTags(replies, Fallback) : tag' = Head(listing)
        BY <2>2, <3>3 DEF ChooseTag
      <4>2. \/ /\ \A i \in DOMAIN replies : V2Tags(replies[i]) = {}
               /\ listing = Fallback
            \/ \E i \in DOMAIN replies :
                 /\ Head(listing) \in V2Tags(replies[i])
                 /\ \A j \in DOMAIN replies : j < i => V2Tags(replies[j]) = {}
                 /\ \A t \in V2Tags(replies[i]) : ~V2Less(Head(listing), t)
        BY <4>1, NewestFirstTag DEF TagsInv
      <4> QED
        BY <3>1, <4>1, <4>2 DEF TagsInv, LatestHasHighestNumbers
    <3> QED
      BY <3>2, <3>3
  <2>3. CASE UNCHANGED <<replies, args, tag>>
    BY <2>3 DEF TagsInv, LatestHasHighestNumbers
  <2>4. CASE \/ ParseArgs \/ ListTags \/ ListModels \/ RefuseEmptyManifest
             \/ Download \/ KilledInDownload \/ LoadForOcr
    BY <2>3, <2>4 DEF ParseArgs, ListTags, ListModels, RefuseEmptyManifest,
                      Download, KilledInDownload, LoadForOcr, asking
  <2>5. CASE \/ FetchManifest \/ Collect \/ LocalImage \/ RemoteImage \/ CompareImage
             \/ FinishImages \/ Ended
    BY <2>3, <2>5 DEF FetchManifest, Collect, LocalImage, RemoteImage, CompareImage,
                      FinishImages, Ended, asking, cliVars
  <2>6. CASE UNCHANGED cliVars
    BY <2>3, <2>6 DEF cliVars, asking
  <2> QED
    BY <2>1, <2>2, <2>4, <2>5, <2>6 DEF CliNext
<1>3. TagsInv => LatestHasHighestNumbers
  BY DEF TagsInv
<1> QED
  BY <1>1, <1>2, <1>3, PTL DEF CliSpec

-----------------------------------------------------------------------------
(* Four groups that share nothing and leave nothing out. *)
Groups(S, A, B, C, D) ==
  /\ A \subseteq S /\ B \subseteq S /\ C \subseteq S
  /\ A \cap B = {} /\ A \cap C = {} /\ B \cap C = {}
  /\ D = S \ (A \cup B \cup C)

(* So the last group has what the others leave. *)
LEMMA FourGroups ==
  ASSUME NEW S, IsFiniteSet(S), NEW A, NEW B, NEW C, NEW D, Groups(S, A, B, C, D)
  PROVE  /\ Cardinality(S) \in Nat /\ Cardinality(A) \in Nat
         /\ Cardinality(B) \in Nat /\ Cardinality(C) \in Nat
         /\ Cardinality(D)
              = Cardinality(S) - Cardinality(A) - Cardinality(B) - Cardinality(C)
<1>9. /\ A \in SUBSET S /\ B \in SUBSET S /\ C \in SUBSET S
      /\ A \cap B = {} /\ A \cap C = {} /\ B \cap C = {}
      /\ D = S \ (A \cup B \cup C)
  BY DEF Groups
<1>0. Cardinality({}) = 0
  BY FS_EmptySet
<1>1. /\ IsFiniteSet(A) /\ IsFiniteSet(B) /\ IsFiniteSet(C) /\ IsFiniteSet(D)
  BY <1>9, FS_Subset
<1>2. /\ Cardinality(S) \in Nat /\ Cardinality(A) \in Nat /\ Cardinality(B) \in Nat
      /\ Cardinality(C) \in Nat /\ Cardinality(D) \in Nat
  BY <1>1, FS_CardinalityType
<1>3. IsFiniteSet(A \cup B) /\ Cardinality(A \cup B) = Cardinality(A) + Cardinality(B)
  <2>1. Cardinality(A \cup B) = Cardinality(A) + Cardinality(B) - Cardinality(A \cap B)
    BY <1>1, FS_Union
  <2>2. IsFiniteSet(A \cup B)
    BY <1>1, FS_Union
  <2>3. Cardinality(A \cup B) = Cardinality(A) + Cardinality(B) - 0
    BY <1>9, <1>0, <2>1
  <2> QED
    BY <1>2, <2>2, <2>3
<1>4. /\ IsFiniteSet((A \cup B) \cup C)
      /\ Cardinality((A \cup B) \cup C) = Cardinality(A) + Cardinality(B) + Cardinality(C)
  <2>1. (A \cup B) \cap C = {}
    BY <1>9
  <2>2. Cardinality((A \cup B) \cup C)
          = Cardinality(A \cup B) + Cardinality(C) - Cardinality((A \cup B) \cap C)
    BY <1>1, <1>3, FS_Union
  <2>3. IsFiniteSet((A \cup B) \cup C)
    BY <1>1, <1>3, FS_Union
  <2>4. Cardinality((A \cup B) \cup C) = Cardinality(A \cup B) + Cardinality(C) - 0
    BY <1>0, <2>1, <2>2
  <2> QED
    BY <1>2, <1>3, <2>3, <2>4
<1> DEFINE U == (A \cup B) \cup C
<1>5. U \cap D = {} /\ U \cup D = S
  BY <1>9
<1> HIDE DEF U
<1>6. Cardinality(S) = Cardinality(U) + Cardinality(D)
  <2>1. Cardinality(U \cup D) = Cardinality(U) + Cardinality(D) - Cardinality(U \cap D)
    BY <1>1, <1>4, FS_Union DEF U
  <2>2. Cardinality(U) \in Nat
    BY <1>4, FS_CardinalityType DEF U
  <2>3. Cardinality(S) = Cardinality(U) + Cardinality(D) - 0
    BY <1>0, <1>5, <2>1
  <2> QED
    BY <1>2, <2>2, <2>3
<1>7. Cardinality(D) = Cardinality(S) - Cardinality(A) - Cardinality(B) - Cardinality(C)
  BY <1>2, <1>4, <1>6 DEF U
<1> QED
  BY <1>2, <1>7

(* The rows of a comparison. *)
Compared == [path : DOMAIN Content, local : Results, remote : Results]

(* The counts of print_compare_summary() are those of the table. *)
LEMMA SummaryCounts ==
  ASSUME NEW entries \in Seq(Compared)
  PROVE  LET s == Summary(entries)
         IN  /\ s.matching <= s.both_ok
             /\ s.both_fail = Cardinality({i \in DOMAIN entries :
                                             ~entries[i].local.ok /\ ~entries[i].remote.ok})
             /\ s.both_ok + s.local_only + s.remote_only + s.both_fail = Len(entries)
<1> DEFINE S == DOMAIN entries
           A == {i \in S : entries[i].local.ok /\ entries[i].remote.ok}
           B == {i \in S : entries[i].local.ok /\ ~entries[i].remote.ok}
           C == {i \in S : ~entries[i].local.ok /\ entries[i].remote.ok}
           D == {i \in S : ~entries[i].local.ok /\ ~entries[i].remote.ok}
           M == {i \in S : Matches(entries[i])}
<1>1. Len(entries) \in Nat /\ S = 1..Len(entries)
  BY LenProperties
<1>2. IsFiniteSet(S) /\ Cardinality(S) = Len(entries)
  BY <1>1, FS_Interval
<1>3. \A i \in S : entries[i].local.ok \in BOOLEAN /\ entries[i].remote.ok \in BOOLEAN
  <2>1. \A i \in S : entries[i] \in Compared
    BY <1>1, ElementOfSeq
  <2>2. ASSUME NEW r \in Results PROVE r.ok \in BOOLEAN
    <3>1. CASE r = Failed
      BY <3>1 DEF Failed
    <3>2. CASE r \in {[ok |-> TRUE, value |-> v] : v \in {"1", "2"}}
      <4>1. PICK v \in {"1", "2"} : r = [ok |-> TRUE, value |-> v]
        BY <3>2
      <4>2. r.ok = TRUE
        BY <4>1
      <4> QED
        BY <4>2
    <3> QED
      BY <3>1, <3>2 DEF Results
  <2> QED
    BY <2>1, <2>2 DEF Compared
<1>4. D = S \ (A \cup B \cup C)
  BY <1>3
<1>5. M \in SUBSET A
  BY DEF Matches
<1>6. Summary(entries) =
        [both_ok |-> Cardinality(A), matching |-> Cardinality(M),
         local_only |-> Cardinality(B), remote_only |-> Cardinality(C),
         both_fail |-> Len(entries) - Cardinality(A) - Cardinality(B) - Cardinality(C)]
  BY DEF Summary, Count
<1>7. Groups(S, A, B, C, D) /\ A \in SUBSET S
  BY <1>4 DEF Groups
<1> HIDE DEF A, B, C, D, M, S
<1>8. /\ Cardinality(A) \in Nat /\ Cardinality(B) \in Nat /\ Cardinality(C) \in Nat
      /\ Cardinality(D) = Len(entries) - Cardinality(A) - Cardinality(B) - Cardinality(C)
  BY <1>2, <1>7, FourGroups
<1>9. Cardinality(M) <= Cardinality(A)
  BY <1>2, <1>5, <1>7, FS_Subset
<1> DEFINE s == Summary(entries)
<1>10. /\ s.both_ok = Cardinality(A) /\ s.matching = Cardinality(M)
       /\ s.local_only = Cardinality(B) /\ s.remote_only = Cardinality(C)
       /\ s.both_fail = Len(entries) - Cardinality(A) - Cardinality(B) - Cardinality(C)
  BY <1>6
<1> HIDE DEF s
<1>11. s.matching <= s.both_ok
  BY <1>9, <1>10
<1>12. s.both_fail = Cardinality(D)
  BY <1>8, <1>10
<1>13. s.both_ok + s.local_only + s.remote_only + s.both_fail = Len(entries)
  BY <1>1, <1>8, <1>10
<1> QED
  BY <1>11, <1>12, <1>13 DEF s, D, S

(* The rows of each mode. *)
RowsOf(a) ==
  IF a.compare THEN Compared
  ELSE IF a.server = "none" THEN [path : DOMAIN Content, local : Results]
  ELSE [path : DOMAIN Content, remote : Results]

(* What the requests about some images are. *)
Asked(paths) ==
  {[path |-> paths[j], read |-> Decode(Encode(Content[paths[j]]))] : j \in DOMAIN paths}

(* The rows so far are about the first images. *)
InOrder ==
  /\ rows \in Seq(RowsOf(args))
  /\ Len(rows) <= Len(images)
  /\ \A i \in DOMAIN rows : rows[i].path = images[i]

(* The inductive invariant of an OCR run: the rows are about the images in   *)
(* their order, the requests about them, and a summary counts those rows.    *)
BatchInv ==
  /\ args \in Invocations
  /\ pc \in {"load", "collect", "images"} => args.sub = "ocr" /\ ~Refused(args)
  /\ pc \in {"parse", "load", "collect"} => rows = <<>> /\ requests = <<>>
  /\ images \in Seq(DOMAIN Content)
  /\ pc = "images" => InOrder
  /\ requests \in Seq(Asked(images))
  /\ summary # NoSummary =>
       /\ pc = "exited" /\ InOrder /\ args.compare
       /\ Len(rows) = Len(images)
       /\ summary = Summary(rows)

(* The image whose turn it is. *)
LEMMA CurrentImage ==
  ASSUME BatchInv, pc = "images", Len(rows) < Len(images)
  PROVE  /\ Len(rows) \in Nat /\ Len(images) \in Nat
         /\ Len(rows) + 1 \in DOMAIN images
         /\ Current \in DOMAIN Content
<1>1. rows \in Seq(RowsOf(args)) /\ images \in Seq(DOMAIN Content)
  BY DEF BatchInv, InOrder
<1>2. Len(rows) \in Nat /\ Len(images) \in Nat /\ DOMAIN images = 1..Len(images)
  BY <1>1, LenProperties
<1>3. Len(rows) + 1 \in 1..Len(images)
  BY <1>2
<1> QED
  BY <1>1, <1>2, <1>3, ElementOfSeq DEF Current

(* One more image, in whatever mode. *)
LEMMA NextImage ==
  ASSUME BatchInv, pc = "images", Len(rows) < Len(images),
         NEW row \in RowsOf(args), row.path = Current,
         rows' = Append(rows, row),
         UNCHANGED <<args, pc, images, summary>>,
         \/ requests' = requests
         \/ requests' = Append(requests, [path |-> Current,
                                          read |-> Decode(Encode(Content[Current]))])
  PROVE  BatchInv'
<1>1. /\ Len(rows) \in Nat /\ Len(images) \in Nat
      /\ Len(rows) + 1 \in DOMAIN images
      /\ Current \in DOMAIN Content
  BY CurrentImage
<1>2. InOrder
  BY DEF BatchInv
<1>3. InOrder'
  <2>1. rows \in Seq(RowsOf(args)) /\ DOMAIN rows = 1..Len(rows)
    BY <1>2, LenProperties DEF InOrder
  <2>2. /\ rows' \in Seq(RowsOf(args)) /\ Len(rows') = Len(rows) + 1
        /\ \A i \in 1..Len(rows) : rows'[i] = rows[i]
        /\ rows'[Len(rows) + 1] = row
    BY <2>1, AppendProperties
  <2>3. DOMAIN rows' = 1..(Len(rows) + 1)
    BY <2>2, LenProperties
  <2>4. ASSUME NEW i \in DOMAIN rows' PROVE rows'[i].path = images[i]
    <3>1. CASE i = Len(rows) + 1
      BY <2>2, <3>1 DEF Current
    <3>2. CASE i # Len(rows) + 1
      <4>1. i \in 1..Len(rows)
        BY <1>1, <2>3, <3>2
      <4> QED
        BY <1>2, <2>1, <2>2, <4>1 DEF InOrder
    <3> QED
      BY <3>1, <3>2
  <2>5. rows' \in Seq(RowsOf(args'))
    BY <2>2
  <2>6. Len(rows') <= Len(images')
    BY <1>1, <2>2
  <2> QED
    BY <2>4, <2>5, <2>6 DEF InOrder
<1>4. requests' \in Seq(Asked(images'))
  <2>1. requests \in Seq(Asked(images))
    BY DEF BatchInv
  <2>2. [path |-> Current, read |-> Decode(Encode(Content[Current]))] \in Asked(images)
    BY <1>1 DEF Asked, Current
  <2> QED
    BY <2>1, <2>2, AppendProperties
<1>5. summary = NoSummary
  BY DEF BatchInv
<1> QED
  BY <1>3, <1>4, <1>5 DEF BatchInv

(* The end of the arguments, when they are those of an OCR run. *)
LEMMA OcrModes ==
  ASSUME BatchInv, pc = "images"
  PROVE  /\ ~NeedRemote(args) => ~args.compare /\ args.server = "none"
         /\ ~NeedLocal(args) => ~args.compare /\ args.server # "none"
<1>1. args.sub = "ocr" /\ ~Refused(args)
  BY DEF BatchInv
<1> QED
  BY <1>1 DEF Refused, NeedRemote, NeedLocal

(* One image in each of the three modes. *)
LEMMA ImageSteps ==
  ASSUME BatchInv, LocalImage \/ RemoteImage \/ CompareImage
  PROVE  BatchInv'
<1>0. ASSUME pc = "images", Len(rows) < Len(images) PROVE Current \in DOMAIN Content
  BY <1>0, CurrentImage
<1>1. CASE LocalImage
  <2>1. PICK result \in Results : rows' = Append(rows, [path |-> Current, local |-> result])
    BY <1>1 DEF LocalImage
  <2> DEFINE row == [path |-> Current, local |-> result]
  <2>2. row \in RowsOf(args)
    BY <1>0, <1>1, OcrModes DEF LocalImage, RowsOf
  <2>3. /\ pc = "images" /\ Len(rows) < Len(images)
        /\ UNCHANGED <<args, pc, images, summary>> /\ requests' = requests
    BY <1>1 DEF LocalImage
  <2>4. row.path = Current /\ rows' = Append(rows, row)
    BY <2>1
  <2> HIDE DEF row
  <2> QED
    BY <2>2, <2>3, <2>4, NextImage
<1>2. CASE RemoteImage
  <2>1. PICK result \in Results :
          /\ rows' = Append(rows, [path |-> Current, remote |-> result])
          /\ CallRemote(Current, result)
    BY <1>2 DEF RemoteImage
  <2> DEFINE row == [path |-> Current, remote |-> result]
  <2>2. row \in RowsOf(args)
    BY <1>0, <1>2, OcrModes DEF RemoteImage, RowsOf
  <2>3. /\ pc = "images" /\ Len(rows) < Len(images)
        /\ UNCHANGED <<args, pc, images, summary>>
    BY <1>2 DEF RemoteImage
  <2>4. row.path = Current /\ rows' = Append(rows, row)
    BY <2>1
  <2>5. \/ requests' = requests
        \/ requests' = Append(requests, [path |-> Current,
                                         read |-> Decode(Encode(Content[Current]))])
    BY <2>1 DEF CallRemote
  <2> HIDE DEF row
  <2> QED
    BY <2>2, <2>3, <2>4, <2>5, NextImage
<1>3. CASE CompareImage
  <2>1. PICK here \in Results, there \in Results :
          /\ rows' = Append(rows, [path |-> Current, local |-> here, remote |-> there])
          /\ CallRemote(Current, there)
    BY <1>3 DEF CompareImage
  <2> DEFINE row == [path |-> Current, local |-> here, remote |-> there]
  <2>2. row \in RowsOf(args)
    BY <1>0, <1>3 DEF CompareImage, RowsOf, Compared
  <2>3. /\ pc = "images" /\ Len(rows) < Len(images)
        /\ UNCHANGED <<args, pc, images, summary>>
    BY <1>3 DEF CompareImage
  <2>4. row.path = Current /\ rows' = Append(rows, row)
    BY <2>1
  <2>5. \/ requests' = requests
        \/ requests' = Append(requests, [path |-> Current,
                                         read |-> Decode(Encode(Content[Current]))])
    BY <2>1 DEF CallRemote
  <2> HIDE DEF row
  <2> QED
    BY <2>2, <2>3, <2>4, <2>5, NextImage
<1> QED
  BY <1>1, <1>2, <1>3

(* The listing of a folder is a sequence of files that can be read. *)
LEMMA ListedImages ==
  ASSUME args \in Invocations, NEW paths \in CollectImagePaths(args.input)
  PROVE  paths \in Seq(DOMAIN Content)
<1>1. ImageNames(args.input) \subseteq DOMAIN Content
  BY CliAssumption DEF ImageNames
<1>2. paths \in [1..Cardinality(ImageNames(args.input)) -> ImageNames(args.input)]
  BY DEF CollectImagePaths, SetToSeqs
<1>3. IsFiniteSet(ImageNames(args.input))
  <2> DEFINE E == {e \in args.input.entries : args.input.kind = "dir" => e.image}
             f == [e \in E |-> e.name]
  <2>1. IsFiniteSet(args.input.entries) /\ E \in SUBSET args.input.entries
    BY CliAssumption
  <2>2. IsFiniteSet(E)
    <3> HIDE DEF E
    <3> QED BY <2>1, FS_Subset
  <2>3. ImageNames(args.input) = {e.name : e \in E}
    BY DEF ImageNames
  <2> HIDE DEF E
  <2>4. f \in Surjection(E, ImageNames(args.input))
    BY <2>3 DEF Surjection
  <2> QED
    BY <2>2, <2>4, FS_Surjection
<1> QED
  BY <1>1, <1>2, <1>3, SeqDef, FS_CardinalityType

(* BatchInv holds in every reachable state, in each mode and between them. *)
THEOREM BatchInvariant == CliSpec => []BatchInv
<1>1. CliInit => BatchInv
  <2> SUFFICES ASSUME CliInit PROVE BatchInv
    OBVIOUS
  <2>1. images \in Seq(DOMAIN Content) /\ requests \in Seq(Asked(images))
    BY EmptySeq DEF CliInit
  <2> QED
    BY <2>1 DEF CliInit, BatchInv
<1>2. BatchInv /\ [CliNext]_cliVars => BatchInv'
  <2> SUFFICES ASSUME BatchInv, [CliNext]_cliVars PROVE BatchInv'
    OBVIOUS
  <2>0. pc # "exited" => summary = NoSummary
    BY DEF BatchInv
  <2>1. ASSUME NEW a \in Invocations, Start(a) PROVE BatchInv'
    <3>1. /\ args' \in Invocations /\ pc' = "parse" /\ rows' = <<>> /\ requests' = <<>>
          /\ images' = <<>> /\ summary' = NoSummary
      BY <2>1 DEF Start
    <3>2. images' \in Seq(DOMAIN Content) /\ requests' \in Seq(Asked(images'))
      BY <3>1, EmptySeq
    <3> QED
      BY <3>1, <3>2 DEF BatchInv
  <2>2. CASE ParseArgs
    <3>1. /\ UNCHANGED <<args, images, rows, summary, requests>>
          /\ rows = <<>> /\ requests = <<>> /\ summary = NoSummary
          /\ pc' \in {"load", "collect"} => args.sub = "ocr" /\ ~Refused(args)
          /\ pc' # "images"
      BY <2>0, <2>2 DEF ParseArgs, batch, Exit, BatchInv
    <3> QED
      BY <3>1 DEF BatchInv, Asked
  <2>3. CASE ListTags \/ ListModels
    <3>1. /\ UNCHANGED <<args, images, summary, requests>>
          /\ summary = NoSummary /\ pc' = "exited"
      BY <2>0, <2>3 DEF ListTags, ListModels, Exit
    <3> QED
      BY <3>1 DEF BatchInv, Asked
  <2>4. CASE ChooseTag \/ FetchManifest \/ RefuseEmptyManifest \/ Download \/ KilledInDownload
    <3>1. /\ UNCHANGED <<args, images, rows, summary, requests>>
          /\ summary = NoSummary
          /\ pc' \in {"tags", "manifest", "models", "exited"}
      BY <2>0, <2>4 DEF ChooseTag, FetchManifest, RefuseEmptyManifest, Download,
                        KilledInDownload, Exit, batch
    <3> QED
      BY <3>1 DEF BatchInv, Asked
  <2>5. CASE LoadForOcr
    <3>1. /\ UNCHANGED <<args, images, rows, summary, requests>>
          /\ summary = NoSummary /\ pc = "load"
          /\ pc' \in {"collect", "exited"}
      BY <2>0, <2>5 DEF LoadForOcr, Exit, batch
    <3> QED
      BY <3>1 DEF BatchInv, Asked
  <2>6. CASE Collect
    <3>1. /\ UNCHANGED <<args, rows, summary, requests>>
          /\ summary = NoSummary /\ pc = "collect"
          /\ rows = <<>> /\ requests = <<>>
      BY <2>0, <2>6 DEF Collect, BatchInv
    <3>2. \/ pc' = "exited" /\ images' = images
          \/ pc' = "images" /\ images' \in CollectImagePaths(args.input)
      BY <2>6 DEF Collect, Exit
    <3>3. args \in Invocations /\ images \in Seq(DOMAIN Content)
      BY DEF BatchInv
    <3>4. images' \in Seq(DOMAIN Content)
      BY <3>2, <3>3, ListedImages
    <3>5. requests' \in Seq(Asked(images'))
      BY <3>1, EmptySeq
    <3>6. InOrder'
      <4>1. rows' = <<>> /\ Len(rows') = 0 /\ DOMAIN rows' = {} /\ Len(images') \in Nat
        BY <3>1, <3>4, LenProperties, EmptySeq
      <4>2. rows' \in Seq(RowsOf(args'))
        BY <4>1, EmptySeq
      <4> QED
        BY <4>1, <4>2 DEF InOrder
    <3> QED
      BY <3>1, <3>2, <3>4, <3>5, <3>6 DEF BatchInv, Refused
  <2>7. CASE LocalImage \/ RemoteImage \/ CompareImage
    BY <2>7, ImageSteps
  <2>8. CASE FinishImages
    <3>1. /\ UNCHANGED <<args, images, rows, requests>> /\ pc' = "exited"
          /\ Len(rows) = Len(images) /\ InOrder
          /\ summary' # NoSummary => args.compare /\ summary' = Summary(rows)
      BY <2>8 DEF FinishImages, Exit, BatchInv
    <3>2. InOrder'
      BY <3>1 DEF InOrder, RowsOf
    <3>3. Summary(rows)' = Summary(rows)
      BY <3>1 DEF Summary, Count, Matches
    <3> QED
      BY <3>1, <3>2, <3>3 DEF BatchInv, Asked
  <2>9. CASE UNCHANGED <<args, pc, images, rows, summary, requests>>
    BY <2>9 DEF BatchInv, InOrder, RowsOf, Asked, Summary, Count, Matches
  <2>10. CASE Ended \/ UNCHANGED cliVars
    BY <2>9, <2>10 DEF Ended, cliVars, batch
  <2> QED
    BY <2>1, <2>2, <2>3, <2>4, <2>5, <2>6, <2>7, <2>8, <2>10 DEF CliNext
<1> QED
  BY <1>1, <1>2, PTL DEF CliSpec

(* The report is about every image once and in order, and its counts add up, *)
(* however many images there are.                                            *)
THEOREM ReportsAddUp == CliSpec => []ReportAddsUp
<1>1. BatchInv => ReportAddsUp
  <2> SUFFICES ASSUME BatchInv, summary # NoSummary PROVE ReportAddsUp
    BY DEF ReportAddsUp
  <2>1. /\ args.compare /\ InOrder /\ Len(rows) = Len(images) /\ summary = Summary(rows)
        /\ images \in Seq(DOMAIN Content)
    BY DEF BatchInv
  <2>2. rows \in Seq(Compared)
    BY <2>1 DEF InOrder, RowsOf
  <2>3. [i \in DOMAIN rows |-> rows[i].path] = images
    <3>1. DOMAIN rows = DOMAIN images /\ images = [i \in DOMAIN images |-> images[i]]
      BY <2>1, <2>2, LenProperties
    <3>2. \A i \in DOMAIN rows : rows[i].path = images[i]
      BY <2>1 DEF InOrder
    <3> QED
      BY <3>1, <3>2
  <2> QED
    BY <2>1, <2>2, <2>3, SummaryCounts DEF ReportAddsUp
<1> QED
  BY <1>1, BatchInvariant, PTL

(* The server decodes the file that was named, byte for byte, whatever is in *)
(* it and however long it is.                                                *)
THEOREM ServerReads == CliSpec => []ServerReadsTheFile
<1>1. BatchInv => ServerReadsTheFile
  <2> SUFFICES ASSUME BatchInv, NEW i \in DOMAIN requests
               PROVE  /\ requests[i].path \in {images[j] : j \in DOMAIN images}
                      /\ requests[i].read.ok
                      /\ requests[i].read.bytes = Content[requests[i].path]
    BY DEF ServerReadsTheFile
  <2>1. requests \in Seq(Asked(images)) /\ images \in Seq(DOMAIN Content)
    BY DEF BatchInv
  <2>2. requests[i] \in Asked(images)
    BY <2>1, LenProperties, ElementOfSeq
  <2>3. PICK j \in DOMAIN images :
          requests[i] = [path |-> images[j], read |-> Decode(Encode(Content[images[j]]))]
    BY <2>2 DEF Asked
  <2>4. images[j] \in DOMAIN Content
    BY <2>1, LenProperties, ElementOfSeq
  <2>5. Content[images[j]] \in Seq(Bytes)
    BY <2>4, CliAssumption
  <2>6. Decode(Encode(Content[images[j]])) = [ok |-> TRUE, bytes |-> Content[images[j]]]
    BY <2>5, DecodeOfEncode
  <2> QED
    BY <2>3, <2>6
<1> QED
  BY <1>1, BatchInvariant, PTL

-----------------------------------------------------------------------------
(* While images are recognised here, the model asked for is in memory. *)
ImagesHaveAModel ==
  pc \in {"collect", "images"} /\ NeedLocal(args) =>
    is_init /\ loaded.version = args.version /\ Engine(args.version) # {}

(* The inductive invariant, over the object and the program counter. *)
ObjectInv ==
  /\ EngineInv
  /\ pc \in {"collect", "images"} /\ NeedLocal(args) =>
       is_init /\ loaded.version = args.version

(* A step that leaves the object and the directory alone. *)
LEMMA ObjectStays ==
  ASSUME EngineInv, UNCHANGED <<has_dir, v1, v2, is_init, loaded, status, reply>>,
         disk' \in [Weights -> {"absent", "damaged", "whole"}]
  PROVE  EngineInv'
BY DEF EngineInv, TypeOK, EngineMatchesState, Engine, ReplyIsHonest

(* load_model() of an OCR run: without a model the run ends. *)
LEMMA LoadsForOcr ==
  ASSUME ObjectInv, BatchInv, LoadForOcr
  PROVE  ObjectInv'
<1> DEFINE c == [version |-> args.version, precision |-> args.precision,
                 use_gpu |-> FALSE, num_threads |-> 0]
<1>1. c \in Configs
  BY CliAssumption, CasOcrAssumption DEF BatchInv, Configs
<1>2. LoadModel(c)
  BY DEF LoadForOcr
<1>3. c.version = args.version
  OBVIOUS
<1> HIDE DEF c
<1>4. Next
  BY <1>1, <1>2 DEF Next
<1>5. EngineInv'
  BY <1>4, TypeStep, EngineStep DEF ObjectInv, EngineInv
<1>6. ASSUME pc' \in {"collect", "images"}
      PROVE  is_init' /\ loaded'.version = args'.version
  <2>1. reply'.ok /\ args' = args
    BY <1>6 DEF LoadForOcr, Exit
  <2>2. reply'.call = "load" /\ reply'.version = c.version
    BY <1>2 DEF LoadModel, Reply
  <2>3. ReplyIsHonest'
    BY <1>5 DEF EngineInv
  <2> QED
    BY <1>3, <2>1, <2>2, <2>3 DEF ReplyIsHonest
<1> QED
  BY <1>5, <1>6 DEF ObjectInv

(* The object a new process begins with. *)
LEMMA NewObjectFacts ==
  /\ NotLoaded("V2") \in Configs \cup {NotLoaded(v) : v \in Versions}
  /\ Reply("none", FALSE, "V2") \in [call : {"none", "load", "release", "predict"},
                                     ok : BOOLEAN, version : Versions]
BY DEF Versions, Reply

(* ObjectInv holds in every reachable state, whatever runs came before. *)
THEOREM ObjectInvariant == CliSpec => []ObjectInv
<1>1. CliInit => ObjectInv
  <2> SUFFICES ASSUME CliInit PROVE ObjectInv
    OBVIOUS
  <2>1. /\ disk \in [Weights -> {"absent", "damaged", "whole"}] /\ has_dir = TRUE
        /\ v1 = {} /\ v2 = {} /\ is_init = FALSE /\ loaded = NotLoaded("V2")
        /\ status = "NotLoaded" /\ reply = Reply("none", FALSE, "V2") /\ pc = "exited"
    BY DEF CliInit
  <2>2. TypeOK
    BY <2>1, NewObjectFacts DEF TypeOK
  <2> QED
    BY <2>1, <2>2 DEF ObjectInv, EngineInv, EngineMatchesState, ReplyIsHonest, Reply
<1>2. ObjectInv /\ BatchInv /\ FilesInv /\ FilesInv' /\ [CliNext]_cliVars => ObjectInv'
  <2> SUFFICES ASSUME ObjectInv, BatchInv, FilesInv, FilesInv', [CliNext]_cliVars
               PROVE  ObjectInv'
    OBVIOUS
  <2>0. /\ disk' \in [Weights -> {"absent", "damaged", "whole"}]
        /\ has_dir = TRUE /\ has_dir' = TRUE
    BY DEF FilesInv
  <2>1. ASSUME NEW a \in Invocations, Start(a) PROVE ObjectInv'
    <3>1. /\ v1' = {} /\ v2' = {} /\ is_init' = FALSE /\ loaded' = NotLoaded("V2")
          /\ status' = "NotLoaded" /\ reply' = Reply("none", FALSE, "V2") /\ pc' = "parse"
      BY <2>1 DEF Start
    <3>2. TypeOK'
      BY <2>0, <3>1, NewObjectFacts DEF TypeOK
    <3> QED
      BY <3>1, <3>2 DEF ObjectInv, EngineInv, EngineMatchesState, ReplyIsHonest, Reply
  <2>2. CASE LoadForOcr
    BY <2>2, LoadsForOcr
  <2>3. ASSUME UNCHANGED engine,
               \/ pc' \notin {"collect", "images"}
               \/ pc' = "collect" /\ ~NeedLocal(args')
               \/ pc \in {"collect", "images"} /\ args' = args
        PROVE  ObjectInv'
    <3>1. UNCHANGED <<has_dir, v1, v2, is_init, loaded, status, reply>>
      BY <2>0, <2>3 DEF engine
    <3>2. EngineInv'
      BY <2>0, <3>1, ObjectStays DEF ObjectInv
    <3> QED
      BY <2>3, <3>1, <3>2 DEF ObjectInv, NeedLocal
  <2>4. CASE ParseArgs
    <3>1. /\ UNCHANGED engine /\ args' = args
          /\ pc' # "images" /\ (pc' = "collect" => ~NeedLocal(args))
      BY <2>4 DEF ParseArgs, Exit
    <3> QED
      BY <2>3, <3>1 DEF NeedLocal
  <2>5. CASE \/ ListTags \/ ChooseTag \/ FetchManifest \/ ListModels
             \/ RefuseEmptyManifest \/ Download \/ KilledInDownload
    <3>1. UNCHANGED engine /\ pc' \notin {"collect", "images"}
      BY <2>5 DEF ListTags, ChooseTag, FetchManifest, ListModels, RefuseEmptyManifest,
                  Download, KilledInDownload, Exit
    <3> QED
      BY <2>3, <3>1
  <2>6. CASE Collect \/ LocalImage \/ RemoteImage \/ CompareImage \/ FinishImages
    <3>1. UNCHANGED engine /\ args' = args /\ pc \in {"collect", "images"}
      BY <2>6 DEF Collect, LocalImage, RemoteImage, CompareImage, FinishImages
    <3> QED
      BY <2>3, <3>1
  <2>7. CASE Ended \/ UNCHANGED cliVars
    <3>1. UNCHANGED engine /\ args' = args /\ pc' = pc
      BY <2>7 DEF Ended, cliVars
    <3> QED
      BY <2>3, <3>1
  <2> QED
    BY <2>1, <2>2, <2>4, <2>5, <2>6, <2>7 DEF CliNext
<1> QED
  BY <1>1, <1>2, BatchInvariant, FilesInvariant, PTL DEF CliSpec

(* What is proved of the engine holds of the object of a command as well,    *)
(* and no image is given to an object without a model (cli_runner.cpp).      *)
THEOREM CommandsObjectIsThere == CliSpec => [](EngineMatchesState /\ ImagesHaveAModel)
<1>1. ObjectInv /\ BatchInv => EngineMatchesState /\ ImagesHaveAModel
  <2> SUFFICES ASSUME ObjectInv, BatchInv PROVE EngineMatchesState /\ ImagesHaveAModel
    OBVIOUS
  <2>1. EngineMatchesState
    BY DEF ObjectInv, EngineInv
  <2>2. ASSUME is_init PROVE Engine(loaded.version) # {}
    <3>1. PICK d \in {"root", Subdir(loaded.version)} :
            Engine(loaded.version) = EngineWeights(loaded.version, d, loaded.precision)
      BY <2>1, <2>2 DEF EngineMatchesState
    <3>2. loaded \in Configs
      BY <2>2 DEF ObjectInv, EngineInv
    <3>3. loaded.version \in Versions /\ loaded.precision \in Precisions
      BY <3>2 DEF Configs
    <3> QED
      BY <3>1, <3>3, EngineWeightsFacts
  <2> QED
    BY <2>1, <2>2 DEF ObjectInv, ImagesHaveAModel
<1> QED
  BY <1>1, ObjectInvariant, BatchInvariant, PTL
=============================================================================
