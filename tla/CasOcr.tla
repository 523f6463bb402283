------------------------------- MODULE CasOcr -------------------------------
(***************************************************************************)
(* One CasOcr object (cas_ocr.cpp) on a model directory that others write: *)
(* load_model() with its choice of a directory, release() and predict().   *)
(* A caller runs one of them at a time: each server worker has an object   *)
(* of its own, and the clients call theirs from one thread.                *)
(*                                                                         *)
(* A weight is a .param and a .bin file.  It is absent when one of them is *)
(* missing, damaged when both exist and ncnn does not load them.           *)
(***************************************************************************)
EXTENDS Integers, Sequences, FiniteSets

CONSTANTS
  V1Stems,    \* the V1 networks, in the order they are looked for
  V2Stems,    \* kKnownStems, in order; V2Engine loads the first (kParamStem)
  Precisions, \* "fp16" and "fp32"
  Threads,    \* values asked for num_threads
  HasVulkan,  \* ncnn::get_gpu_count() > 0
  MaxWeights  \* bound: how many weights are on disk at once

Elems(s) == {s[i] : i \in 1..Len(s)}

ASSUME CasOcrAssumption ==
  /\ \A s \in {V1Stems, V2Stems} : s \in Seq(Elems(s)) /\ s # <<>>
  /\ Elems(V1Stems) \cap Elems(V2Stems) = {}
  /\ Precisions # {} /\ "" \notin Precisions
  /\ 0 \in Threads
  /\ HasVulkan \in BOOLEAN
  /\ MaxWeights \in Nat

Versions == {"V1", "V2"}
Stems(version) == IF version = "V1" THEN V1Stems ELSE V2Stems
Subdir(version) == IF version = "V1" THEN "v1" ELSE "v2"
AllStems == Elems(V1Stems) \cup Elems(V2Stems)
Weights ==
  {w \in [dir : {"root", "v1", "v2"}, stem : AllStems, precision : Precisions] :
     \E v \in Versions : w.stem \in Elems(Stems(v)) /\ w.dir \in {"root", Subdir(v)}}
Weight(d, s, p) == [dir |-> d, stem |-> s, precision |-> p]
Configs == [version : Versions, precision : Precisions,
            use_gpu : BOOLEAN, num_threads : Threads]

VARIABLES
  disk,     \* the weights below model_dir
  has_dir,  \* model_dir is not empty
  v1, v2,   \* the engines: the weights each has in memory, {} for a null pointer
  is_init,
  loaded,   \* loaded_version, loaded_precision, loaded_use_gpu, loaded_num_threads
  status,
  reply     \* the last call and what it returned

vars == <<disk, has_dir, v1, v2, is_init, loaded, status, reply>>

NotLoaded(version) == [version |-> version, precision |-> "",
                       use_gpu |-> FALSE, num_threads |-> 0]
Reply(call, ok, version) == [call |-> call, ok |-> ok, version |-> version]

Init ==
  /\ disk = [w \in Weights |-> "absent"]
  /\ has_dir \in BOOLEAN
  /\ v1 = {} /\ v2 = {}
  /\ is_init = FALSE
  /\ loaded = NotLoaded("V2")
  /\ status = "NotLoaded"
  /\ reply = Reply("none", FALSE, "V2")

(* file_exists() of both files; damage does not show. *)
Exists(d, s, p) == disk[Weight(d, s, p)] # "absent"

First(s, Good(_)) == s[CHOOSE i \in 1..Len(s) :
                         Good(s[i]) /\ \A j \in 1..(i - 1) : ~Good(s[j])]

(* Mutant: the legacy layout is preferred. *)
ResolveLegacyFirst(s, p) ==
  IF Exists("root", s, p) THEN "root" ELSE IF Exists("v1", s, p) THEN "v1" ELSE ""

(* resolve_v1_dir() for one network, "" when it is in neither directory. *)
ResolveV1Dir(s, p) ==
  IF Exists("v1", s, p) THEN "v1" ELSE IF Exists("root", s, p) THEN "root" ELSE ""

(* The first network that is found decides on the directory of them all. *)
ResolveV1(p) ==
  LET Found(s) == ResolveV1Dir(s, p) # ""
  IN  IF \E s \in Elems(V1Stems) : Found(s)
      THEN ResolveV1Dir(First(V1Stems, Found), p) ELSE ""

(* infer_asset_stem_from_dir(): the first known stem of whatever precision, *)
(* and then whether that stem exists in the precision asked for.            *)
HoldsV2(d, p) ==
  LET Known(s) == \E q \in Precisions : Exists(d, s, q)
  IN  /\ \E s \in Elems(V2Stems) : Known(s)
      /\ Exists(d, First(V2Stems, Known), p)

ResolveV2(p) ==
  IF HoldsV2("v2", p) THEN "v2" ELSE IF HoldsV2("root", p) THEN "root" ELSE ""

Resolve(version, p) == IF version = "V1" THEN ResolveV1(p) ELSE ResolveV2(p)

(* The weights an engine reads from the one directory it is given. *)
EngineWeights(version, d, p) ==
  {Weight(d, s, p) :
     s \in IF version = "V1" THEN Elems(V1Stems) ELSE {V2Stems[1]}}

(* Mutant: each network's result overwrites that of the one before. *)
EngineLoadsLast(version, d, p) ==
  LET last == V1Stems[Len(V1Stems)]
  IN  IF version = "V1" THEN disk[Weight(d, last, p)] = "whole"
      ELSE disk[Weight(d, V2Stems[1], p)] = "whole"

(* V1Engine::load() and V2Engine::load(): no network may fail to load. *)
EngineLoads(version, d, p) ==
  \A w \in EngineWeights(version, d, p) : disk[w] = "whole"

CanLoad(version, p) ==
  /\ Resolve(version, p) # ""
  /\ EngineLoads(version, Resolve(version, p), p)

(* Impl::release(); loaded_version keeps its value. *)
Released ==
  /\ v1' = {} /\ v2' = {}
  /\ is_init' = FALSE
  /\ loaded' = NotLoaded(loaded.version)
  /\ status' = "NotLoaded"

(* Mutant: the engine of the other version is not given up. *)
LoadEngineBeside(c) ==
  LET weights == EngineWeights(c.version, Resolve(c.version, c.precision),
                               c.precision)
  IN  /\ v1' = IF c.version = "V1" THEN weights ELSE v1
      /\ v2' = IF c.version = "V2" THEN weights ELSE v2
      /\ is_init' = TRUE
      /\ loaded' = c
      /\ status' = IF c.use_gpu /\ HasVulkan THEN "LoadedGPU" ELSE "LoadedCPU"

LoadEngine(c) ==
  LET weights == EngineWeights(c.version, Resolve(c.version, c.precision),
                               c.precision)
  IN  /\ v1' = IF c.version = "V1" THEN weights ELSE {}
      /\ v2' = IF c.version = "V2" THEN weights ELSE {}
      /\ is_init' = TRUE
      /\ loaded' = c
      /\ status' = IF c.use_gpu /\ HasVulkan THEN "LoadedGPU" ELSE "LoadedCPU"

(* The first test of load_all_models(). *)
SameConfig(c) == is_init /\ loaded = c

(* load_model(): nothing to do for the same configuration; otherwise the    *)
(* model in memory is released before it is known whether the new one loads. *)
LoadModel(c) ==
  /\ \/ /\ ~has_dir
        /\ reply' = Reply("load", FALSE, c.version)
        /\ UNCHANGED <<v1, v2, is_init, loaded, status>>
     \/ /\ has_dir /\ SameConfig(c)
        /\ reply' = Reply("load", TRUE, c.version)
        /\ UNCHANGED <<v1, v2, is_init, loaded, status>>
     \/ /\ has_dir /\ ~SameConfig(c)
        /\ CanLoad(c.version, c.precision)
        /\ LoadEngine(c)
        /\ reply' = Reply("load", TRUE, c.version)
     \/ /\ has_dir /\ ~SameConfig(c)
        /\ ~CanLoad(c.version, c.precision)
        /\ Released
        /\ reply' = Reply("load", FALSE, c.version)
  /\ UNCHANGED <<disk, has_dir>>

Release ==
  /\ Released
  /\ reply' = Reply("release", TRUE, loaded.version)
  /\ UNCHANGED <<disk, has_dir>>

(* The three predict() functions: an image that cannot be read or decoded   *)
(* and an object without a model give an error; an engine may fail as well. *)
Engine(version) == IF version = "V1" THEN v1 ELSE v2

Predict(readable) ==
  /\ \E ok \in BOOLEAN :
       /\ ok => readable /\ is_init /\ Engine(loaded.version) # {}
       /\ reply' = Reply("predict", ok, loaded.version)
  /\ UNCHANGED <<disk, has_dir, v1, v2, is_init, loaded, status>>

(* The environment: a weight is written, damaged or removed, by a download  *)
(* or by hand, whether or not it is in memory.                              *)
WriteWeight(w, content) ==
  /\ content # disk[w]
  /\ \/ content = "absent" \/ disk[w] # "absent"
     \/ Cardinality({x \in Weights : disk[x] # "absent"}) < MaxWeights
  /\ disk' = [disk EXCEPT ![w] = content]
  /\ UNCHANGED <<has_dir, v1, v2, is_init, loaded, status, reply>>

Next ==
  \/ \E c \in Configs : LoadModel(c)
  \/ Release
  \/ \E readable \in BOOLEAN : Predict(readable)
  \/ \E w \in Weights, content \in {"absent", "damaged", "whole"} :
       WriteWeight(w, content)

Spec == Init /\ [][Next]_vars
-----------------------------------------------------------------------------
(* All variables stay in their types. *)
TypeOK ==
  /\ disk \in [Weights -> {"absent", "damaged", "whole"}]
  /\ has_dir \in BOOLEAN
  /\ v1 \in SUBSET Weights /\ v2 \in SUBSET Weights
  /\ is_init \in BOOLEAN
  /\ loaded \in Configs \cup {NotLoaded(v) : v \in Versions}
  /\ status \in {"NotLoaded", "LoadedCPU", "LoadedGPU"}
  /\ reply \in [call : {"none", "load", "release", "predict"}, ok : BOOLEAN,
                version : Versions]

(* is_loaded(), model_status() and the two engine pointers agree after any  *)
(* sequence of loads, failed loads and releases: one engine at most, that   *)
(* of loaded_version, complete and from one directory.  So predict_dispatch *)
(* never goes through a null pointer.                                       *)
EngineMatchesState ==
  /\ v1 = {} \/ v2 = {}
  /\ is_init <=> v1 # {} \/ v2 # {}
  /\ is_init <=> status # "NotLoaded"
  /\ is_init => \E d \in {"root", Subdir(loaded.version)} :
       Engine(loaded.version) = EngineWeights(loaded.version, d, loaded.precision)

(* What the last call said is still true: load_model() returns true if and  *)
(* only if a model of the version it was asked for is in memory, and an     *)
(* answer of predict() comes from the version it names.                     *)
ReplyIsHonest ==
  /\ reply.call = "load" => (reply.ok <=> is_init)
  /\ reply.call \in {"load", "predict"} /\ reply.ok =>
       is_init /\ loaded.version = reply.version

(* "Returns true if all required models loaded successfully" (cas_ocr.h):   *)
(* no step brings a model into memory of which a network does not load,     *)
(* whichever network the directory was chosen for.                          *)
OnlyWholeModels ==
  [][ is_init' /\ loaded' # loaded => \A w \in v1' \cup v2' : disk[w] = "whole" ]_vars

AllWhole(version, d, p) == \A w \in EngineWeights(version, d, p) : disk[w] = "whole"
NoneOf(version, d) ==
  \A s \in Elems(Stems(version)), p \in Precisions : ~Exists(d, s, p)

(* The layouts of cas_ocr.h load: a complete model below v1/ or v2/, what-  *)
(* ever lies in the root, and one in the root when the subdirectory is bare. *)
DocumentedLayoutsLoad ==
  \A v \in Versions, p \in Precisions :
    \/ AllWhole(v, Subdir(v), p)
    \/ AllWhole(v, "root", p) /\ NoneOf(v, Subdir(v))
    => CanLoad(v, p)
=============================================================================
