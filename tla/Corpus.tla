------------------------------- MODULE Corpus -------------------------------
(***************************************************************************)
(* tools/comparison/src: the pictures that every measurement is taken on.  *)
(* Which split and which corpus a file belongs to (corpus.ts), which pins  *)
(* a run fetches (natural-, holdout-, alpha- and graphic-images.ts), and   *)
(* how one pinned file gets from its sources into fixtures/                *)
(* (corpus-pin.ts), where a killed run may leave half of it.               *)
(*                                                                         *)
(* A file is one of "absent", "pinned" (the bytes of its pin, or, for a    *)
(* generated one, a whole picture) and "other". What the sources and the   *)
(* local mirror hold is not state: they may answer anything at any time.   *)
(***************************************************************************)
EXTENDS Naturals, Sequences, FiniteSets

CONSTANTS
  Images,     \* the files that may be under fixtures/, by report name
  Prefix,     \* what each name starts with, as far as the code looks at it
  Table,      \* which list knows it: "curated", "kodak", "alpha", "graphic",
              \*   "generated", or "none" for a file whose pin is gone
  Declared,   \* the split its list declares, or "none"
  Withdrawn,  \* pins of the alpha list that are withdrawn
  Sources,    \* how many urls a pin has
  Retries     \* length of RETRY_DELAYS_MS

Splits == {"tune", "tune2", "holdout", "holdout2"}
Prefixes == {"photo", "kodak", "cutout", "graphic", "other",
             "sealed", "sealed-cutout", "sealed-graphic"}
Pinned == {i \in Images : Table[i] \in {"curated", "kodak", "alpha", "graphic"}}

ASSUME ImagesAssumption ==
  /\ Prefix \in [Images -> Prefixes]
  /\ Table \in [Images -> {"curated", "kodak", "alpha", "graphic", "generated", "none"}]
  /\ Declared \in [Images -> Splits \cup {"none"}]
  /\ \A i \in Images : Prefix[i] = "kodak" => Declared[i] = "none"
  /\ Withdrawn \subseteq {i \in Images : Table[i] = "alpha"}
\* As the lists are: each labels its pictures with its own prefixes, and the seal
\* of a label and the declared split agree. Only what a result covers rests on it.
ASSUME ListsAssumption ==
  \A i \in Pinned :
    /\ Prefix[i] \in (CASE Table[i] = "curated" -> {"photo", "sealed"}
                       [] Table[i] = "kodak"   -> {"kodak"}
                       [] Table[i] = "alpha"   -> {"cutout", "sealed-cutout"}
                       [] Table[i] = "graphic" -> {"graphic", "sealed-graphic"})
    /\ Table[i] # "kodak" => Declared[i] # "none"
    /\ Declared[i] = "holdout2" <=> Prefix[i] \in {"sealed", "sealed-cutout", "sealed-graphic"}
ASSUME BoundsAssumption == Sources \in Nat \ {0} /\ Retries \in Nat

-----------------------------------------------------------------------------
(* Splits and corpora *)

SealedPrefixes == {"sealed", "sealed-cutout", "sealed-graphic"}

\* Mutant: the lists alone say which split a file is in.
SplitByList(i) ==
  IF Prefix[i] = "kodak" THEN "tune2"
  ELSE IF Declared[i] # "none" THEN Declared[i] ELSE "tune"

\* The prefix seals, whatever the lists say; the rest is as declared, or tune.
SplitFor(i) ==
  IF Prefix[i] \in SealedPrefixes THEN "holdout2"
  ELSE IF Prefix[i] = "kodak" THEN "tune2"
  ELSE IF Declared[i] # "none" THEN Declared[i] ELSE "tune"

IsSealed(split) == split = "holdout2"

\* partitionSealed: what may be scored of the files that were found.
OpenOnes(found) == {i \in found : ~IsSealed(SplitFor(i))}

InSplit(i, wanted) ==
  IF wanted = "all" THEN ~IsSealed(SplitFor(i)) ELSE SplitFor(i) = wanted

\* A sealed name says its corpus behind the seal, and is a photograph otherwise.
SealedCorpus(i) ==
  CASE Prefix[i] = "sealed-cutout"  -> "alpha"
    [] Prefix[i] = "sealed-graphic" -> "graphic"
    [] OTHER                        -> "photo"

InCorpus(i, corpus) ==
  IF corpus = "all" THEN TRUE
  ELSE IF Prefix[i] \in SealedPrefixes THEN SealedCorpus(i) = corpus
  ELSE Prefix[i] \in (CASE corpus = "photo"   -> {"photo", "kodak"}
                        [] corpus = "alpha"   -> {"cutout"}
                        [] corpus = "graphic" -> {"graphic"})

-----------------------------------------------------------------------------
(* What a run fetches: its stages, each a list of pins *)

Of(table) == {i \in Images : Table[i] = table}

\* naturalImagesToFetch: every curated pin but the sealed ones.
NaturalImagesToFetch == {i \in Of("curated") : Declared[i] # "holdout2"}

\* holdout2Specs: the sealed photographs; labels and splits have to agree.
Holdout2Specs == {i \in Of("curated") : Declared[i] = "holdout2"}
Holdout2Mislabelled ==
  \E i \in Of("curated") :
    \/ (Declared[i] = "holdout2") # (Prefix[i] \in SealedPrefixes)
    \/ Prefix[i] \in SealedPrefixes /\ ~InCorpus(i, "photo")

\* alphaHoldout2Specs, the same for the cut-outs.
AlphaHoldout2Specs == {i \in Of("alpha") : Declared[i] = "holdout2"}
AlphaMislabelled ==
  \E i \in Of("alpha") :
    \/ (Declared[i] = "holdout2") # (Prefix[i] = "sealed-cutout")
    \/ Prefix[i] \in SealedPrefixes \ {"sealed-cutout"}

\* alphaImagesToFetch: one split's, whole, and sealed ones only if it is open.
AlphaRefused(split, opened) ==
  \/ split = "holdout"
  \/ AlphaMislabelled
  \/ /\ split = "holdout2"
     /\ ~opened \/ AlphaHoldout2Specs = {} \/ AlphaHoldout2Specs \cap Withdrawn # {}

AlphaImagesToFetch(split) ==
  IF split = "holdout2" THEN AlphaHoldout2Specs
  ELSE {i \in Of("alpha") \ Withdrawn : Declared[i] # "holdout2" /\ Declared[i] = split}

\* What a stage refuses, and what it makes sure of. The pictures that the tool
\* draws itself are drawn only where there is none.
StageRefused(stage, split, opened) ==
  \/ stage = "sealed" /\ (Holdout2Mislabelled \/ Holdout2Specs = {})
  \/ stage = "alpha" /\ AlphaRefused(split, opened)

-----------------------------------------------------------------------------
VARIABLES
  cache,      \* the files under fixtures/
  load        \* how far the run at hand has got with them

Off == [at |-> "off", stages |-> <<>>, todo |-> {}, image |-> "none",
        source |-> 1, attempt |-> 0]

StageImages(stage, split) ==
  CASE stage = "generated" -> IF \A i \in Of("generated") : cache[i] = "absent"
                                THEN Of("generated") ELSE {}
    [] stage = "natural"   -> NaturalImagesToFetch
    [] stage = "kodak"     -> Of("kodak")
    [] stage = "sealed"    -> Holdout2Specs
    [] stage = "alpha"     -> AlphaImagesToFetch(split)
    [] stage = "graphic"   -> Of("graphic")

Begin(stages) == load' = [Off EXCEPT !.at = "stage", !.stages = stages]

\* On to the next list, once every file of this one is there.
NextStage(split, opened) ==
  /\ load.at = "stage" /\ load.todo = {}
  /\ load' =
       IF load.stages = <<>> THEN [load EXCEPT !.at = "loaded"]
       ELSE IF StageRefused(Head(load.stages), split, opened)
         THEN [load EXCEPT !.at = "failed"]
         ELSE [load EXCEPT !.stages = Tail(@), !.todo = StageImages(Head(load.stages), split)]
  /\ UNCHANGED cache

\* Mutant: a file that is there is taken as it is.
EnsureUnchecked(i) ==
  /\ load.at = "stage" /\ i \in load.todo
  /\ \/ /\ cache[i] # "absent"
        /\ load' = [load EXCEPT !.todo = @ \ {i}]
     \/ /\ cache[i] = "absent"
        /\ load' = [load EXCEPT !.at = "write", !.image = i]
  /\ UNCHANGED cache

\* ensurePinnedFixture: the cached file, or the mirror's, or off to the network.
\* A file with other bytes than its pin stops the run, wherever it lies.
EnsurePinnedFixture(i) ==
  /\ load.at = "stage" /\ i \in load.todo
  /\ \/ /\ cache[i] = "pinned"
        /\ load' = [load EXCEPT !.todo = @ \ {i}]
     \/ /\ cache[i] = "other"
        /\ load' = [load EXCEPT !.at = "failed"]
     \/ /\ cache[i] = "absent"
        /\ \/ load' = [load EXCEPT !.at = "write", !.image = i]
           \/ /\ i \in Pinned
              /\ \/ load' = [load EXCEPT !.at = "failed"]
                 \/ load' = [load EXCEPT !.at = "fetch", !.image = i, !.source = 1, !.attempt = 0]
  /\ UNCHANGED cache

\* fetchFromAny: after the last source the run gives up.
NextSource ==
  IF load.source < Sources
    THEN [load EXCEPT !.source = @ + 1, !.attempt = 0]
    ELSE [load EXCEPT !.at = "failed"]

\* Mutant: a dropped connection is tried again without being counted.
FetchUncounted ==
  /\ load.at = "fetch"
  /\ \/ load' = [load EXCEPT !.at = "write"]
     \/ load' = [load EXCEPT !.at = "failed"]
     \/ load' = [load EXCEPT !.attempt = 1 - @]
     \/ load' = NextSource
  /\ UNCHANGED cache

\* fetchWithRetry: the bytes, other bytes, a failure that passes or one that lasts.
FetchWithRetry ==
  /\ load.at = "fetch"
  /\ \/ load' = [load EXCEPT !.at = "write"]
     \/ load' = [load EXCEPT !.at = "failed"]
     \/ load' = IF load.attempt < Retries THEN [load EXCEPT !.attempt = @ + 1] ELSE NextSource
     \/ load' = NextSource
  /\ UNCHANGED cache

\* writeFile opens the file, empty, and then fills it, or fails.
OpenFixture ==
  /\ load.at = "write"
  /\ cache' = [cache EXCEPT ![load.image] = "other"]
  /\ load' = [load EXCEPT !.at = "writing"]

WriteFixture ==
  /\ load.at = "writing"
  /\ \/ /\ cache' = [cache EXCEPT ![load.image] = "pinned"]
        /\ load' = [load EXCEPT !.at = "stage", !.todo = @ \ {load.image}]
     \/ load' = [load EXCEPT !.at = "failed"] /\ UNCHANGED cache

LoadStep(split, opened) ==
  \/ NextStage(split, opened)
  \/ \E i \in load.todo : EnsurePinnedFixture(i)
  \/ FetchWithRetry
  \/ OpenFixture
  \/ WriteFixture

CorpusTypeOK ==
  /\ cache \in [Images -> {"absent", "pinned", "other"}]
  /\ load.at \in {"off", "stage", "fetch", "write", "writing", "loaded", "failed"}
  /\ load.stages \in Seq({"generated", "natural", "kodak", "sealed", "alpha", "graphic"})
  /\ load.todo \subseteq Images
  /\ load.image \in Images \cup {"none"}
  /\ load.source \in 1 .. Sources /\ load.attempt \in 0 .. Retries
=============================================================================
