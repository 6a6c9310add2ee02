------------------------------ MODULE Harness ------------------------------
(***************************************************************************)
(* tools/comparison/src/harness-runner.ts, which builds one program for    *)
(* each language, has it encode an image and holds its bytes against those *)
(* of Rust; and the verdict that main.ts and report.ts draw from that.     *)
(*                                                                         *)
(* A program crashes, returns nothing, or returns bytes. The bytes are a   *)
(* member of Hashes, which is all that a comparison looks at.              *)
(***************************************************************************)
EXTENDS Naturals, FiniteSets

CONSTANTS
  Languages,      \* of getHarnesses, and of LANGUAGES in report.ts
  Reference,      \* Rust
  BuildSteps,     \* labels, in the order they are built
  Produces,       \* the language of a step, or "none"
  Hashes,         \* what an encode may return
  NoHash          \* an empty array

Crash == "failed"
Silence == "no bytes"
SharedPreview == "the preview of the reference"

ASSUME LanguagesAssumption ==
  /\ Reference \in Languages
  /\ Produces \in [BuildSteps -> Languages \cup {"none"}]
  /\ {Crash, Silence, NoHash} \cap Hashes = {}
  /\ SharedPreview \notin Languages

-----------------------------------------------------------------------------
(* Building and running *)

\* buildHarnesses: a step that fails takes its language out, if it has one.
Unavailable(failed) == {Produces[s] : s \in failed} \ {"none"}

Harnesses(unavailable) == Languages \ unavailable

\* runHarness, and the loop over the harnesses: bytes, or the reason for none.
Encoded(outcome) ==
  [hash |-> IF outcome \in Hashes THEN outcome ELSE NoHash, error |-> outcome \notin Hashes]

ReferenceHash(ran) ==
  IF Reference \in DOMAIN ran THEN Encoded(ran[Reference]).hash ELSE NoHash

SameAsReference(hash, ran) == ReferenceHash(ran) # NoHash /\ hash = ReferenceHash(ran)

\* The row of a language. Of the decodes, those in lost fail or time out. What
\* equals the reference takes its preview, if that was decoded; anything else
\* is decoded on its own.
Row(l, ran, lost) ==
  LET e == Encoded(ran[l])
      matches == SameAsReference(e.hash, ran)
      shown == (matches /\ SharedPreview \notin lost) \/ l \notin lost
  IN  IF e.error
        THEN [hash |-> NoHash, matches |-> FALSE, error |-> TRUE, preview |-> NoHash]
        ELSE [hash |-> e.hash, matches |-> matches,
              error |-> ~shown \/ ReferenceHash(ran) = NoHash,
              preview |-> IF shown THEN e.hash ELSE NoHash]

RunAllHarnesses(ran, lost) == [l \in DOMAIN ran |-> Row(l, ran, lost)]

-----------------------------------------------------------------------------
(* The verdict. Rows is what runAllHarnesses returned, by image. *)

Ran(rows, l) == {i \in DOMAIN rows : l \in DOMAIN rows[i]}
Observed(rows, l) == {i \in Ran(rows, l) : ~rows[i][l].error}

HarnessesSkipped(rows) == \A i \in DOMAIN rows : DOMAIN rows[i] = {}

\* Mutant: a harness that failed counts as one that disagrees.
CrossLanguageCounting(rows, l) ==
  CASE HarnessesSkipped(rows) -> "null"
    [] Ran(rows, l) = {}      -> "null"
    [] OTHER -> IF \A i \in Ran(rows, l) : rows[i][l].matches THEN "pass" ELSE "fail"

\* crossLanguage in report.json.
CrossLanguage(rows, l) ==
  CASE HarnessesSkipped(rows)   -> "null"
    [] Observed(rows, l) = {}   -> "null"
    [] OTHER -> IF \A i \in Observed(rows, l) : rows[i][l].matches THEN "pass" ELSE "fail"

\* langPassFail in report.html.
LangPassFail(rows) ==
  [l \in Languages |-> IF HarnessesSkipped(rows) \/ Observed(rows, l) = {} THEN "N/A"
                       ELSE IF \E i \in Observed(rows, l) : ~rows[i][l].matches THEN "FAIL"
                       ELSE "PASS"]

\* What is printed, for the languages that have a row.
Printed(rows) ==
  [l \in {k \in Languages : Ran(rows, k) # {}} |->
     IF Observed(rows, l) = {} THEN "N/A"
     ELSE IF \A i \in Observed(rows, l) : rows[i][l].matches THEN "PASS" ELSE "FAIL"]
=============================================================================
