-------------------------------- MODULE Perf --------------------------------
(***************************************************************************)
(* The benchmark driver of tools/comparison/src/perf: it probes what the   *)
(* host can run, walks a fixed matrix of cells block by block, and writes  *)
(* what each cell costs into one report. A sweep runs alone, from its      *)
(* command line to the last line of the report, so it is an operator of    *)
(* the sweep: how it was started, on which host, and what the harnesses    *)
(* answered. Times are whole microseconds.                                 *)
(***************************************************************************)
EXTENDS Integers, Sequences, FiniteSets, FiniteSetsExt, SequencesExt

(* The targets and what they can do *)
Targets ==
  {"Rust", "Rust-scalar", "Go", "TypeScript-wasm", "TypeScript-pure",
   "Python", "Kotlin", "Swift", "C#"}

Ops(t) == IF t = "TypeScript-pure" THEN {"decode"} ELSE {"encode", "decode", "batch"}

Threadable == {"Rust", "Rust-scalar", "Go", "Kotlin", "Swift", "C#"}

(* A spawn that finds no program tells of the host, any other failure of the   *)
(* target.                                                                     *)
ClassifyProbe(outcome) ==
  CASE outcome = "ok" -> "ok" [] outcome = "ENOENT" -> "absent" [] OTHER -> "broken"

\* --impls leaves the other targets unprobed.
Available(s) == {t \in s.impls : ClassifyProbe(s.host[t]) = "ok"}

-----------------------------------------------------------------------------
(* The matrix. A cell is known by <<operation, target, tier, size, what, arm>>. *)

EncodeId(t, tier, n, content, arm) == <<"encode", t, tier, n, content, arm>>
DecodeId(t, tier, raster, arm) == <<"decode", t, tier, 0, raster, arm>>
BatchId(t, threads) == <<"batch", t, 1, 100, threads, "-">>

AllTiers == 0 .. 4
CrossTiers(s) == IF s.quick THEN {1} ELSE IF s.full THEN AllTiers ELSE 0 .. 2
Sizes(s) == {64, 100, 256, 512} \cup (IF s.full THEN {128, 1024} ELSE {})
ThreadCounts(s) == {"1", "auto"} \cup (IF s.full THEN {"2", "4", "8"} ELSE {})

TuneArms ==
  {"shipped", "scale_fit=0", "scale_fit=1", "ac_nearest=0", "dc_search=0", "no-encoder-search",
   "refine_passes=1", "refine_passes=2", "dct_separable", "accel_quant_table", "accel_dct_lanes",
   "accel_fused_pixels", "accel_word_bitpack", "accel-all", "refine_passes=1+accel_sse_early_exit"}
Tier4Arms == {"shipped", "accel_quant_table", "accel_dct_lanes", "accel-all"}
DecodeArms == {"shipped", "accel_gamma_lut_cache", "accel_flat_cos", "accel-all"}

(* The blocks, in the order they are measured; they overlap on purpose. A quick *)
(* sweep is the first of them at one tier.                                      *)
CrossLanguage(s) ==
  {EncodeId(t, tier, 100, "gradient", "-") :
     t \in {x \in Available(s) : "encode" \in Ops(x)}, tier \in CrossTiers(s)}
  \cup {DecodeId(t, tier, "natural", "-") : t \in Available(s), tier \in CrossTiers(s)}

EncodeScaling(s) == {EncodeId("Rust", 1, n, "gradient", "-") : n \in Sizes(s)}
DecodeScaling == {DecodeId("Rust", tier, r, "-") : tier \in AllTiers, r \in {"natural", "capped32"}}
Levers == {EncodeId("Rust", 1, n, "gradient", arm) : n \in {100, 256, 512}, arm \in TuneArms}
Tier4Levers == {EncodeId("Rust", 4, 100, "gradient", arm) : arm \in Tier4Arms}

DecodeLevers ==
  {DecodeId("Rust", at[1], at[2], arm) :
     at \in {<<1, "natural">>, <<4, "natural">>, <<4, "capped32">>}, arm \in DecodeArms}

ContentClasses == {EncodeId("Rust", 1, 256, c, "-") : c \in {"gradient", "noise", "solid"}}

SimdOnOff(s) ==
  IF "Rust-scalar" \in Available(s)
    THEN {EncodeId(t, at[2], at[1], "gradient", "-") :
            t \in {"Rust", "Rust-scalar"} \cap Available(s),
            at \in {<<100, 1>>, <<256, 1>>, <<512, 1>>, <<512, 0>>}}
    ELSE {}

Batches(s) ==
  {BatchId(t, "1") : t \in {x \in Available(s) : "batch" \in Ops(x)}}
  \cup {BatchId(t, th) : t \in Threadable \cap Available(s), th \in ThreadCounts(s)}

Plan(s) ==
  IF s.quick THEN <<CrossLanguage(s)>>
  ELSE <<CrossLanguage(s)>>
       \o (IF "Rust" \in Available(s)
             THEN <<EncodeScaling(s), DecodeScaling, Levers, Tier4Levers, DecodeLevers, ContentClasses>>
             ELSE <<>>)
       \o <<SimdOnOff(s), Batches(s)>>

-----------------------------------------------------------------------------
(* One cell. A harness answers a spawn with the mean of each timed block; a    *)
(* pilot of one operation sizes the blocks, and blocks that come out short are *)
(* sized again by their own median and measured again.                         *)

BlockTime == 200000
MaxIters == 200000
MaxCell == 5000000
Died == <<0 - 1>>                       \* the spawn failed
NoTime == 0

SizeFor(cost) == Min({MaxIters, (BlockTime + cost - 1) \div cost})

MedianTime(lines) ==
  LET sorted == SortSeq(lines, <)
      n == Len(lines) IN
  (sorted[(n + 1) \div 2] + sorted[(n + 2) \div 2]) \div 2

RanShort(iters, lines) ==
  LET median == MedianTime(lines) IN
  /\ median > 0 /\ iters > 1
  /\ 2 * iters * median < BlockTime
  /\ SizeFor(median) > iters

(* What the cell is reported to cost; NoTime if it is skipped or lost. A second *)
(* measurement without blocks leaves the first; one that fails takes it along. *)
ProbeCell(answers) ==
  LET pilot == IF answers.pilot = <<>> THEN 0 ELSE answers.pilot[1] IN
  CASE pilot <= 0 \/ pilot > MaxCell -> NoTime
    [] answers.first \in {<<>>, Died} -> NoTime
    [] ~RanShort(SizeFor(pilot), answers.first) -> Min(ToSet(answers.first))
    [] answers.again = Died -> NoTime
    [] answers.again = <<>> -> Min(ToSet(answers.first))
    [] OTHER -> Min(ToSet(answers.again))

\* Every harness answers alike, but for the cells that the sweep names.
Answers(s, id) ==
  IF id \in DOMAIN s.odd THEN s.odd[id]
  ELSE [pilot |-> <<s.pace>>, first |-> <<s.pace + 3, s.pace>>, again |-> <<s.pace>>]

(* record: one id, one measurement, in the block that comes to it first,       *)
(* whether or not it comes to anything.                                        *)
Recorded(plan, b, id) == \E a \in 1 .. b - 1 : id \in plan[a]

Cells(s) ==
  LET plan == Plan(s) IN
  {c \in UNION {{[id |-> id, block |-> b, us |-> ProbeCell(Answers(s, id))] : id \in plan[b]} :
                  b \in DOMAIN plan} :
     ~Recorded(plan, c.block, c.id) /\ c.us # NoTime}

-----------------------------------------------------------------------------
(* The report *)

Mode(s) == IF s.quick THEN "quick" ELSE IF s.full THEN "full" ELSE "bounded"

(* Whoever measures a decode has Rust encode its input, and a sweep that has    *)
(* targets and no Rust that works ends there.                                   *)
Dies(s) == Available(s) # {} /\ ClassifyProbe(s.host["Rust"]) # "ok"

(* A report of the first schema, and one that does not say why a target was not *)
(* measured, were written by drivers of before.                                 *)
Unavailable(s) ==
  [t \in s.impls \ Available(s) |->
     IF s.era = "unclassified" THEN "unclassified" ELSE ClassifyProbe(s.host[t])]

Report(s) ==
  [current |-> s.era # "first-schema", commit |-> s.commit, dirty |-> s.dirty, cpu |-> s.cpu,
   mode |-> Mode(s), cells |-> Cells(s), unavailable |-> Unavailable(s)]
=============================================================================
