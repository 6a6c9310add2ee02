# ChromaHash in TLA+

ChromaHash turns an image into a placeholder of 21, 32 or more bytes. The numbers
in it come from floating-point code, which the repository tests bit by bit against
vectors. What surrounds those numbers is discrete and much harder to test: batch
encoders with thread pools of their own, a bit format that two decoders walk from
memory, a search over codes that scores a picture it keeps up to date by
differences; and a harness that decides, from scores that are cached on disk, what
the project may say about itself. That harness is most of the TypeScript in the
repository: it measures on a corpus of which one part is sealed, derives verdicts,
and holds every table of two long documents to what was committed. All of this is
specified here.

Paths are relative to the repository root (`src/` in `PROJECT.json`); `cmp/` stands
for `tools/comparison/src/`.

## 1. The system

| Component | State | Operations | Talks to |
|---|---|---|---|
| Rust `BatchEncoder` (`rust/src/batch.rs`) | worker threads, job channel behind a mutex, result channel of each call | `with_threads`, `encode_batch`, `Drop` | the encoder, on each worker |
| Go `BatchEncoder` (`go/batch.go`) | goroutines, unbuffered job channel, `closed`, output slice and `done` channel of each call | `NewBatchEncoderN`, `EncodeBatch`, `Close` | C binding |
| C# `BatchEncoder` (`csharp/src/Chromahash/BatchEncoder.cs`) | threads, `BlockingCollection`, output array and `CountdownEvent` of each call | constructor, `EncodeBatch`, `Dispose` | C binding |
| Swift `BatchEncoder` | `OperationQueue`, locked result array | `encodeBatch`, `deinit` | UniFFI binding |
| Wire format (`constants.rs`, `encode.rs`, `lib.rs`, `decode.rs`, `bitpack.rs`; `typescript/src`) | two bit positions over one string | pack, `from_bytes`, parse, `average_color`; a second decoder in TypeScript | every consumer of a hash |
| Quantisation and refinement (`encode.rs`) | codes, reconstruction, best error | DC search, scale and AC quantisers, `refine_codes` | bit writer |
| Encoder analysis, decoder rendering, SIMD | none | floating-point numerics | - |
| C binding; UniFFI, JVM, Android, WebAssembly bindings | handles, image buffers | `chromahash_*` | Rust core; Go, C#, Swift, Python |
| The report (`cmp/main.ts`, `harness-runner.ts`, `pool.ts`) | next item, permits, unavailable languages, `output/` | build, encode, compare, score, write JSON, pictures and page | eight programs, the metrics |
| Metric scoring (`cmp/metrics/iqa.ts`) | cache on disk shared by processes, working directories | `ensureIqaAvailable`, `computeIqaMetrics` | iqa-cli, other runs |
| Columns of the report (`cmp/adapters`, `rd/byte-target.ts`, `raw-pixels.ts`, `metrics.ts`, `image-loader.ts`) | memo of encoded files | search for a quality that fits a budget, publish, score over backdrops | metric scoring |
| Formats at a budget and layout fidelity (`cmp/rd-budget.ts`, `rd/report.ts`, `aspect.ts`, `report-layout.ts`) | none | layouts for a budget, winners near an anchor, the layout tab | columns, committed results |
| Local metrics (`cmp/metrics/local.ts`, `spurious.ts`) | none | ringing, spurious detail and deficit | sweeps |
| Sweeps (`cmp/sweep.ts`, `results.ts`, `arms*.ts`, `stats.ts`) | rows scored so far, committed result | score, infer, judge, commit, read again | the register of decisions, readers |
| Readers and gates (`cmp/paired.ts`, `stratify.ts`, `determinism-check.ts`, `rd-gate.ts`, `verify-sweep-labels.ts`, `entropy-budget.ts`) | none | compare in pairs and strata, hold a build to a baseline, hold labels to knobs, price codes | committed results, configs |
| Corpus (`cmp/corpus*.ts`, `*-images.ts`) | `fixtures/` | which split and corpus a file is of, fetch, check | every measurement |
| Document checks (`cmp/verify-experiments.ts`, `verify-claims.ts` and their registers) | `spec/EXPERIMENTS.md`, lists of what is bound | compare, `--fix`, `--strict` | committed results |
| Benchmarks (`cmp/perf/`, `verify-benchmark*.ts`, `tools/benchmark`) | reports in three slots, stage columns, `spec/PERFORMANCE.md` | probe, walk a matrix, record, check, `--fix` | the programs of each language |
| CI, releases, command lines, packages | files | declarative, or one call | - |

`PROJECT.json` lists them all, with what is modelled of each and why the rest is not.

What is hard in this code, and what therefore has properties:

- **Interleaving.** Calls overlap on one pool; workers finish in any order and write
  into memory the caller gets back; one permit is shared by all images of a report.
- **Partial failure.** An item does not validate, a worker panics, a language does not
  build or falls silent, a metric process fails or times out, a fetch is cut off, a
  benchmark target is missing. The verdict has to say what was observed, and no more.
- **Crash.** A run is killed between two file operations; other runs, then and later,
  use the same cache, the same fixtures and the same results.
- **Liveness and deadlock.** A receiver waits until the last sender is gone; an owner
  that sends everything first meets workers that want to report; retries end.
- **Protocol.** Decoder and encoder share no table of offsets: the order and widths of
  calls *are* the format. A sealed split is read once, whole, for a frozen decision.
- **Stale state.** A cache entry outlives the binary that computed it, a file the pin it
  was fetched for, a number in a document the result it was copied from, a label the
  default it relied on, a hand-kept table in TypeScript the format.
- **Derivation.** The same verdict is derived by the run that measured it, by readers of
  the committed series, and by the check of the page; the three have to agree.
- **Numeric edges.** A length in a 32-bit int; a closed formula beside the loop that
  fills it; p-values counted in resamples; prices that add up to one; ties at a tolerance.

## 2. The modules

| Module | Models | Checked in run | Proved in |
|---|---|---|---|
| `BatchSpec` | what any batch encoder promises (abstract) | refined by the next three | |
| `RustBatch` | `batch.rs` | `rust_batch` | `RustBatch_proofs` |
| `GoBatch` | `batch.go` | `go_batch` | `GoBatch_proofs` |
| `CSharpBatch` | `BatchEncoder.cs`, and what the encoder accepts | `csharp_batch`, `csharp_batch_wrap` | `CSharpBatch_proofs` |
| `WireFormat`, `TsDecode` | layout, packing, validation and parsing in Rust; the TypeScript decoder | `wire_format` | `WireFormat_proofs` |
| `Refine` | quantisation and refinement in `encode.rs` | `refine` | `Refine_proofs` |
| `MapSpec`, `Pool` | what a bounded concurrent map promises; `pool.ts` | `report` | `Report_proofs` |
| `Harness`, `Lineup`, `Report` | the cross-language runner; the columns of a report; `main.ts` composed with both and with `Pool` | `report`, `report_clobber` | `Report_proofs` |
| `MetricCache` | `metrics/iqa.ts` | `metric_cache` | `Measurements_proofs` |
| `Columns`, `RdBudget`, `Layout` | how a decode is scored, and what the columns say; formats at a budget; the layout tab | `metric_cache` | |
| `Statistics`, `Arms`, `Analysis` | `stats.ts`; inference, guards and labels of arms; a sweep from its scores to its readers | `analysis` | `Measurements_proofs` |
| `LocalMetrics` | ringing and spectra | `analysis` | `Measurements_proofs` |
| `EntropyBudget`, `Readings`, `Gates` | prices of codes; readings by image; gates against a baseline | `analysis` | |
| `Corpus`, `Sweep` | splits, pins and fetches; the measuring tools and their results | `experiments` | `Experiments_proofs` |
| `Experiments` | `spec/EXPERIMENTS.md`, its check and the check of the figures quoted from it, composed with `Sweep` | `experiments` | `Experiments_proofs` |
| `Perf`, `Benchmark` | the benchmark driver; `spec/PERFORMANCE.md` and its check | `benchmark` | `Measurements_proofs` |

Definitions keep the names of the source where TLA+ allows it. A comment "Mutant:"
marks a definition that changes the one below it the way a plausible bug would;
`PROJECT.json` says which property must then fail. Pure code is written as operators
and is checked on every small input, in states of a run that holds nothing else
(`MCMetricCache`, `MCAnalysis`): such a state is one case, and a property of it relates what
several operators make of that case, never one operator to itself.

### BatchSpec and the three pools

A call returns the hashes of exactly its images in order, or fails, and fails only for a
reason: an item that does not validate, a crash in the encoder, a closed encoder.
`LiveSpec` adds that it comes back at all. Each pool maps its own states to `open`,
`status`, `batch` and `result`.

| In `RustBatch` | In `batch.rs` |
|---|---|
| `jobs` | the `mpsc` channel of `Job`s; `encoder # "alive"` is `job_tx = None` |
| `lock`, `poisoned` | the `Mutex` around the receiver; it is held through a blocking `recv` |
| `wpc`, `wjob` | a worker's place in its loop, and the job it owns |
| `results`, `got`, `out` | the result channel of a call, the loop that drains it, the slots |
| `CallSenders(c)` | some clone of the call's `result_tx` still exists, in a queued job or in a worker |
| `Reject`, `Accept` | up-front validation, which is one step: it touches nothing shared |
| `Send`, `SendFails`, `DropResultTx`, `Collect`, `CollectFails`, `Return` | the rest of `encode_batch`, one step for each channel operation |
| `Lock`, `Recv`, `RecvClosed`, `Report`, `Panic` | the worker |
| `CloseJobs`, `Joined` | `Drop` |

That a channel is disconnected is computed from who still holds an end of it, never
stored: this is how Rust does it, and it is where the interesting bugs would be (a sender
kept alive one line too long and a call waits for ever). A worker that panics drops its
job, its share of the receiver and, if it held it, the lock. The last share of the
receiver takes the queued jobs with it.

In `GoBatch` sending on the unbuffered channel is a rendezvous, one action of owner and
worker (`Hand`). `done` counts the signals in the buffered channel. A panic in a goroutine
ends the process (`crashed`), after which nothing moves. The type belongs to one
goroutine, as its comment says, so `EncodeBatch` and `Close` do not overlap.

`CSharpBatch` has a `BlockingCollection` and a `CountdownEvent`. The validation computes
the byte count in an int of `IntBits` bits (`Int32`), the encoder behind it does not wrap
(`Encodable`); the difference is finding 1. Calls may overlap; `Dispose` does not overlap
with a call.

### WireFormat and TsDecode

The encoder puts fields at `wpos`, the decoder reads them at `rpos`; each has its own idea
of what comes next (`AfterWrite`, `AfterRead`). A field's value is abstracted to stamps,
one for each bit, naming the field and the bit: two fields that overlap, a bit read from
the wrong field, and a bit that nobody wrote are all visible, whatever the values. A layout
(`Tunables`) is a parameter; so is the merged order of the interleaved layout, which is
assumed to be a permutation. A string may also come from elsewhere (`wpc = "absent"`), with
any length and descriptor.

`TsDecode` is the decoder of `typescript/src`, which restates the shipped layout as
constants (`LAYOUT_B`, `LAYOUT_T0`, `LAYOUT_TC`), counts its way through the same bits and
orders the frequencies by an integer key with truncating and flooring shifts
(`SelectionKey`). `TsAgrees` holds this against the Rust encoder: what it accepts, every
field it reads, and that the natural raster shows as many selected frequencies as a channel
has codes (`Placed`), for every tier and aspect. Which frequencies are selected, and in which
order, is modelled but not compared with Rust's.

### Refine

`Init` quantises an image, an action of `Next` tries one coordinate of a pass: `ScaleMove`,
`DcMove` and `AcMove` when a candidate wins, `Keep` when none does. `Pick` is the loop over
candidates, with the early exit of the scorer. `recon` is what the code keeps by
`add_basis`; `Decode` is the decoder's view of the same codes, from `decode.rs`, with dead
frequencies, the shared b scale and the decoder's grid of scales, and the properties hold
one against the other. Arithmetic is on integers: colour is a clipped mix of the channels,
cosines and companded levels are tables, so that the clip makes the objective
non-separable, as in the code.

### Report: Pool, Harness, Lineup

One event loop: an action is what runs between two awaits. `Pool` is the map over the
images: a permit is handed to a waiter (`"granted"`) that uses it in a later turn (`Enter`),
and `fn` enters the semaphore up to `MaxRuns` times, as scoring does. `Harness` is the
cross-language runner: a program crashes, is silent, or gives bytes (`Encoded`), the reference
is Rust's, and three places derive a verdict from the rows (`CrossLanguage`, `LangPassFail`,
`Printed`). `Lineup` names the columns of each mode of the command line, where two columns of
one name would count every picture twice; `--formats` compares names in lower case, as the
code does. `Report` composes the three: `BuildHarnesses`, the
map with `Entry` as its function, then the pictures, the JSON and the page, each of which may
be cut off (`Publish`, `Interrupted`) over what an earlier run left in `output/`.

### MetricCache, and the columns that are scored through it

Processes overlap or follow each other; one may be killed between any two file operations,
and files survive it. Within a process nothing else runs between the return of iqa-cli and
the next await (`at`). A score is a function of binary, pair and metric, so a score of the
wrong binary or a missing metric shows. Upgrades of the binary between runs are external.

`Columns` has the two rasters of a picture and how a decode is scored against the larger of
them, flattened over one or several backdrops, grown by the policy of the config, blurred or
not; a decode is known by what was done to it. It has the search of a codec column for
the highest quality that fits a budget, over a memo of files that all columns of a picture
share, the floor that is published where nothing fits, the ChromaHash columns, the four
libraries, and the control of raw pixels. `RdBudget` has the layouts that a budget is given
(`Allocate`, `Tune`), the rows near an anchor, who wins there (`Beats`, `Verdict`), the same
derived again from a committed result, and the curves of the report. `Layout` has the distance
of a placeholder's shape from its image's and the tab that shows it.

### Analysis: a sweep from its scores to its readers

`Analysis` scores arms one after the other (`ScoreVariant`), judges each against the incumbent
by intervals and by means, prints a table, commits the series (`WriteResult`) and lets readers derive
everything again (`Read`). `Statistics` and `Arms` are exact: a bootstrapped mean is a sum, an
interval is `Cut` times the quantiles of sums, a p-value counts resamples. The draws of the
seeded generator are a constant, an arbitrary function of seed and length.
`LocalMetrics` computes ringing from envelopes, which a deque of indices slides along lines
(`Sliding`), and spurious detail from a cosine basis that is a
constant; the end of `Arms` is the check that an arm's label names what its tune string writes;
`EntropyBudget` prices codes whose tables are trained on the other images, a price being a
fraction and `Bits` the length it is given; `Readings` are paired and stratified comparisons;
`Gates` the two jobs that hold a build to what was committed.

### Corpus, Sweep and Experiments

A file under `fixtures/` is absent, the bytes of its pin, or other bytes (a torn or stale
file). `Corpus` says which split and corpus it belongs to and walks a run's lists of pins:
cached file, mirror, sources with their retries, and a write that opens the file before it
fills it. `Sweep` is one run of `sweep.ts`, `rd-budget.ts` or the report at a time: `Gate`
(refusals, and the opening of the sealed split for a decision that the register says is frozen),
`Load`, `Select`, `Capture` of the provenance, `Score` arm by arm, `Save` and `Saved` around the
truncating write, while a developer edits, commits, builds, moves decisions and deletes
fixtures, and a kill may come anywhere (`Crash`). A score is the build that an arm was encoded
with. `Experiments` adds the document: what each cell of each bound table is held to
(`Measured`), the ways in which the check passes over a cell (`GivesUp`, `Stray`, `Compared`),
the verdict with and without `--strict`, `--fix`, and the figures that other files quote from
the document (`ClaimHolds`, `Unregistered`).

### Perf and Benchmark

A sweep of the driver is one operator of how it was started, on which host, and what the
harnesses answered (`Report`): the matrix block by block, probes, cells that die, pilots
that decide how long to measure. `Benchmark` keeps such reports in three slots and the stage
columns of two files, lets authors edit the page, and has the check as an operator of all of
it (`Resolve`, `CheckCell`, `Green`), with `--fix`. A number on the page is known by the times
it is computed from. Only cells that some row of the page is bound to are followed
(`Followed`); a Rust that fails its probe also fails to encode (`Dies`).

## 3. The runs

| Run | Instance | Shows |
|---|---|---|
| `rust_batch` | 2 calls, 2 workers, 6 slices | results in order, none lost or duplicated (`InOrder`, `Tracked`); a bad slice is not dispatched; implements `BatchSpec!LiveSpec`; every drop returns (`DropEnds`) |
| `go_batch` | 2 calls, 2 goroutines, 5 slices | the slice is unshared when it is returned; every call ends; implements `BatchSpec` |
| `csharp_batch` | 2 calls, 2 threads, 7 lists, 8-bit ints | the event outlives its signals; every call ends; implements `BatchSpec` |
| `csharp_batch_wrap` | the same | *violation*: finding 1 |
| `wire_format` | 7 layouts, tiers 0 to 2, strings of 0 to 26 bytes | hashes of 21 and 32 bytes are filled to the last bit that they need (`ExactBudget`); every field comes back (`RoundTrip`); the TypeScript decoder agrees (`TsAgrees`) |
| `refine` | 80 images of 2 x 2 pixels, 4 settings, 3 passes | what is scored is what is decoded, and the early exit decides nothing; a search that stops is at an optimum |
| `report` | 4 images, 3 workers, 1 permit, 2 languages, every mode | permits conserved and handed over in order; the map implements `MapSpec`; verdicts say what was observed; the report is whole or the run ends |
| `report_clobber` | the same | *violation*: finding 2 |
| `metric_cache` | 2 processes, 3 calls, 2 binaries, 3 metrics; beside them every column, layout tab and budget page | cache entries and answers are genuine (`ScoresGenuine`); columns, controls, tabs and verdicts say what is so (`ColumnsAreHonest`) |
| `analysis` | 3 arms, 3 images; beside them every small input of the pure parts | eight properties, below |
| `experiments` | 6 files, 6 commands, 2 runs, 4 tables, 2 figures | the seal and its readings are kept; results are of the pinned corpus; a green check is evidence; runs end |
| `benchmark` | 8 kinds of sweeps, 3 slots, 3 steps | a green check is backed by the sweeps; `--fix` over sound evidence leaves a page that passes |

The eight of `analysis`: readers derive what the sweep printed, and only an arm's own scores
decide whether another seed turns its interval (`ReadersAgree`); an arm that is nowhere better
has no better verdict (`NeverBetterDominated`); Holm's adjustment is the step-down test,
interval and p-value of the same resamples are one test, a comparison turned around says the
opposite, strata are the same images for every arm (`TestsAgree`); a decode that is only
coarse is charged with nothing that it did not invent (`NothingInvented`); a table that calls its
spectral columns comparable pairs only scores of one longest edge (`OneGrid`), which is one grid
(`OneInstrument`); a label that passes names what its arm runs with, under any default
(`LabelsHold`); a code's price could be achieved by a decoder that has not seen the image
(`CodesAreReal`); and a green gate stands for the same series on every image (`GatesHold`).

The components define type invariants. Those of `RustBatch` and `Sweep` are theorems, those of
`GoBatch`, `CSharpBatch`, `MetricCache` and `Pool` parts of an inductive invariant (section 4), and
the others were checked on the same instances while the modules were written. None is among a
run's properties, which are spent on what could be wrong.

### The bounds, and why they are enough

- **Two calls, two workers.** The pools treat calls alike and workers alike: what can go
  wrong is between two calls (results crossing), between two workers (order, a shared lock,
  one dead and one alive, both dead), or between a call and a worker. Slices have up to four
  items, more than workers, so a worker takes several and a queue forms; one repeats an
  image, which hides a swapped result from a weaker property; one fails on its last item,
  so earlier ones are valid; crashes come first and last. **8-bit ints** keep the products
  that wrap enumerable; nothing depends on the width except where the wrap begins.
- **Layouts.** Six small ones differ in every width and count, so that no two offsets coincide
  by accident, and switch on each option that changes the format (shared b scale,
  chroma-from-luma, interleaving, truncation); the shipped one is there as it is. Lengths to
  26 bytes surround every length a small descriptor and the compact tier imply.
- **2 x 2 pixels, two frequencies a channel.** Two rows give the early exit a row to skip; one
  luma frequency is not selected, so no choice of codes is perfect; one chroma frequency is
  dead. Companded levels, means off the DC grid and a clip make optima that one coordinate
  cannot reach in one pass: searches take one, two and all three passes.
- **4 images, 3 workers, 1 permit, 2 languages.** Workers outnumber permits, so two wait and
  order matters; images outnumber workers, so one is claimed late. On the first image anything
  may happen, on the second the languages agree or differ, on the rest nothing does: an outcome
  of an image concerns no other, and a verdict has to survive one observed and one silent image.
- **3 calls in 2 processes** give two writers of one key in one process, in two, and a reader;
  two binaries give one upgrade. `psnr` scores null when images are identical: a null that
  is a score. Symmetry permutes the two calls of the first process, in a run without liveness.
- **Columns:** a ladder of three rungs, qualities 1 to 6, 4 scenes, 4 files of which two are
  larger than the caps, 8 configs, 4 line-ups of three codec columns, hash tiers 1 to 4; the raw
  control on 8 images and budgets of 1 to 60 bytes with 8-bit channels; layout tabs of 0, 1, 3
  and 5 entries at 3 budgets (a tab draws at most four); budget pages of four columns, or three
  without ChromaHash, over two images, at one, two and three anchors, with targets of 1 to 260
  bytes and the published ones above for the layouts. Scores are close to one another and far,
  on both sides of each tolerance.
- **3 arms over 3 images:** an incumbent and two that are compared; three images give intervals
  that leave zero out and such that do not; `Resamples` = 7, `PResamples` = 9 and `Cut` = 4 are
  the smallest at which a p-value, its adjustment and an interval fall on either side of each
  other. Families of Holm have four tests with every mix of ties and of no number.
  Planes have up to six pixels, which is where a window meets a border on both sides, and the
  basis is rounded to parts of 100. Labels: eight labels on tune strings of up to three pairs,
  three second arms, four exemptions. Codes: two or three images of up to two luma places,
  lengths in whole bits, and the shipped constants for the layouts that may be candidates.
  Pairs: three entries of eleven shapes; strata: four photographs, three tables of covariates,
  one to four bins; reruns: 27 committed results against every one that may come of them;
  drifts: two images, four scores, tolerances default, 0, 2 and one that is no number.
- **6 files, one of each kind that the code tells apart**, among them a sealed one whose pin is
  gone; six commands, two of one name (whole and in part); one decision, one edit, two runs, two
  arms. One run and one that meets what it left is the shortest history in which anything is
  stale. `Sources` and `Retries` are 1: one more of either repeats a step. Four tables (a ratio
  to a base, rows of a result, a summary of several, and rows whose cells are prose), two lists of
  what is bound; one slip. The document is written only when the last run is
  saving or over, because no earlier step touches what it reads.
- **Three slots, two records, three steps** of the benchmark: the third step is what reads the
  other two, and two records are what a host, a commit or a driver can differ between.

### Fairness

Rust, Go and C#: a thread or goroutine that can take a step eventually does (weak fairness of
each caller and worker): schedulers are preemptive. The Rust mutex promises only that *some*
waiter gets it, so `Lock` is fair as a whole and not for each worker. Nobody is obliged to
call, close, drop or dispose. Report: the event loop runs every turn that is due, and a metric
process ends by itself or by the timeout `runIqa` gives it. Experiments: a tool that was
started goes on by itself (`WF` of `RunStep`), since every wait in it has an end; nobody has to
start one, and a kill only ends it sooner. The other runs have safety properties only.

Deadlock is checked in every run; where a system may really stop (all dropped, crashed, closed,
ended) a stuttering step says so.

## 4. What is proved

Twenty-seven of the runs' properties are theorems of the specifications, for every value of the
constants; seven more theorems state what `LabelsHold` and the two clauses of `OneInstrument` check,
and clauses of two others, for inputs of any size. The order below
is that of the modules in section 2.

| Module | Theorem | States |
|---|---|---|
| `RustBatch_proofs` | `TypeCorrect` | `Spec => []TypeOK` |
| | `LockIsShort` | `Spec => []LockDiscipline`: the mutex is held exactly by the worker in `recv`, and is never poisoned |
| | `EverythingTracked` | `Spec => []Tracked` |
| | `ReturnsInOrder` | `Spec => []InOrder` |
| | `RejectsBeforeDispatch` | `Spec => []RejectedUndispatched` |
| | `RustImplementsBatch` | `Spec => Abstract!Spec`: the safety half of `Refines` |
| `GoBatch_proofs` | `SliceIsHandedOver` | `Spec => []SliceHandedOver` |
| | `GoImplementsBatch` | `Spec => Refines` |
| `CSharpBatch_proofs` | `NothingSignalledLate` | `Spec => []NoSignalAfterDispose` |
| | `CSharpImplementsBatch` | `Spec => Refines` |
| `WireFormat_proofs` | `BudgetIsExact` | `Spec => []ExactBudget` |
| | `FieldsComeBack` | `Spec => []RoundTrip` |
| | `TsDecodesAlike` | `Spec => []TsAgrees` |
| `Refine_proofs` | `ScoresAreDecoded` | `Spec => []ScoredIsDecoded` |
| | `SearchEndsAtOptimum` | `Spec => []EndsAtOptimum` |
| `Report_proofs` | `PermitsStay` | `ReportSpec => []PermitsConserved` |
| | `NobodyOvertakes` | `ReportSpec => NoOvertaking` |
| | `PoolImplementsMap` | `ReportSpec => Refines` |
| | `VerdictsAreObserved` | `ReportSpec => []VerdictObserved` |
| | `ReportsAreWhole` | `ReportSpec => []ReportWhole`, if the columns of a mode have distinct names |
| `Measurements_proofs` | `ScoresAreGenuine` | `Spec => []ScoresGenuine` |
| | `GreenHasEvidence` | `BenchSpec => []GreenIsBacked` |
| | `FixLeavesGreen` | `BenchSpec => FixPublishes` |
| | `SweepsKeepTables` | `AnalysisSpec => []SweepInv`: table, file and view are functions of the rows |
| | `ComparableIsOneGrid` | `AnalysisSpec => []OneGrid`: a clause of `OneInstrument` |
| | `DominatedArmsAreNoBetter` | `AnalysisSpec => []NeverBetterDominated` |
| | `ReadersTellTheSame` | `AnalysisSpec => []ReadersAgree` |
| | `HolmStepsDown` | `StepsDown` of any p-values: a clause of `TestsAgree` |
| | `IntervalAndPAgree` | `OneTest` of any sample, draws and seed: another, for `Cut` > 2 |
| | `BlurDoesNotRing` | a low-pass of any raster has no excursion: a clause of `NothingInvented` |
| | `TintDoesNotRing` | nor has a plain decode of a plain raster: another |
| | `LongestEdgeTells` | equal longest edges are equal grids, of any multiples of a raster: the other |
| | `GreenLabelsHold` | `NoMoreLies` of any arms, labels, tune strings and defaults: what `LabelsHold` checks |
| `Experiments_proofs` | `SweepTypeCorrect` | `SweepSpec => []SweepTypeOK` |
| | `SealedStaysSealed` | `SweepSpec => []SealKept` |
| | `ReadingsAreFinal` | `SweepSpec => ReadingKept` |
| | `ResultsCoverTheCorpus` | `SweepSpec => []PinnedScored` |
| | `DocumentsOnlyRead` | `Spec => SweepSpec`: with the document around them, the tools behave as specified alone |
| | `KeptBesideTheDocument` | the three properties of `Sweep` for the `Spec` that the run checks |
| | `GreenIsEvidence` | `Spec => []GreenMeansChecked` |
| | `QuotesAreEvidence` | `Spec => []QuotesAreMeasured` |

None of the properties is inductive: each says what holds in the end and not why.

**Rust pool.** `Tracked` follows an item through every place it can be: a queued job, the job in
a worker, a result in a channel and a filled slot each name an index of their call's slice and
hold that index's image or its hash, and exist only for a slice that validated. `Tracked` with
`TypeOK` is inductive. A returned call has all slots filled (the `Filled` guard is the `expect`
of the code), each with the hash of its index, which is `InOrder`. `LockDiscipline` is inductive on
its own; that a panic cannot poison the mutex is the fact that no worker is encoding with the
lock. `BatchSpec` lets a call fail only for a reason, so its refinement needs one more argument:
a call panics when its channel closes with slots missing, and that must be the crash of a
worker. `LossInv` counts: while nothing has crashed, what a call has received, what waits in its
channel and what is still `Pending` (unsent, queued or encoding, by index) make up the slice.
`OnceInv` (no job in two places) keeps that a cardinality, and `EndInv` says why a worker ends.

**Go pool.** That no goroutine holds a returned slice is again a count: what was sent is what
was received, what is buffered in `done`, and what the goroutines hold (`CountInv`, with
`Holders`). A call returns after receiving as often as it sent, so nobody holds its slice.
`JobInv` has a goroutine in possession of a job exactly between receive and signal, `OutInv` that
what was sent is written or with a goroutine that will write it; with it each step is one of
`BatchSpec` or a stutter. Goroutines are finitely many, as `NumCPU` is.

**C# pool.** Calls overlap, so the count is per call: the countdown event stands at the number of
items that are not yet added, queued or with a thread (`CountInv`, with `Pending`), of which no
two are the same (`OnceInv`). The call returns at zero, when no thread has its event or its
array. Threads may be infinitely many; `Pending` is finite because the list is.

**Wire format.** Encoder and decoder each keep a position and share no table. The invariant gives
both the same closed form: before header field f it is the sum of the widths of those before it
(`Chain`: the recursion over the next field that a layout has), and after n codes it is the
prefix and the bits of the codes at the first n places of the order (`Place`). That the last
position is the length that `body_len_bytes` computes in advance, a product for each tier table,
is a lemma on what a set of codes costs (`Spent`, by cardinalities of its parts) and on orders:
each layout's order visits every code once (`OrderIs`), for the sequential order by counting
and for the merged one by assumption. `Laid` says of every bit which field it belongs to, so
that a put never meets one that is taken. The decoder then reads each field at the place where
`Laid` has it (`HeaderReads`, `CodeReads`), and a code is past the truncation limit exactly if
its last bit is.

**The TypeScript decoder.** It knows only the shipped layout, and restates it; that its rows, its
scale for a tier and its byte count are those of `DEFAULT` are lemmas (`TableAgrees`,
`LengthsAgree`), and with them its verdict is the one of `from_bytes`, which the decoder's state has
kept (`Judged`). `Reads` is one list, joined from runs of codes (`ReadsAre`); the sum of
widths before its entry i is the closed form above (`TsPositions`), so what it reads there is what
`Laid` has there. That a channel never has fewer frequencies than codes rests on two facts:
`Before` is a strict total order of the candidates, of which exactly k then have fewer than k below
them (`FirstOnes`), and no channel has more codes than a raster has places (`CountsFit`).

**Refinement of codes.** `CodesInv` says that the pixels that are kept and their error are those
of the codes at hand; a move keeps it because adding a basis with the difference of two levels is
decoding the changed code, a fact about sums over selections. Such sums and the error over rows
are recursive functions; what is needed of them for all lengths is proved with the principle of
the least number (`LeastNumber`, one lemma on a set of naturals), so that no induction schema is
instantiated. A candidate that the early exit cuts off has an error that is at least the bound
already, and rows only add to it: it decides nothing. `SearchInv` says that as long as a pass has
gained nothing, no coordinate behind it has a better candidate, and with `done` before the last
pass that is all of them.

**Report and its pool.** `PermitsInv` adds to `PermitsConserved` that nobody waits twice, without
which releasing a permit might wake who already has one. `ClaimInv` and `ResultInv` are the map:
claimed items are distinct and below `next`, and an item without a result is with a worker that
is not done, so a map that resolves has them all. `EntriesInv` ties an item with a result to an
entry that was made from observed outcomes, which is what the three verdicts are derived from, and
`PageInv` says how far the files of `output/` have come. That names of columns differ is a
hypothesis of `ReportsAreWhole`: it is a fact about strings, which the run checks for every mode.

**Metric cache.** `TaskInv` says that one binary gave all that a call holds, its own process's
binary if that process knows it, and `ProcInv` that the binary cannot change under a process that
is up. A temporary file belongs to one call, so what a rename publishes is that call's answer under
that call's key, whatever was killed in between.

**Benchmarks.** `SlotsInv` says that a slot holds no report or the report of its sweep; everything
else the check reads is a function of the slots, the stages and the page. A sweep's cells have
their ids once and are of targets that its host has (`CellIs`, `PlanTargets`), so that what loads as a
run is a time that was taken, and what counts as unmeasured was looked for and never timed
(`UnmeasuredIs`); a green verdict on a cell then has a time behind it, case by case. For `--fix`,
evidence that stays is read the same (`SameVerdicts`), and a cell that it wrote passes
(`FixedPasses`). Stated for all constants, `GreenIsBacked` was at first false: a target that answered
its probe may still have no time in any report, and a marker is then right. The property now
speaks of targets that a time was taken of (`Reaching`, `Missing`).

**Analysis of sweeps.** `SweepInv` makes table, file and view functions of the rows, and the rows
functions of images; the two properties are then facts about statistics. Sums are monotone, by the
least place where they would not be; a k-th value exists, is monotone and turns around with its
sample (`KthExists`, `KthOrder`, `AscendingMirrored`); interpolation keeps order, and the quantiles
1 / `Cut` and (`Cut` - 1) / `Cut` of a sample turned around are each other's mirror
(`QuantileMirrored`). A dominated arm has scores on the same images, so its differences are as many,
their resamples are drawn alike, its intervals lie below, and no verdict on a guard is better
(`WorseVerdict`). Readers see the committed series: what was left out of a row had no pair
(`PairedIs`) and no mean (`MeansAgree`). Holm multiplies by one or more, and takes the largest
(`HolmNoLess`); an arm's place among those with pairs leads back to it (`InOrderReaches`), which is
why adjusted values and flips are its own. `OneGrid` needs one thing more of the rows
(`GridsRecorded`): no score without the edge of its grid, also where a config leaves the artifacts
out. Only so does comparing the recorded edges compare the scores.

**Statistics.** Holm's adjusted value is the largest product up to its rank (`HolmWithin`, by the
least rank where it would not be). Ranks break ties by index, so a test that ties is multiplied by no
more than the step-down test would, and the first of a tie by just that (`TimesAre`, `FirstOfTies`):
that is why ties fall together. For the interval, a k-th least number is above zero exactly if fewer
than k are not (`KthAboveZero`); an end lies between two such numbers (`LowerEndIs`), and the p-value
counts the same numbers (`FewAre`). The upper end is the lower one of the sample turned around. `Cut`
is 2 / alpha, so `Cut` > 2 says that alpha is less than one.

**Ringing.** `Leading` says what a deque keeps while it slides: nothing in the window beats all that
is in it, and nothing later in it beats an earlier one, so the head is the extreme (`SlidingIs`).
Along rows and then along columns that is the extreme of a square (`ExtremesAre`). The pixels that a
decoded sample stands for lie within the radius of each pixel that shows it (`BoxReached`), however the
two sizes divide; so a sample that lies between two of them lies between the extremes, and is charged
with nothing (`ChargedNothing`). On a plain reference the mean error about a pixel is its error
(`WindowsAre`), and an excursion has to survive without it. Levels are whole numbers of any size.

**Grids.** The least of the caps, over the size of the raster, is one of the three fractions
(`CapsAre`), and does not depend on the multiple: a grid is the decode itself up to that multiple and,
from there on, the same two rounded numbers (`GridAt`). If the longest edge of
a decode below the cap is that of the capped grid, rounding moved it by less than half a pixel, and
the shorter edge by no more, so that it is its own as well (`OneIsPlain`).

**Labels.** A place of the tunables keeps what the last pair that writes it has put there, by the
least pair after which it would not (`LastPairStays`). The check reads the last pair of a key, and that
is the last to write any of its places only if no other key writes them later: hence the hypothesis
that no tune string is `Overwritten`, which every committed config meets and the check does not see.
Then what the check compares with the label is what the encoder runs with (`SetIsRun`), and the arms
that lie are among the findings that the exemption counts.

**Sweeps.** `SealKept` says that sealed pictures are at hand only for an opened run; it does not say
why the run was opened, nor where a sealed picture or pin can come from. `SealInv` adds what the
gate let through, for as long as the run lasts (`GateInv`: whole, opened, and its reading not
committed yet); that sealed pictures are selected only by a command on that split (`InputsInv`),
a lemma on the three selections (`SelectedOpen`) which rests on a picture being sealed exactly
if its split is (`SealedSplit`); and that a list of pins that is no stage of the sealed split
holds no sealed pin (`StageIsOpen`), of which only stages of other splits are ever left
(`StagesInv`, `TodoInv`). `ReadingKept` follows from `GateInv`: what saves under a sealed name
got past a gate that found no reading, and nothing else writes there. `PinnedScored` says that a
result was taken on the whole corpus in the bytes of its pins; `LoadInv` says how that comes
about while a run loads (a stage is still to come, or each of its pins is there or about to be),
`CoverInv` that it stays so until the result is saved.

**Documents.** `GreenMeansChecked` is a fact about the check that needs the invariant only for the
shape of results: a committed one has a row, or says that there is none, for every arm
(`ArmsInv`), so that no measurement can be taken for a blank cell or for prose
(`MeasuredIsNumber`). `QuotesAreMeasured` holds of the two checks alone, in any state.

### Assumptions

The named `ASSUME`s of the modules, which TLC evaluates in the runs. Those that say more than types:

- pools: the encoder is a function of the image and its hash is no sentinel (`None`, `Zero`,
  `Null`, `Hole`); faulty images are valid ones; there is a worker, and in Go finitely many;
- `WireFormat`: the fields of `Tunables` have the types and ranges of `constants.rs`, tiers are
  at most `MAX_TIER`, and the merged order is a permutation of the codes (`MergedAssumption`),
  which `interleaved_order` computes from two selections and which is not modelled;
- `TsDecode`: a base raster has more than 28 places, as 32 by 2 has (`SelectionAssumption`), and a power
  of 2 is a positive number (`PowersAssumption`), which the provers do not know;
- `Refine`: levels are strictly rising and the middle one is 0; a coefficient at a dead frequency
  is 0 (`dct.rs`); and `ScaleAssumption`, that scales are on the linear grid, as shipped: with
  `scale_mu` set the theorem would be false (section 5);
- `Pool`: a value of the map is not the hole of a fresh array; at least one permit;
- `Harness`: the outcomes that are no hash (crash, silence, none) are not hashes;
- `Benchmark`: sentences quote a file of stages, and only tables 7 and 8 have a row for a target
  (`RowsAssumption`);
- `Statistics`: what is drawn of a sample of n are at least as many n-tuples of its places as a
  resampling takes (`DrawsAssumption`); `Analysis`: a row has every series, with a score or `Null` for each image,
  `Null` is neither a number nor an interval, a declared rise is a number or `Null`, and there are
  draws for every number of images (`ScoredAssumption`), and a spectral score comes with its grid
  (`GridsAssumption`: `spuriousDetail` returns both, and `NULL_SPURIOUS` neither), on which only
  `OneGrid` rests;
- `Corpus`: a Kodak picture has no declared split, as the code has one table for each; and
  `ListsAssumption`, that lists label their pictures with their own prefixes, on which only
  `PinnedScored` rests; `Sweep`: commands are finitely many and one name is one tool and corpus;
  `Experiments`: a ratio has an arm beside its base.

### Only model-checked

- Liveness under fairness, and `ENABLED`, are out of the prover's reach: `DropEnds`, `CallsEnd`,
  `ReportEnds`, `RunsEnd`, and the fair half of `RustBatch!Refines`.
- Of `TestsAgree`, that a comparison turned around says the opposite and that strata are the same
  images for every arm; of `NothingInvented`, the spectrum: that an ideal low-pass has no
  spurious energy is a fact about sums over sets (`FoldSet`), which the provers cannot open.
  (`BlurDoesNotRing` needs no such sum: it asks of a sample only that it lies between two of its
  pixels, as every average of them does.)
- `ColumnsAreHonest`, `CodesAreReal` and `GatesHold` hold one computation against another over
  bounded inputs, mostly folds over data.
  The library's induction theorems take an operator as a parameter, which the installed provers
  cannot instantiate; where a proof above needed what a recursive function computes, it went
  through least numbers instead. No module has a RECURSIVE operator, so that more can follow.

## 5. Findings

1. `csharp/src/Chromahash/BatchEncoder.cs:109` computes the expected length in unchecked
   32-bit arithmetic. An item that equals it only modulo 2^32 passes, the encoder throws on the
   worker, and the process ends; lines 86-89 promise an exception on the calling thread.
2. `cmp/main.ts:651` removes and refills `output/images` in default and `--versions` mode alike;
   line 131 says that runs never clobber each other. A `--versions` report takes away the
   pictures that `output/report.html` goes on naming.

### Disagreements met on the way, without a run

Codec. `rust/src/decode.rs:336` reads alpha AC codes whatever `trunc_bytes` is, where
`constants.rs:616` says that every AC code past it is the centre code. `encode.rs:1095`
(`refine_codes`) reads scale codes on the linear grid, where encoder and decoder use
`dequantize_scale`, which is companded when `scale_mu` is set; lines 1086 and on hard-code 7-bit DC
codes, while their width is an option. Shipped settings are affected by neither.

Scores. `cmp/metrics/iqa.ts:122`: with `--allow-missing-iqa` the banner is not captured, so
entries are shared by all binaries, against line 230; other runs are not affected, which
`ScoresGenuine` shows. Means are over the images, or backdrops, that have a score: two arms,
or a gate and its baseline, may be compared over different ones.

Report. `report.ts:675` titles every format without a shape "carries no shape of its own", also one
that merely has no result, against `report-layout.ts:54-59`. `report.ts:912` shows a row that
errored as a failure, against `types.ts:383`. A mismatch whose preview does not decode is
dropped from the verdict (`main.ts:811`). `--formats webp` selects one of the codec's columns.
`main.ts:161` takes `--versions v0.5,v0.5` as it is and gives two columns one name, which
lines 461-462 say corrupts the statistics; the model keeps the repeat (`OrderVersions`), and no
command line of the `report` run has one.

Budgets and readings. `printGuardSummary` words "tie, loses guards" as a win; `rd-budget.ts:476` says
that "sweep" means a lead on every metric, where the code asks for the lead on one and no loss
on the guards. `stratify-core.ts:48` says that the remainder goes to the later bins, and
`floor(rank * k / n)` gives it to the earlier ones. `arms-core.ts` applies the allowance of a base
of zero to every rising metric, which its comment gives to two. `--tolerance abc` of `rd-gate.ts`
passes everything.

Checks. `verify-claims.ts:785` says that the document is gated, but registered claims cite cells
that no gate checks. In `verify-benchmark-core.ts:93` a row that no run probed passes as unbound
with a number or TBD and fails with a marker; missing tables are only skipped; a stage recording
killed between its two writes leaves a column with no revision that is not dirty. `rd-budget.ts:379`
swallows a scorer's failure with the adapter's own. Provenance is captured when the corpus is
there, which may be after the tree has moved on from the build.

## 6. Plan

Done: three pools and `BatchSpec`, the wire format with both decoders, the search over codes, the
report and its harness, the cache and all that is scored through it, the analysis of sweeps, the
corpus with its seal, the two documents and their checks; the proofs of section 4. Next:

1. Proofs: lemmas of `RdBudget` that hold for every mean (a verdict without a loss).
2. `SwiftBatch`, the fourth pool against `BatchSpec`: operations, a locked array, overlapping calls.
3. `Handles`: ownership across the C binding, with the callers in Go and C#.
4. `Selection`: the bound of 2^53 of `selection_key` in other languages, prefixes long enough for
   every tier; `interleaved_order`, which gives `WireFormat` its permutation.

New runs stay few: a module is worth one question, and one that can share an instance with
another should.

## 7. Not modelled

Floating-point numerics (transform, rendering, colour, companding, SIMD): TLA+ has nothing to say
about rounding, and the repository holds them to vectors bit by bit. The content of images and
hashes. The Swift pool and the handles of the C binding (planned). Bindings, packages and command
lines without state. HTML, wording and layout of what is printed. CI and releases, which are
declarative. `metric-selftest.ts`, which is itself a test of the metrics.

In the modelled parts: `Dispose` of the C# encoder while a call runs and `Close` of the Go one
from another goroutine (outside their contracts), memory exhaustion, the rest of the quantiser
(chroma-from-luma gains, alpha, band gains, windows, `refine_grid` 1),
`CHROMAHASH_METRIC_CACHE=off`, which only skips the cache. Of the benchmark: `--section`, the
stages that each table must list, the provenance of single fields of a decode cell, and
`benchmark.py`, which times programs one after the other. Of the document checks: finding a table
by heading and a column by name, the arithmetic of cells, and the regular expressions of figures.
