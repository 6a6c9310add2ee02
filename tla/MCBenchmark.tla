---------------------------- MODULE MCBenchmark ----------------------------
(* Sweeps of a Mac and of a Linux host: in full and bounded, of one commit and *)
(* another, clean and not, quick, of two targets alone, by a driver of before,  *)
(* with a target that fails its probe, and with times that drift.               *)
EXTENDS Benchmark, TLC

AllOk == [t \in Targets |-> "ok"]
Linux == [AllOk EXCEPT !["Swift"] = "ENOENT"]
Failing == [AllOk EXCEPT !["Swift"] = "exit"]
NoRust == [AllOk EXCEPT !["Rust"] = "ENOENT"]

(* A pilot caught cold, blocks that run short and are measured again; a cell    *)
(* over its budget; one whose second measurement fails.                         *)
Odd ==
  (EncodeId("Kotlin", 2, 100, "gradient", "-")
     :> [pilot |-> <<4000>>, first |-> <<130, 160, 150>>, again |-> <<104, 101>>])
  @@ (EncodeId("Rust", 4, 100, "gradient", "-")
     :> [pilot |-> <<MaxCell + 1>>, first |-> <<>>, again |-> <<>>])
  @@ (BatchId("Go", "auto") :> [pilot |-> <<4000>>, first |-> <<100>>, again |-> Died])

Sweep(host, mode, pace) ==
  [host |-> host, full |-> mode = "full", quick |-> mode = "quick", impls |-> Targets,
   pace |-> pace, odd |-> Odd, commit |-> "c1", dirty |-> FALSE, cpu |-> "m3", era |-> "now"]

MCSweeps ==
  [full |-> Sweep(AllOk, "full", 100),
   mac |-> Sweep(AllOk, "bounded", 104),
   linux |-> Sweep(Linux, "bounded", 108),
   drifted |-> [Sweep(Linux, "bounded", 112) EXCEPT !.commit = "c2"],
   failing |-> [Sweep(Failing, "bounded", 104) EXCEPT !.impls = {"Rust", "Swift"}],
   dirty |-> [Sweep(Linux, "quick", 104) EXCEPT !.dirty = TRUE],
   before |-> [Sweep(Linux, "bounded", 104) EXCEPT !.era = "unclassified"],
   norust |-> Sweep(NoRust, "bounded", 104)]
MCReleased ==
  {<<"none", "linux", "none">>, <<"full", "linux", "mac">>, <<"none", "linux", "drifted">>}

Row(table, name, n, tier) == [table |-> table, name |-> name, n |-> n, tier |-> tier]
SwiftRow == Row("7", "Swift", 0, 0)
PureRow == Row("7", "TypeScript-pure", 0, 0)
TierRow == Row("2", "-", 0, 1)

MCRows ==
  {Row("1", "-", 0, 0), Row("1.1", "-", 0, 0), Row("prose", "encode", 0, 0), Row("prose", "decode", 0, 0),
   TierRow, Row("2", "-", 0, 4), Row("2-capped", "-", 0, 4), Row("3", "-", 256, 1),
   Row("4", "refine_passes=1", 0, 0), Row("4-sizes", "dct_separable", 0, 0), Row("5", "-", 512, 0),
   Row("6", "-", 512, 0), Row("12.4-tier-1", "refine_passes=1+accel_sse_early_exit", 0, 0),
   Row("12.4-tier-4", "shipped", 0, 0), Row("12.4-tier-4", "accel-all", 0, 0),
   Row("12.4-decode", "accel-all", 0, 0), SwiftRow, PureRow,
   Row("7", "Kotlin", 0, 0), Row("8", "Go", 0, 0), Row("8", "Swift", 0, 0)}
MCEdited == {<<SwiftRow, <<"encode", 1>>>>}
MCBuilds == {[rev |-> "c1", dirty |-> FALSE, share |-> 20], [rev |-> "c2", dirty |-> TRUE, share |-> 30]}
=============================================================================
