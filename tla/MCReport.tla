------------------------------ MODULE MCReport ------------------------------
(* Instances of Report for TLC: four images, three workers that share one      *)
(* permit, and two languages. On the first image anything may happen, on the   *)
(* second the languages agree or differ, and on the rest nothing does.         *)
EXTENDS Report

CONSTANT hole

MCValue == [i \in 1 .. N |-> <<"result of", i>>]

MCBuildSteps == {"Rust", "C (lib)", "C (harness)", "gamut-ref"}
MCProduces == [s \in MCBuildSteps |->
  CASE s = "Rust" -> "Rust" [] s = "gamut-ref" -> "none" [] OTHER -> "C"]

Agreeing == [l \in Languages |-> "x"]
MCOutcomes == [i \in 1 .. N |->
  CASE i = 1 -> [Languages -> {"x", "y", Crash, Silence}]
    [] i = 2 -> {Agreeing, [Agreeing EXCEPT !["C"] = "y"]}
    [] OTHER -> {Agreeing}]
MCLost == [i \in 1 .. N |->
  IF i = 1 THEN {{}, {"C"}, {SharedPreview}, {SharedPreview, "Rust"}} ELSE {{}}]
MCBroken == {{}, {"Rust"}, {"C (lib)"}, {"gamut-ref", "C (harness)"}}
MCGone == [i \in 1 .. N |-> IF i = 2 THEN {{}, {<<"unpic">>}} ELSE {{}}]

Default == [rd |-> FALSE, versions |-> <<>>, tier |-> 1, jobs |-> Limit, formats |-> {},
            renders |-> TRUE, skipCodecs |-> FALSE, jxl |-> TRUE, skip |-> FALSE,
            built |-> {"current", "v0.6"}]
MCReleases == <<"v0.6", "v0.5">>
\* No version is asked for twice: its two columns would have one name, and nothing of
\* what the page says of a name would hold. Filters are typed in either case; the last
\* one matches nothing.
MCOptions ==
  {Default,
   [Default EXCEPT !.rd = TRUE],
   [Default EXCEPT !.versions = <<"v0.5", "v0.6", "current">>],
   [Default EXCEPT !.versions = <<"v0.6", "current">>, !.tier = 3],
   [Default EXCEPT !.versions = <<"v0.5">>],
   [Default EXCEPT !.rd = TRUE, !.versions = <<"current">>],
   [Default EXCEPT !.tier = 5],
   [Default EXCEPT !.jobs = 0],
   [Default EXCEPT !.formats = {<<"webp">>}],
   [Default EXCEPT !.formats = {<<"WebP@411">>, <<"chromahash">>}],
   [Default EXCEPT !.formats = {<<"jpeg">>}]}
=============================================================================
