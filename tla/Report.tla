------------------------------- MODULE Report -------------------------------
(***************************************************************************)
(* tools/comparison/src/main.ts, the cross-format report: it builds the    *)
(* harnesses, maps the images to entries with module Pool, and writes what *)
(* it found. The function that it maps is fn of Pool; what it resolves to  *)
(* is an entry: the columns that have a result, and the rows of module     *)
(* Harness. A worker touches nothing of another image, so all that it does *)
(* between two entries of the semaphore is in the step that ends it.       *)
(***************************************************************************)
EXTENDS Pool, Harness, Lineup

CONSTANTS
  Options,    \* the command lines, each with what is installed and builds
  Outcomes,   \* what the harnesses may do, by image: sets of functions of a language
  Lost,       \* sets of decodes that may fail, by image
  Gone,       \* sets of columns that an adapter may fail to give, by image
  Broken      \* sets of build steps that may fail

VARIABLES
  options,
  stage,      \* "start", "score", "images", "json", "html", "written" or "exited"
  unavailable,
  entries,    \* by image, once its worker is through with it
  files       \* what is in output/, by path: "old", "torn" or "new"

reportVars == <<vars, options, stage, unavailable, entries, files>>

\* activeFormatNames, once for each command line.
ActiveFormatNames == [o \in Options |-> Columns(o)]
ActiveFormats == [o \in Options |-> ToSet(ActiveFormatNames[o])]

Refused == {o \in Options : Refuses(o)}

NoEntry == [done |-> FALSE, ran |-> <<>>, formats |-> {}, rows |-> <<>>]
Output == {"images", "json", "html"}

\* Each mode has names of its own for the two pages; a directory of pictures, --rd only.
Modes == {"standard", "versions", "rd"}
Mode(o) == IF o.rd THEN "rd" ELSE IF o.versions # <<>> THEN "versions" ELSE "standard"
PathOf(mode, f) == <<IF f = "images" /\ mode # "rd" THEN "standard" ELSE mode, f>>

ReportInit ==
  /\ Init
  /\ options \in Options
  /\ stage = "start" /\ unavailable = {}
  /\ entries = [i \in 1 .. N |-> NoEntry]
  /\ files = [p \in Modes \X Output |-> "old"]

-----------------------------------------------------------------------------
(* Before the images *)

Exit == stage' = "exited" /\ UNCHANGED <<vars, options, unavailable, entries, files>>

\* A bad command line, a fixture that cannot be had, no image, or no iqa-cli.
Refuse == stage = "start" /\ options \in Refused /\ Exit

BuildHarnesses ==
  /\ stage = "start" /\ options \notin Refused
  /\ stage' = "score"
  /\ IF SkipHarnesses(options) THEN unavailable' = Languages      \* none is run
     ELSE \E failed \in Broken : unavailable' = Unavailable(failed)
  /\ UNCHANGED <<vars, options, entries, files>>

-----------------------------------------------------------------------------
(* The images *)

Entry(ran, lost, gone) ==
  [done |-> TRUE, ran |-> ran, formats |-> ActiveFormats[options] \ gone,
   rows |-> RunAllHarnesses(ran, lost)]

Restricted(ran) == [l \in Harnesses(unavailable) |-> ran[l]]

\* An adapter that fails loses its column; a metric that fails is a Reject.
Scored(w) ==
  /\ stage = "score"
  /\ Resolve(w)
  /\ \E ran \in Outcomes[item[w]], lost \in Lost[item[w]], gone \in Gone[item[w]] :
       entries' = [entries EXCEPT ![item[w]] = Entry(Restricted(ran), lost, gone)]
  /\ UNCHANGED <<options, stage, unavailable, files>>

Working(w) ==
  /\ stage = "score"
  /\ Reject(w) \/ Acquire(w) \/ Enter(w) \/ Leave(w) \/ Throw(w)
  /\ UNCHANGED <<options, stage, unavailable, entries, files>>

Settled ==
  /\ stage = "score" /\ Settle
  /\ stage' = IF outcome' = "resolved" THEN "images" ELSE "exited"
  /\ UNCHANGED <<options, unavailable, entries, files>>

-----------------------------------------------------------------------------
(* The report *)

After == [images |-> "json", json |-> "html", html |-> "written"]

\* The directory is removed and filled again; then report.json, then report.html.
Publish(f) ==
  /\ stage = f
  /\ files' = [files EXCEPT ![PathOf(Mode(options), f)] = "new"]
  /\ stage' = After[f]
  /\ UNCHANGED <<vars, options, unavailable, entries>>

\* A write fails and ends the run, or the run is killed, with a file half written.
Interrupted(f) ==
  /\ stage = f
  /\ files' = [files EXCEPT ![PathOf(Mode(options), f)] = "torn"]
  /\ stage' = "exited"
  /\ UNCHANGED <<vars, options, unavailable, entries>>

-----------------------------------------------------------------------------
Over == stage \in {"written", "exited"}

ReportNext ==
  \/ Refuse \/ BuildHarnesses \/ Settled
  \/ \E w \in Workers : Scored(w) \/ Working(w)
  \/ \E f \in Output : Publish(f) \/ Interrupted(f)
  \/ Over /\ UNCHANGED reportVars

\* The event loop takes the turns that are due, and a process ends by itself or
\* by its timeout.
ReportSpec ==
  /\ ReportInit /\ [][ReportNext]_reportVars
  /\ WF_reportVars(BuildHarnesses) /\ WF_reportVars(Refuse) /\ WF_reportVars(Settled)
  /\ \A w \in Workers : WF_reportVars(Scored(w) \/ Working(w))
  /\ \A f \in Output : WF_reportVars(Publish(f))

-----------------------------------------------------------------------------
(* Type invariant: the map's, and the shape of the entries and the files.      *)
ReportTypeOK ==
  /\ TypeOK
  /\ options \in Options
  /\ stage \in Output \cup {"start", "score", "written", "exited"}
  /\ unavailable \subseteq Languages
  /\ \A i \in 1 .. N : /\ DOMAIN entries[i].ran \subseteq Languages
                       /\ DOMAIN entries[i].rows = DOMAIN entries[i].ran
                       /\ entries[i].formats \subseteq ActiveFormats[options]
  /\ files \in [Modes \X Output -> {"old", "torn", "new"}]

Rows == [i \in 1 .. N |-> entries[i].rows]

Bytes(i, l) == IF l \in DOMAIN entries[i].ran THEN Encoded(entries[i].ran[l]).hash ELSE NoHash
Agree(i, l) == Bytes(i, l) # NoHash /\ Bytes(i, l) = Bytes(i, Reference)
Differ(i, l) == NoHash \notin {Bytes(i, l), Bytes(i, Reference)} /\ Bytes(i, l) # Bytes(i, Reference)

(* "Only an observed byte difference is a FAIL": a language fails only if on some  *)
(* image it and Rust both gave bytes and they differ, passes only if on some image *)
(* they were equal, and has no verdict otherwise, whatever did not build, crashed, *)
(* fell silent or was not decoded; the three places that say so agree, and every   *)
(* preview shows the hash it stands beside.                                        *)
VerdictObserved ==
  stage \in Output \cup {"written"} =>
    \A l \in Languages :
      LET v == CrossLanguage(Rows, l) IN
      /\ v = "fail" => \E i \in 1 .. N : Differ(i, l)
      /\ v = "pass" => \E i \in 1 .. N : Agree(i, l)
      /\ v = "null" <=> LangPassFail(Rows)[l] = "N/A"
      /\ v = "pass" <=> LangPassFail(Rows)[l] = "PASS"
      /\ l \in DOMAIN Printed(Rows) => Printed(Rows)[l] = LangPassFail(Rows)[l]
      /\ \A i \in Ran(Rows, l) :
           Rows[i][l].preview # NoHash => Rows[i][l].preview = Bytes(i, l)

(* A report is of a run that lost nothing: every image has an entry of its own,    *)
(* the pictures it shows are this run's, no two columns have one name, and a page  *)
(* is never newer than the numbers behind it.                                      *)
ReportWhole ==
  LET At(f) == files[PathOf(Mode(options), f)] IN
  /\ (\E f \in Output : At(f) # "old") =>
       outcome = "resolved" /\ \A i \in 1 .. N : entries[i].done
  /\ At("json") = "new" => At("images") = "new"
  /\ At("html") = "new" => At("json") = "new"
  /\ stage # "exited" /\ stage # "start" => IsInjective(ActiveFormatNames[options])

(* A report ends: it is written, or the run ends for a reason.                     *)
ReportEnds == <>Over

(* "Each mode gets its own default report name so runs never clobber each other":  *)
(* the page of another mode, which this run does not write, keeps its pictures.     *)
NothingClobbered ==
  \A m \in Modes \ {Mode(options)} :
    files[PathOf(m, "html")] = "old" => files[PathOf(m, "images")] = "old"
=============================================================================
