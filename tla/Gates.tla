------------------------------- MODULE Gates --------------------------------
(***************************************************************************)
(* tools/comparison/src/determinism-check.ts and rd-gate.ts: the two jobs  *)
(* that hold a build against what was committed, a sweep and a baseline.   *)
(* A mean is <<sum, count>>.                                               *)
(***************************************************************************)
EXTENDS Integers, Sequences, FiniteSets, SequencesExt

CONSTANTS
  Null,       \* what was not measured
  Near,       \* REPRODUCTION_REL: a value may be off by one part in so many
  Percent     \* DEFAULT_TOLERANCE_PCT

Magnitude(x) == IF x < 0 THEN 0 - x ELSE x

-----------------------------------------------------------------------------
(* determinism-check.ts: a result is [names, rows], a row [label, perImage] *)

\* canonical: what differs between any two runs is left out.
Volatile == {"generatedAt", "commit", "preview", "css"}
Canonical(report) == [field \in DOMAIN report \ Volatile |-> report[field]]

NoResult == <<>>

\* What is nearer than a part of the committed value, or of one, reproduces it.
Reproduces(mine, theirs) ==
  IF mine = Null \/ theirs = Null THEN mine = theirs
  ELSE Near * Magnitude(mine - theirs) <= (IF Magnitude(theirs) > 1 THEN Magnitude(theirs) ELSE 1)

\* Labels are found from the start; an index of names keeps the last place.
FirstAt(s, x) == CHOOSE i \in DOMAIN s : s[i] = x /\ \A k \in 1 .. i - 1 : s[k] # x
LastAt(s, x) == CHOOSE i \in DOMAIN s : s[i] = x /\ \A k \in i + 1 .. Len(s) : s[k] # x
Labels(result) == [i \in DOMAIN result.rows |-> result.rows[i].label]

\* Mutant: a value is compared with the one in its own place.
InPlace(mine, theirs, run, committed) ==
  {i \in DOMAIN run.names : i \notin DOMAIN theirs \/ ~Reproduces(mine[i], theirs[i])}

\* The places of a series that the committed series of that name does not bear out.
Differing(mine, theirs, run, committed) ==
  {i \in DOMAIN run.names :
     IF run.names[i] \in Range(committed.names)
       THEN ~Reproduces(mine[i], theirs[LastAt(committed.names, run.names[i])])
       ELSE TRUE}

\* Series that one side lacks, and values of those that both have.
Shared(row, twin) == DOMAIN row.perImage \cap DOMAIN twin.perImage
RowErrors(row, twin, run, committed) ==
  {<<row.label, key>> : key \in (DOMAIN row.perImage \cup DOMAIN twin.perImage) \ Shared(row, twin)}
  \cup
  UNION {{<<row.label, key, i>> : i \in Differing(row.perImage[key], twin.perImage[key], run, committed)} :
           key \in Shared(row, twin)}

\* reproductionErrors: arms are matched by label, either way round.
ReproductionErrors(run, committed) ==
  {<<label>> : label \in (Range(Labels(run)) \ Range(Labels(committed)))
                           \cup (Range(Labels(committed)) \ Range(Labels(run)))}
  \cup
  UNION {RowErrors(row, committed.rows[FirstAt(Labels(committed), row.label)], run, committed) :
           row \in {r \in Range(run.rows) : r.label \in Range(Labels(committed))}}

\* main: what it ends with. A run that fails throws.
CheckSweep(committed, first, second) ==
  IF committed = NoResult THEN "nothing to reproduce"
  ELSE IF first = NoResult \/ second = NoResult THEN "thrown"
  ELSE IF first # second THEN "two sweeps differ"
  ELSE IF ReproductionErrors(first, committed) # {} THEN "not reproduced"
  ELSE "green"

CheckDeterminism(built, serial, parallel, committed, first, second) ==
  IF ~built THEN "not built"
  ELSE IF serial = NoResult \/ parallel = NoResult THEN "thrown"
  ELSE IF Canonical(serial) # Canonical(parallel) THEN "reports differ"
  ELSE CheckSweep(committed, first, second)

-----------------------------------------------------------------------------
(* rd-gate.ts: the scores of the gate's images, by label *)

NoBaseline == <<>>
NotANumber == 0 - 1

\* measure throws for a hash of another length and for a score that is none.
Measurable(scored) ==
  \A label \in DOMAIN scored : scored[label].bytes = 32 /\ scored[label].ciede # Null

MeanOf(scored) ==
  <<FoldSet(LAMBDA label, sum : sum + scored[label].ciede, 0, DOMAIN scored), Cardinality(DOMAIN scored)>>

\* --update writes what was measured, with the tolerance that ships.
Updated(scored) == [tolerance |-> Percent, images |-> scored, mean |-> MeanOf(scored)]

\* parseFloat of --tolerance, or the baseline's: no delta is past what is no number.
ToleranceOf(baseline, given) == IF given = Null THEN baseline.tolerance ELSE given

\* What the mean has moved by and may move by, both times the same denominator.
Delta(mean, base) == 100 * (mean[1] * base[2] - base[1] * mean[2])
Allowed(mean, base, tolerance) == tolerance * base[1] * mean[2]
Risen(mean, base, tolerance) ==
  tolerance # NotANumber /\ Delta(mean, base) > Allowed(mean, base, tolerance)
Fallen(mean, base, tolerance) ==
  tolerance # NotANumber /\ Delta(mean, base) < 0 - Allowed(mean, base, tolerance)

\* Mutant: only a loss of quality fails.
OneSided(baseline, scored, given) ==
  IF baseline = NoBaseline THEN "no baseline"
  ELSE IF DOMAIN baseline.images \ DOMAIN scored # {} THEN "not measured"
  ELSE IF Risen(MeanOf(scored), baseline.mean, ToleranceOf(baseline, given)) THEN "regressed"
  ELSE "pass"

\* The check: two-sided, and of every image that the baseline has.
Judged(baseline, scored, given) ==
  IF baseline = NoBaseline THEN "no baseline"
  ELSE IF DOMAIN baseline.images \ DOMAIN scored # {} THEN "not measured"
  ELSE IF Risen(MeanOf(scored), baseline.mean, ToleranceOf(baseline, given)) THEN "regressed"
  ELSE IF Fallen(MeanOf(scored), baseline.mean, ToleranceOf(baseline, given)) THEN "improved"
  ELSE "pass"

\* main: [verdict, baseline].
RdGate(update, given, scored, baseline) ==
  IF ~Measurable(scored) THEN [verdict |-> "thrown", baseline |-> baseline]
  ELSE IF update THEN [verdict |-> "written", baseline |-> Updated(scored)]
  ELSE [verdict |-> Judged(baseline, scored, given), baseline |-> baseline]
=============================================================================
