------------------------------- MODULE Lineup -------------------------------
(***************************************************************************)
(* tools/comparison/src: the columns of a report (main.ts, rd/lineup.ts,   *)
(* version-builds.ts). A column is known by its name, a sequence of words: *)
(* results are found again by name, so two columns of one name would count *)
(* every picture twice.                                                    *)
(***************************************************************************)
EXTENDS Naturals, Sequences, SequencesExt, TLC

CONSTANT Releases       \* the released tags, newest first

Tiers == 0 .. 4
TierBytes == <<21, 32, 108, 411, 1623>>         \* of tier 0 and up
DefaultTier == 1
CodecFloorBytes == [webp |-> 48, avif |-> 470]
CodecLabel == [webp |-> "WebP", avif |-> "AVIF", jpeg |-> "JPEG", jxl |-> "JXL"]

Words(names) == [k \in DOMAIN names |-> <<names[k]>>]
ChromaHashLabel(tier) == <<"ChromaHash", "t" \o ToString(tier)>>
TierLabels == [k \in DOMAIN TierBytes |-> ChromaHashLabel(k - 1)]
AtSize(family, size) == family \o "@" \o ToString(size)
Sized(family, sizes) == [k \in DOMAIN sizes |-> <<AtSize(family, sizes[k])>>]

\* Mutant: a floor for each anchor that the codec does not reach.
CodecColumnsEach(codec) ==
  LET Reached(b) == b >= CodecFloorBytes[codec] IN
  [k \in DOMAIN SelectSeq(TierBytes, LAMBDA b : ~Reached(b)) |-> <<CodecLabel[codec], "(min)">>]
    \o Sized(CodecLabel[codec], SelectSeq(TierBytes, Reached))

\* One floor for all anchors that the codec does not reach, and a column for each other.
CodecColumns(codec) ==
  LET Reached(b) == b >= CodecFloorBytes[codec] IN
  <<<<CodecLabel[codec], "(min)">>>> \o Sized(CodecLabel[codec], SelectSeq(TierBytes, Reached))

\* The default mode. Only a binary that can render has the native row.
Standard(o) ==
  TierLabels
    \o (IF o.renders THEN <<ChromaHashLabel(DefaultTier) \o <<"native", "render">>>> ELSE <<>>)
    \o Words(<<"ThumbHash", "BlurHash", "lqip-modern", "unpic">>)
    \o (IF o.skipCodecs THEN <<>> ELSE CodecColumns("webp") \o CodecColumns("avif"))

\* toLowerCase. Every other word of a name of this mode is in lower case as it is.
Spelling == [ChromaHash |-> "chromahash", ThumbHash |-> "thumbhash", BlurHash |-> "blurhash",
             WebP |-> "webp", AVIF |-> "avif"]
LowerPairs ==
  {<<f, Spelling[f]>> : f \in DOMAIN Spelling}
    \cup {<<AtSize(f, b), AtSize(Spelling[f], b)>> : f \in DOMAIN Spelling, b \in ToSet(TierBytes)}
LowerWord == [word \in {p[1] : p \in LowerPairs} |-> (CHOOSE p \in LowerPairs : p[1] = word)[2]]
Lower(name) ==
  [k \in DOMAIN name |-> IF name[k] \in DOMAIN LowerWord THEN LowerWord[name[k]] ELSE name[k]]

\* --formats: a whole name, or the first words of one, in upper or lower case.
Filtered(names, filters) ==
  IF filters = {} THEN names
  ELSE SelectSeq(names, LAMBDA n : \E f \in filters : IsPrefix(Lower(f), Lower(n)))

\* --rd: each family on its own ladder; v0.6 if its tag builds, JXL if it is there.
RdLineup(o) ==
  TierLabels
    \o (IF "v0.6" \in o.built THEN <<<<"ChromaHash", "v0.6">>>> ELSE <<>>)
    \o Words(<<"ThumbHash">>)
    \o Sized("BlurHash", <<1, 2, 3, 4, 6, 8>>)
    \o Sized("lqip-modern", <<12, 16, 24, 32, 48>>)
    \o Words(<<"unpic">>)
    \o Sized(CodecLabel["webp"], TierBytes) \o Sized(CodecLabel["jpeg"], TierBytes)
    \o Sized(CodecLabel["avif"], TierBytes)
    \o (IF o.jxl THEN Sized(CodecLabel["jxl"], TierBytes) ELSE <<>>)
    \o Sized("RawRGB565", TierBytes)

\* In the order asked for. A version that does not build is left out; one that is
\* asked for twice is there twice.
PrepareVersionBinaries(o) == SelectSeq(o.versions, LAMBDA v : v \in o.built)

\* The working tree first, then the tags from the newest on.
OrderVersions(o) ==
  LET order == <<"current">> \o Releases IN
  FlattenSeq([k \in DOMAIN order |-> SelectSeq(PrepareVersionBinaries(o), LAMBDA v : v = order[k])])

-----------------------------------------------------------------------------
FormatNames ==
  TierLabels \o Words(<<"ChromaHash", "ThumbHash", "BlurHash", "lqip-modern", "unpic">>)

Adapters(o) ==
  CASE o.rd              -> RdLineup(o)
    [] o.versions # <<>> -> Words(OrderVersions(o))
    [] OTHER             -> Filtered(Standard(o), o.formats)

\* activeFormatNames: the columns in canonical order, and after them the rest.
Columns(o) ==
  LET a == Adapters(o) IN
  IF o.rd \/ o.versions # <<>> THEN a
  ELSE SelectSeq(FormatNames, LAMBDA n : n \in ToSet(a))
         \o SelectSeq(a, LAMBDA n : n \notin ToSet(FormatNames))

SkipHarnesses(o) == o.skip \/ o.versions # <<>> \/ o.rd

\* What ends a run before it scores anything. A tag has no tiers: its column would
\* stay at 32 bytes beside a larger one.
Refuses(o) ==
  \/ o.rd /\ o.versions # <<>>
  \/ o.jobs = 0
  \/ o.tier \notin Tiers
  \/ ~o.rd /\ o.tier # DefaultTier /\ ToSet(o.versions) \ {"current"} # {}
  \/ Adapters(o) = <<>>

=============================================================================
