------------------------------ MODULE Comparer ------------------------------
(***************************************************************************)
(* Whether a release may replace the film of a movie, and how well it      *)
(* would do (core/comparer.py, compare_release; core/media_health.py;      *)
(* the ranks of core/parser.py).                                           *)
(*                                                                         *)
(* A release is what its title says (the parsing of titles is data here):  *)
(*   size (MB), resolution (rank 0..4), codec (rank), source, hdr, audio   *)
(*   (tokens), languages (with "multi" for a dual or multi audio title),   *)
(*   marks (dual, multi, hardsub, upscaled, foreign, proper, repack),      *)
(*   group, uploader (health, 0..100), age (days, or NoAge), yearOff,      *)
(*   match (title match, 0..100).                                          *)
(* A local film is the row of the movie: size, resolution, codec, source,  *)
(*   bitrate (kbit/s).                                                     *)
(* A policy is the quality policy of the movie and the section comparison  *)
(*   of the configuration.                                                 *)
(* Scores are in hundredths; a quotient is rounded down.                   *)
(***************************************************************************)
EXTENDS Integers, FiniteSets

NoAge == -1

AtLeast(n, x) == IF x < n THEN n ELSE x
AtMost(n, x)  == IF x > n THEN n ELSE x
Clamped(x)    == AtLeast(0, AtMost(10000, x))

-----------------------------------------------------------------------------
(* Ranks and health                                                        *)
Ranked == [cam |-> 5, hdcam |-> 8, ts |-> 10, hdts |-> 12, telecine |-> 20, dvdrip |-> 35,
           hdtv |-> 45, webrip |-> 60, webdl |-> 75, bluray |-> 85, remux |-> 95]
SourceRank(s) == IF s \in DOMAIN Ranked THEN Ranked[s] ELSE 50

Scored == [remux |-> 100, bluray |-> 88, webdl |-> 78, webrip |-> 64, hdtv |-> 45, dvdrip |-> 30,
           telecine |-> 20, hdts |-> 12, ts |-> 10, hdcam |-> 8, cam |-> 5]
SourceScore(s) == IF s \in DOMAIN Scored THEN Scored[s] ELSE 55

LowQuality == {"cam", "ts", "hdts", "hdcam", "telecine"}

(* Below the least plausible size of the resolution.                       *)
Suspicious(r) ==
  CASE r.resolution = 4 -> r.size < 2500
    [] r.resolution = 3 -> r.size < 700
    [] r.resolution = 2 -> r.size < 350
    [] OTHER            -> r.size > 0 /\ r.size < 200

DolbyVision(r) == r.hdr \in {"dv", "dv+hdr"}

ReleaseHealth(r) ==
  Clamped(5000 + (r.resolution - 2) * 800
    + (SourceRank(r.source) - 50) * 45 + (r.codec - 50) * 12 + (r.uploader - 50) * 12
    + (IF r.source \in LowQuality THEN -4500
       ELSE IF r.source \in {"webdl", "bluray", "remux"} THEN 1200 ELSE 0)
    - (IF Suspicious(r) THEN 3500 ELSE 0)
    - (IF r.hdr = "dv" THEN 1800 ELSE 0)
    - (IF "hardsub" \in r.marks THEN 2000 ELSE 0)
    + (IF "proper" \in r.marks THEN 300 ELSE 0) + (IF "repack" \in r.marks THEN 200 ELSE 0))

LocalHealth(l) ==
  Clamped(5500 + (l.resolution - 2) * 1000 + (l.codec - 50) * 10
    + (IF l.source # "none" THEN (SourceRank(l.source) - 50) * 40 ELSE 0)
    - (CASE l.resolution = 2 -> 1800 [] l.resolution = 1 -> 3000 [] OTHER -> 0)
    - (IF l.source \in LowQuality THEN 4500 ELSE 0)
    - (IF l.bitrate > 0 /\ l.resolution = 3 /\ l.bitrate < 2500 THEN 1800 ELSE 0)
    - (IF l.bitrate > 0 /\ l.resolution = 2 /\ l.bitrate < 1400 THEN 1200 ELSE 0)
    - (IF l.size > 0 /\ l.resolution = 3 /\ l.size < 700 THEN 1500 ELSE 0))

(* Rated Risky, or Reject.                                                 *)
Poor(l) == LocalHealth(l) < 5000

-----------------------------------------------------------------------------
(* Sizes                                                                   *)

(* In hundredths of a percent of the size of the local film.               *)
Saved(l, r)  == ((l.size - r.size) * 10000) \div AtLeast(1, l.size)
Growth(l, r) == -Saved(l, r)

(* Prefers what the operator weighed: quality_priorities.                  *)
Factor == [uhd |-> 400, hdr |-> 250, dv |-> 300, atmos |-> 350, truehd |-> 250,
           surround51 |-> 200, surround71 |-> 250]

Features(r) ==
  {f \in DOMAIN Factor :
     CASE f = "uhd" -> r.resolution >= 4
       [] f = "hdr" -> r.hdr \notin {"none", "sdr"}
       [] f = "dv"  -> DolbyVision(r)
       [] f = "truehd" -> r.audio \cap {"truehd", "atmos"} # {}
       [] OTHER -> f \in r.audio}

Weight(r, p, f) == IF f \in Features(r) THEN p.priorities[f] * Factor[f] ELSE 0

Bonus(r, p) ==
  Weight(r, p, "uhd") + Weight(r, p, "hdr") + Weight(r, p, "dv") + Weight(r, p, "atmos")
  + Weight(r, p, "truehd") + Weight(r, p, "surround51") + Weight(r, p, "surround71")

(* candidate_good_upgrade, quality_upgrade_allows_larger                   *)
UpgradeAllows(l, r, p) ==
  /\ p.growPoor /\ Poor(l)
  /\ r.resolution >= AtLeast(3, l.resolution)
  /\ r.source \in {"webdl", "webrip", "bluray", "remux"}
  /\ r.size <= p.growPoorTo
  /\ Growth(l, r) <= p.growPoorBy * 100

Limit(p, usual) == (IF p.maxIncrease = NoAge THEN usual ELSE p.maxIncrease) * 100

(* intent_allows_larger                                                    *)
IntentAllows(l, r, p) ==
  /\ r.size >= l.size /\ p.larger
  /\ r.resolution >= l.resolution /\ SourceRank(r.source) >= SourceRank(l.source)
  /\ \/ p.intent = "balanced" /\ Growth(l, r) <= Limit(p, 15)
     \/ /\ p.intent = "premium" /\ Growth(l, r) <= Limit(p, 80)
        /\ ReleaseHealth(r) >= LocalHealth(l) + 400
     \/ p.intent = "reference" /\ Growth(l, r) <= Limit(p, 300)

(* priority_allows_larger                                                  *)
PriorityAllows(l, r, p) ==
  /\ r.size >= l.size /\ p.larger /\ Bonus(r, p) > 0
  /\ Growth(l, r) <= Limit(p, IF p.intent \in {"premium", "reference"} THEN 80 ELSE 25)
  /\ r.resolution >= l.resolution
  /\ SourceRank(r.source) >= AtLeast(45, SourceRank(l.source) - 10)

MayGrow(l, r, p) == UpgradeAllows(l, r, p) \/ IntentAllows(l, r, p) \/ PriorityAllows(l, r, p)

MinSavings(p) ==
  IF p.intent \in {"premium", "reference"} THEN 0
  ELSE IF p.intent = "balanced" THEN AtMost(5, p.minSavings) ELSE p.minSavings

(* Smaller, unless it may be larger; the floor of a NAS holds for all.     *)
SavesEnough(l, r, p) ==
  /\ MayGrow(l, r, p) \/ (r.size < l.size /\ Saved(l, r) >= MinSavings(p) * 100)
  /\ p.nas > 0 => l.size - r.size >= p.nas

-----------------------------------------------------------------------------
(* What makes a release acceptable whatever its savings                    *)
VideoAllowed(r, p) ==
  /\ DolbyVision(r) /\ p.avoidDV =>
       p.priorities["dv"] > 0 \/ (r.hdr = "dv+hdr" /\ p.dvFallback)
  /\ ~("hardsub" \in r.marks /\ p.rejectHardsub)
  /\ r.source \notin LowQuality
  /\ p.minSize > 0 => r.size >= p.minSize
  /\ ~Suspicious(r)

Spoken(r) == r.languages \ {"multi"}

LanguageAllowed(r, p) ==
  /\ ~("dual" \in r.marks /\ p.rejectDual) /\ ~("multi" \in r.marks /\ p.rejectMulti)
  /\ p.requireEnglish /\ p.language = "english" =>
       Spoken(r) = {} \/ {"english", "multi"} \cap r.languages # {}
  /\ p.language # "" /\ r.languages # {} => {p.language, "multi"} \cap r.languages # {}
  /\ p.language = "english" /\ r.languages = {} => "foreign" \notin r.marks

Wanted(r, p) == {i \in DOMAIN p.audio : p.audio[i] \in r.audio}

AudioAllowed(r, p) == p.audio # <<>> /\ p.requireAudio => Wanted(r, p) # {}

OriginAllowed(r, p) ==
  /\ r.group \notin p.rejectGroups
  /\ r.age # NoAge /\ p.maxAge > 0 => r.age <= p.maxAge
  /\ p.yearMatch => r.yearOff <= 1
  /\ r.match >= 70
  /\ r.uploader >= 30

ResolutionAllowedSaving(l, r, p) ==
  /\ r.resolution < l.resolution => p.downgrade \/ Saved(l, r) >= p.downgradeSavings * 100
  /\ p.rejectUpscaled /\ "upscaled" \in r.marks => r.resolution < l.resolution
  /\ r.resolution >= p.floor

(* A lower resolution only when downgrades are allowed, and save enough.   *)
ResolutionAllowed(l, r, p) ==
  /\ r.resolution < l.resolution => p.downgrade /\ Saved(l, r) >= p.downgradeSavings * 100
  /\ p.rejectUpscaled /\ "upscaled" \in r.marks => r.resolution < l.resolution
  /\ r.resolution >= p.floor

-----------------------------------------------------------------------------
(* Scores                                                                  *)
CodecScore(l, r) == Clamped(5500 + (r.codec - l.codec) * 1200)

LanguageScore(r, p) ==
  IF r.languages = {} \/ p.language = "" THEN 10000
  ELSE IF p.language \in r.languages
       THEN IF r.languages \subseteq {p.language, "multi"} THEN 9500 ELSE 8000
  ELSE IF "multi" \in r.languages THEN 7000 ELSE 2000

Confidence(l, r, p) ==
  LET size == IF UpgradeAllows(l, r, p) THEN 6000 ELSE Clamped(Saved(l, r) * 2)
      resolution == IF r.resolution = l.resolution THEN 10000
                    ELSE IF r.resolution > l.resolution THEN 9200 ELSE 3000
  IN (size * 20 + CodecScore(l, r) * 11 + resolution * 15 + SourceScore(r.source) * 1200
      + LanguageScore(r, p) * 12 + r.match * 1700 + r.uploader * 600
      + ReleaseHealth(r) * 7) \div 100

(* What is saved, or gained where the film may grow.                       *)
BaseScore(l, r, p) ==
  LET better == ReleaseHealth(r) - LocalHealth(l)
  IN IF UpgradeAllows(l, r, p) THEN 1200 + AtMost(3500, (better * 8) \div 10)
     ELSE IF IntentAllows(l, r, p) THEN 1800 + AtMost(4000, better)
     ELSE IF PriorityAllows(l, r, p) THEN 1600 + AtMost(4500, Bonus(r, p))
     ELSE Saved(l, r)

LanguageBonus(r, p) ==
  IF p.language = "" THEN 0
  ELSE IF r.languages # {} THEN IF r.languages \subseteq {p.language, "multi"} THEN 500 ELSE 200
  ELSE IF p.language = "english" THEN 200 ELSE 0

(* Preferred to the first that the release has.                            *)
Missed(r, p) == {i \in DOMAIN p.audio : \A j \in 1..i : j \notin Wanted(r, p)}

AudioBonus(r, p) ==
  IF p.audio = <<>> THEN 0
  ELSE IF Wanted(r, p) # {} THEN AtLeast(800, 1400 - Cardinality(Missed(r, p)) * 200)
  ELSE IF r.audio # {} THEN -400 ELSE 0

IntentBonus(l, r, p) ==
  LET source == SourceRank(r.source) - SourceRank(l.source)
      better == AtLeast(0, ReleaseHealth(r) - LocalHealth(l))
      hdr    == IF r.hdr # "none" THEN 1 ELSE 0
  IN CASE p.intent = "balanced" -> source * 10 + AtLeast(0, ReleaseHealth(r) - 6000) \div 20
       [] p.intent = "premium"  -> source * 25 + (better * 22) \div 100 + 600 * hdr
       [] p.intent = "reference" -> source * 40 + (better * 30) \div 100 + 800 * hdr
                                    + (IF r.source = "remux" THEN 1200 ELSE 0)
       [] OTHER -> 0

AgeBonus(r, p) ==
  IF r.age = NoAge THEN 0
  ELSE IF r.age > p.staleAge THEN -AtMost(3500, (r.age - p.staleAge) * 10)
  ELSE IF r.age > 7 THEN (7 - r.age) * 30 ELSE 200

Score(l, r, p) ==
  BaseScore(l, r, p)
  + (IF r.resolution >= 4 /\ r.resolution > l.resolution THEN 5000 ELSE 0)
  + LanguageBonus(r, p)
  + (r.codec - l.codec) * 50
  + (IF r.resolution > l.resolution THEN 2000 ELSE 0)
  + (IF r.codec >= 80 THEN 1000 ELSE 0)
  + (IF r.codec = p.preferredCodec THEN 1200 ELSE 0)
  + (IF r.source \in p.preferredSources THEN 1400 ELSE 0)
  + AudioBonus(r, p) + Bonus(r, p) + IntentBonus(l, r, p) + AgeBonus(r, p)
  + r.uploader * 10 + ((ReleaseHealth(r) - 5000) * 15) \div 100

-----------------------------------------------------------------------------
(* compare_release: the decision is accept.                                *)
Accepted(l, r, p) ==
  /\ r.size > 0 /\ ~p.keep /\ p.intent \notin {"locked", "pinned"}
  /\ SavesEnough(l, r, p)
  /\ VideoAllowed(r, p) /\ LanguageAllowed(r, p) /\ AudioAllowed(r, p)
  /\ OriginAllowed(r, p) /\ ResolutionAllowed(l, r, p)
  /\ Confidence(l, r, p) >= p.minConfidence * 100
=============================================================================
