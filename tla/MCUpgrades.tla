----------------------------- MODULE MCUpgrades -----------------------------
(* Instances of Upgrades for TLC. *)
EXTENDS Upgrades, TLC

Plain == [name |-> "film", size |-> 4000, file |-> 3900, resolution |-> 3, codec |-> 50,
          source |-> "webdl", bitrate |-> 6000, hdr |-> "none", audio |-> {}, languages |-> {},
          marks |-> {}, group |-> "group", by |-> "group", indexer |-> "a", uploader |-> 50, age |-> 3, yearOff |-> 0, match |-> 100]

(* A film of 1080p that every rule lets be replaced by a smaller one; poor *)
(* ones, a large one, one of a lower resolution, and two that differ in    *)
(* nothing but their size.                                                 *)
Large    == [Plain EXCEPT !.name = "large", !.size = 8000, !.file = 7900, !.source = "remux", !.bitrate = 12000]
Plain2   == [Plain EXCEPT !.name = "plain2", !.size = 3000, !.file = 2900, !.bitrate = 4500]
Small    == [Plain EXCEPT !.name = "small", !.size = 1500, !.file = 1500, !.codec = 80, !.source = "bluray",
                          !.bitrate = 2600]
Same     == [Small EXCEPT !.name = "same", !.group = "other", !.by = "other"]
Twin     == [Small EXCEPT !.indexer = "b"]
Weak     == [Plain EXCEPT !.name = "weak", !.size = 900, !.file = 900, !.source = "hdtv", !.bitrate = 1300]
Untold   == [Plain EXCEPT !.name = "untold", !.size = 2000, !.file = 1900, !.codec = 80, !.source = "none",
                          !.bitrate = 2400, !.audio = {"atmos", "truehd"}]
Lower    == [Plain EXCEPT !.name = "lower", !.size = 1000, !.file = 1000, !.resolution = 2, !.source = "webrip",
                          !.bitrate = 1600]
Uhd      == [Plain EXCEPT !.name = "uhd", !.size = 7000, !.file = 6900, !.resolution = 4, !.codec = 80,
                          !.source = "webdl", !.bitrate = 11000, !.hdr = "dv+hdr", !.languages = {"multi"},
                          !.marks = {"multi"}]
Foreign  == [Plain2 EXCEPT !.name = "foreign", !.languages = {"german"}]
Unknown  == [Plain2 EXCEPT !.name = "unknown", !.uploader = 20]

MCCatalogue == {Plain, Large, Plain2, Small, Twin, Same, Weak, Untold, Lower, Uhd, Foreign, Unknown}
MCOffers == {{r} : r \in MCCatalogue \ {Twin, Foreign, Unknown}} \cup {MCCatalogue, {Plain, Plain2, Foreign}}

NoPriority == [f \in DOMAIN Factor |-> 0]

Default == [intent |-> "space_saver", keep |-> FALSE, larger |-> FALSE, maxIncrease |-> NoAge,
            priorities |-> NoPriority, floor |-> 0, rejectGroups |-> {}, preferredSources |-> {},
            preferredCodec |-> NoAge, minSavings |-> 10, nas |-> 0, downgrade |-> FALSE,
            downgradeSavings |-> 40, audio |-> <<>>, requireAudio |-> FALSE, language |-> "english",
            maxAge |-> 3650, minSize |-> 500, rejectUpscaled |-> TRUE, minConfidence |-> 55,
            yearMatch |-> TRUE, avoidDV |-> TRUE, dvFallback |-> FALSE, requireEnglish |-> TRUE,
            rejectDual |-> FALSE, rejectMulti |-> FALSE, rejectHardsub |-> TRUE, growPoor |-> TRUE,
            growPoorBy |-> 250, growPoorTo |-> 8192, staleAge |-> 30]

Shrink   == [Default EXCEPT !.growPoor = FALSE]
Premium  == [Shrink EXCEPT !.intent = "premium", !.language = ""]
Balanced == [Default EXCEPT !.intent = "balanced", !.larger = TRUE, !.dvFallback = TRUE]
Wide     == [Default EXCEPT !.intent = "reference", !.larger = TRUE, !.avoidDV = FALSE,
                            !.priorities = [NoPriority EXCEPT !["uhd"] = 10, !["atmos"] = 5],
                            !.audio = <<"atmos", "truehd">>]
Downward == [Shrink EXCEPT !.downgrade = TRUE, !.nas = 300, !.preferredCodec = 80, !.preferredSources = {"bluray"}]

Policies == {Default, Shrink, Premium, Balanced, Wide, Downward}

(* Windows in the evening, over midnight, around the clock, of all days.   *)
Windows == {[start |-> s, end |-> e, days |-> d] :
              s \in 0..(Slots - 1), e \in 0..(Slots - 1), d \in {{}, {0}, {4, 6}}}
Sunday  == [start |-> 2, end |-> 0, days |-> {6}]

NoExclusion == [named |-> FALSE, aged |-> FALSE, codecs |-> {}, resolutions |-> {}, minSize |-> 0]

Rule(p) == [policy |-> p, window |-> Sunday, exclusions |-> NoExclusion,
            auto |-> TRUE, probes |-> FALSE, plexTells |-> TRUE]
Beginning(r, f) == [rule |-> r, film |-> f, locked |-> FALSE, preferred |-> {}, listed |-> {}, edits |-> 0]

(* Left alone, under each policy, with a usual, a poor and other films.    *)
Alone == {Beginning(Rule(p), Plain) : p \in Policies} \cup {Beginning(Rule(p), Weak) : p \in {Default, Downward}}
         \cup {Beginning(Rule(Premium), Lower), Beginning(Rule(Wide), Large)}

(* Plex does not tell bitrates, and the files are probed; or the movie is  *)
(* excluded, before or after its film has become small.                    *)
Probed == {Beginning([Rule(p) EXCEPT !.plexTells = FALSE, !.probes = TRUE], f) : p \in {Default, Shrink}, f \in {Plain}}
ExcludedOnce == {Beginning([Rule(Shrink) EXCEPT !.exclusions = x], Large) :
  x \in {[NoExclusion EXCEPT !.minSize = 3950], [NoExclusion EXCEPT !.codecs = {80}],
         [NoExclusion EXCEPT !.resolutions = {3}], [NoExclusion EXCEPT !.named = TRUE],
         [NoExclusion EXCEPT !.aged = TRUE]}}

(* Every window of the week, of a movie nothing is downloaded for.         *)
Watched == {Beginning([Rule(Shrink) EXCEPT !.window = w, !.auto = FALSE], Plain) : w \in Windows}

(* Operators at work.                                                      *)
Ban(r, by, indexer, expires) == Entry(r.name, by, indexer, expires)
MCEntries == {Ban(Small, "group", "", "never"), Ban(Small, "", "", "later"), Ban(Small, "group", "a", "later")}
MCWishes  == {[intent |-> "locked", keep |-> FALSE, larger |-> FALSE], [intent |-> "balanced", keep |-> TRUE, larger |-> TRUE]}
Operated == {[Beginning(Rule(Shrink), Plain) EXCEPT !.edits = 1],
             [Beginning(Rule(Shrink), Plain) EXCEPT !.edits = 2, !.locked = TRUE, !.preferred = {"weak"},
                !.listed = {Ban(Same, "other", "", "never")}]}

MCBeginnings == Alone \cup Probed \cup ExcludedOnce \cup Watched \cup Operated
=============================================================================
