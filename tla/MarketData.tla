------------------------------ MODULE MarketData ------------------------------
(***************************************************************************)
(* Price files: the two-slot library of one-minute bars and its top-ups,   *)
(* the catalog reader, the daily cache and the purchased futures and       *)
(* equity file.  A writer is the sequence of the states it leaves on disk, *)
(* one per file operation, so a crash is a prefix of it.  A bar has a      *)
(* minute t and a price v; a digest is the content it was taken of.        *)
(* g.length is the length of a day, g.schedule the open and the close of   *)
(* each trading day, g.suspension the longest silence of a listing.        *)
(***************************************************************************)
EXTENDS Values

DayOf(t, g) == t \div g.length

LastTime(frame) == frame[Len(frame)].t

TimesOf(frame) == {frame[i].t : i \in DOMAIN frame}

Increasing(frame) == \A i \in 1..(Len(frame) - 1) : frame[i].t < frame[i + 1].t

\* The schedule of the days that a frame spans.
SpannedDays(frame, g) ==
    {d \in DOMAIN g.schedule :
        DayOf(Min(TimesOf(frame)), g) <= d /\ d <= DayOf(Max(TimesOf(frame)), g)}

MarkSessions(frame, g) ==
    LET Label(t) ==
            LET d == DayOf(t, g)
            IN  CASE d \notin DOMAIN g.schedule -> "closed"
                  [] t < g.schedule[d].open -> "pre"
                  [] t < g.schedule[d].close -> "regular"
                  [] OTHER -> "post"
    IN  [i \in DOMAIN frame |-> [t |-> frame[i].t, v |-> frame[i].v, s |-> Label(frame[i].t)]]

\* Regular minutes that the schedule expects from the first bar to the end.
RegularSessionGaps(frame, end, g) ==
    IF frame = <<>> THEN {}
    ELSE {t \in frame[1].t .. end :
             \E d \in SpannedDays(frame, g) :
                 g.schedule[d].open <= t /\ t < g.schedule[d].close} \ TimesOf(frame)

SameBars(frame, other) ==
    /\ Len(frame) = Len(other)
    /\ \A i \in DOMAIN frame : frame[i].t = other[i].t /\ frame[i].v = other[i].v

EndsAtOrAfter(frame, existing) == frame /= <<>> /\ LastTime(frame) >= LastTime(existing)

LastSessionStart(frame, g) == DayOf(LastTime(frame), g) * g.length

Before(frame, t) == SelectSeq(frame, LAMBDA bar : bar.t < t)

\* Everything that keeps a frame from being stored.
ValidateBars(frame, end, previous) ==
    IF frame = <<>> THEN {"empty"}
    ELSE {p \in {"values", "order", "end", "prefix"} :
            CASE p = "values" -> \E i \in DOMAIN frame : frame[i].v = Null \/ frame[i].v <= 0
              [] p = "order" -> ~Increasing(frame)
              [] p = "end" -> Max(TimesOf(frame)) > end
              [] p = "prefix" -> /\ previous \notin {Null, <<>>}
                                 /\ ~(/\ Len(previous) <= Len(frame)
                                      /\ SameBars(SubSeq(frame, 1, Len(previous)), previous))}

\* A silence longer than a suspension separates two securities of the same symbol:
\* only the bars after the last one are kept.
CutAtLastListingGap(frame, g) ==
    LET Between(i) == {d \in DOMAIN g.schedule :
                          DayOf(frame[i - 1].t, g) < d /\ d < DayOf(frame[i].t, g)}
        gaps == {i \in 2..Len(frame) : Cardinality(Between(i)) > g.suspension}
    IN  IF gaps = {} THEN [frame |-> frame, cut |-> Null]
        ELSE [frame |-> SubSeq(frame, Max(gaps), Len(frame)),
              cut |-> [from |-> frame[1].t, rows |-> Max(gaps) - 1]]

-----------------------------------------------------------------------------
(* Suspect bars *)

\* Twice the median of the values at the positions in S, or twice the lower one.
Middles(values, S, lower) ==
    LET s == SortSeq(Picked(values, S), <=)
        n == Len(s)
    IN  IF lower THEN 2 * s[(n + 1) \div 2] ELSE s[(n + 1) \div 2] + s[n \div 2 + 1]

\* Twice the distance of value i to the nearest of the medians around, before and after
\* it.  Windows that reach over the date lose what is outside; at the end of the date the
\* window after the value reaches back and holds the value, and the last value has none.
Criterion(values, i, first, last, window) ==
    LET half == window \div 2
        around == (i - half .. i + half) \ {i}
        previous == i - window .. i - 1
        following == IF i + window <= last THEN i + 1 .. i + window
                     ELSE IF i = last THEN {} ELSE i - window .. i + window - 1
        Clipped(S) == {k \in S : first <= k /\ k <= last}
        Lower(S) == Clipped(S) = S /\ i \notin S
        windows == {S \in {around, previous, following} : Clipped(S) /= {}}
    IN  {Abs(2 * values[i] - Middles(values, Clipped(S), Lower(S))) : S \in windows}

\* The bars that are far from their neighbours of the same day, by the median deviation
\* of that day.
FlagSuspectBars(frame, g) ==
    LET values == [i \in DOMAIN frame |-> frame[i].v]
        Date(i) == {k \in DOMAIN frame : DayOf(frame[k].t, g) = DayOf(frame[i].t, g)}
        Deviation(S) ==     \* four times the median absolute deviation
            LET from == [k \in DOMAIN frame |-> Abs(2 * values[k] - Middles(values, S, FALSE))]
            IN  Middles(from, S, FALSE)
    IN  {i \in DOMAIN frame :
            LET date == Date(i)
                near == Criterion(values, i, Min(date), Max(date), g.window)
            IN  near /= {} /\ 2 * Min(near) >= g.distance * Max({Deviation(date), 4 * g.floor})}

-----------------------------------------------------------------------------
(* The one-minute library *)

NoLibrary == [files |-> [slot \in {"a", "b"} |-> Null], manifest |-> Null, tmp |-> Null,
              quarantine |-> 0, copy |-> Null]

\* A manifest is refused when its file is not the one it names.
Mismatched(d) == d.manifest /= Null /\ d.files[d.manifest.slot] /= d.manifest.bytes

\* The committed bars, if there are any.
Committed(d) == IF d.manifest = Null THEN Null ELSE d.manifest.bytes

\* The bars that the provider serves from start to end.
Fetch(vendor, start, end, g) ==
    MarkSessions(SelectSeq(vendor, LAMBDA bar : start <= bar.t /\ bar.t <= end), g)

Outcome(status, disks) == [status |-> status, disks |-> disks]

BuildManifest(frame, slot, mode, added, cut, missing, g) ==
    [identity |-> g.identity, slot |-> slot, bytes |-> frame, mode |-> mode, added |-> added, cut |-> cut,
     first |-> frame[1].t, last |-> LastTime(frame), missing |-> missing,
     suspect |-> Cardinality(FlagSuspectBars(frame, g))]

\* Mutant: the committed slot is written.
InactiveSlotMutant(d) == IF d.manifest = Null THEN "a" ELSE d.manifest.slot

\* The slot that no manifest points at.
InactiveSlot(d) == IF d.manifest /= Null /\ d.manifest.slot = "a" THEN "b" ELSE "a"

\* The candidate is written aside and validated; a refused one is kept in quarantine.
\* It then replaces the inactive slot, and the rename of the manifest commits it.
StoreBars(d, fetched, continued, mode, end, stored, g) ==
    LET cut == CutAtLastListingGap(fetched, g)
        earlier == IF d.manifest = Null THEN Null ELSE d.manifest.cut
        new == IF cut.cut = Null \/ earlier = Null THEN cut.cut
               ELSE [from |-> earlier.from, rows |-> earlier.rows + cut.cut.rows]
        previous == IF cut.cut = Null THEN continued ELSE Null
        frame == cut.frame
        kept == IF previous = Null THEN 0 ELSE Len(previous)
        written == [d EXCEPT !.tmp = frame]
        replaced == [written EXCEPT !.tmp = Null, !.files[InactiveSlot(d)] = frame]
        added == Len(frame) - (IF stored = Null THEN kept ELSE stored)
        missing == RegularSessionGaps(SubSeq(frame, kept + 1, Len(frame)), end, g)
    IN  IF ValidateBars(frame, end, previous) /= {}
        THEN Outcome("failed", <<written, [d EXCEPT !.tmp = Null, !.quarantine = @ + 1]>>)
        ELSE Outcome(mode, <<written, replaced,
                 [replaced EXCEPT !.manifest =
                     BuildManifest(frame, InactiveSlot(d), mode, added,
                                   IF new = Null THEN earlier ELSE new, missing, g)]>>)

\* The last bar that is kept still has its stored price.
OverlapMatches(stored, fetched) ==
    fetched /= <<>> /\ fetched[1].t = stored.t /\ fetched[1].v = stored.v

\* The most recent stored session is fetched again and replaces the stored one; a moved
\* price of the bar before it means a split, and the whole history is fetched again.
TopUp(d, vendor, since, end, g) ==
    LET existing == Committed(d)
        start == existing[1].t
        kept == Before(existing, LastSessionStart(existing, g))
        fetched == Fetch(vendor, LastTime(kept), end, g)
        combined == IF kept = <<>> THEN Fetch(vendor, start, end, g)
                    ELSE kept \o SelectSeq(fetched, LAMBDA bar : bar.t > LastTime(kept))
    IN  CASE Mismatched(d) -> Outcome("error", <<>>)
          [] existing = Null ->
                 StoreBars(d, Fetch(vendor, since, end, g), Null, "full", end, Null, g)
          [] LastTime(existing) >= end -> Outcome("current", <<>>)
          [] kept /= <<>> /\ ~OverlapMatches(kept[Len(kept)], fetched) ->
                 StoreBars(d, Fetch(vendor, start, end, g), Null,
                           "refetched_after_adjustment_change", end, Null, g)
          [] ~EndsAtOrAfter(combined, existing) \/ SameBars(combined, existing) ->
                 Outcome("current", <<>>)
          [] OTHER -> StoreBars(d, combined, IF kept = <<>> THEN Null ELSE kept,
                                "incremental", end, Len(existing), g)

\* The saved copy is brought up to date: from its last kept bar on, or as a whole when
\* that bar was revised or removed.
PullOrUpdate(copy, vendor, since, end, before, g) ==
    LET kept == IF copy = Null \/ before = Null THEN copy ELSE Before(copy, before)
        full == Fetch(vendor, since, end, g)
        fetched == Fetch(vendor, LastTime(kept), end, g)
    IN  CASE kept \in {Null, <<>>} -> [data |-> full, status |-> "full", save |-> TRUE]
          [] ~OverlapMatches(kept[Len(kept)], fetched) ->
                 [data |-> full, status |-> "refetched_after_adjustment_change", save |-> TRUE]
          [] OTHER -> LET data == kept \o Tail(fetched)
                      IN  [data |-> data, status |-> IF Len(fetched) > 1 THEN "incremental"
                                                     ELSE "current",
                           save |-> Len(fetched) > 1]

\* The top-up through the saved copy: the copy is seeded from the stored bars and saved
\* before anything is committed.
VbtTopUp(d, vendor, since, end, g) ==
    LET existing == Committed(d)
        stored == existing /= Null
        seeding == stored /\ d.copy = Null
        seeded == IF seeding THEN [d EXCEPT !.copy = existing] ELSE d
        before == IF stored THEN LastSessionStart(existing, g) ELSE Null
        pulled == PullOrUpdate(seeded.copy, vendor, since, end, before, g)
        saved == IF pulled.save THEN [seeded EXCEPT !.copy = pulled.data] ELSE seeded
        adjusted == pulled.status = "refetched_after_adjustment_change"
        mode == IF ~stored THEN "full" ELSE IF adjusted THEN pulled.status ELSE "incremental"
        steps == (IF seeding THEN <<seeded>> ELSE <<>>) \o (IF pulled.save THEN <<saved>> ELSE <<>>)
        done == StoreBars(saved, pulled.data, IF stored /\ ~adjusted THEN Before(existing, before)
                                              ELSE Null,
                          mode, end, IF stored THEN Len(existing) ELSE Null, g)
    IN  CASE Mismatched(d) -> Outcome("error", <<>>)
          [] stored /\ LastTime(existing) >= end -> Outcome("current", <<>>)
          [] stored /\ (~EndsAtOrAfter(pulled.data, existing) \/ SameBars(pulled.data, existing)) ->
                 Outcome("current", steps)
          [] OTHER -> Outcome(done.status, steps \o done.disks)

\* A refusal, or the data that was asked for.
Loaded(why, bars) == [refused |-> why, bars |-> bars]

\* The bars of a fixed period, from the manifests that the folders hold for the data set
\* and the file as it is when it is read.  Bars are flagged on the whole file; only
\* regular ones are returned.
LoadVerifiedCatalogData(manifests, bytes, start, end, identity, g) ==
    LET manifest == CHOOSE m \in manifests : TRUE
        suspect == {bytes[i].t : i \in FlagSuspectBars(bytes, g)}
        slice == SelectSeq(bytes, LAMBDA bar :
                     start <= bar.t /\ bar.t <= end /\ bar.s = "regular")
        kept == SelectSeq(slice, LAMBDA bar : bar.t \notin suspect)
    IN  CASE Cardinality(manifests) /= 1 -> Loaded("manifest", Null)
          [] identity /= manifest.identity -> Loaded("identity", Null)
          [] bytes /= manifest.bytes -> Loaded("changed", Null)
          [] end < start -> Loaded("period", Null)
          [] start < manifest.first \/ end > manifest.last -> Loaded("coverage", Null)
          [] slice = <<>> \/ kept = <<>> -> Loaded("empty", Null)
          [] ~Increasing(slice) -> Loaded("order", Null)
          [] \E i \in DOMAIN kept : kept[i].v = Null -> Loaded("values", Null)
          [] OTHER -> Loaded(Null, kept)

-----------------------------------------------------------------------------
(* The daily cache: t is a day, and the days of g.schedule are the sessions *)

NoCache == [prices |-> Null, metadata |-> Null]

SortedBars(frame) == SortSeq(frame, LAMBDA a, b : a.t < b.t)

\* The last session that has closed, of those from the requested start.
CompletedSessions(start, now, g) ==
    {d \in DOMAIN g.schedule : start <= d /\ g.schedule[d].close <= now}

\* The rows of the requested sessions, unless one is duplicated, in the future, missing
\* or without a value.
CleanAndValidateData(raw, config, completed, now, g) ==
    LET frame == SortedBars(raw)
        rows == SelectSeq(frame, LAMBDA bar : config.start <= bar.t /\ bar.t <= completed)
        expected == {d \in DOMAIN g.schedule : rows[1].t <= d /\ d <= LastTime(rows)}
        first == Min({d \in DOMAIN g.schedule : config.start <= d})
    IN  CASE ~Increasing(frame) -> Loaded("duplicates", Null)
          [] \E i \in DOMAIN frame : frame[i].t > DayOf(now, g) -> Loaded("future", Null)
          [] rows = <<>> -> Loaded("empty", Null)
          [] \E i \in DOMAIN rows : rows[i].v = Null -> Loaded("values", Null)
          [] rows[1].t /= first -> Loaded("start", Null)
          [] expected \ TimesOf(rows) /= {} -> Loaded("gaps", Null)
          [] OTHER -> Loaded(Null, rows)

\* A cache serves the request that its metadata names, up to the last completed session.
CacheCompatibility(cache, config, completed, now, g) ==
    LET cleaned == CleanAndValidateData(cache.prices, config, completed, now, g)
    IN  CASE cache.metadata.config /= config -> Loaded("metadata", Null)
          [] cleaned.refused /= Null -> cleaned
          [] LastTime(cleaned.bars) /= completed -> Loaded("stale", Null)
          [] OTHER -> cleaned

\* Prices and metadata are both written aside; the prices are renamed before the metadata.
WriteCache(cache, frame, metadata) ==
    <<[cache EXCEPT !.prices = frame], [prices |-> frame, metadata |-> metadata]>>

\* A request is served by the cache, or else by a download that replaces it.
LoadMarketData(cache, config, vendor, now, allowed, g) ==
    LET sessions == CompletedSessions(config.start, now, g)
        completed == Max(sessions)
        present == cache.prices /= Null /\ cache.metadata /= Null
        cached == IF present THEN CacheCompatibility(cache, config, completed, now, g)
                  ELSE Loaded("absent", Null)
        downloaded == CleanAndValidateData(vendor, config, completed, now, g)
        Served(bars, time, action, disks) ==
            [refused |-> Null, bars |-> bars, time |-> time, action |-> action, disks |-> disks,
             lagging |-> LastTime(bars) < completed]
        Refused(why) == [refused |-> why, disks |-> <<>>]
    IN  CASE sessions = {} -> Refused("sessions")
          [] cached.refused = Null -> Served(cached.bars, cache.metadata.time, "reused", <<>>)
          [] ~allowed -> Refused("downloads")
          [] downloaded.refused /= Null -> Refused(downloaded.refused)
          [] OTHER ->
                 Served(downloaded.bars, now, IF present THEN "refreshed" ELSE "created",
                        WriteCache(cache, downloaded.bars, [config |-> config, time |-> now]))

-----------------------------------------------------------------------------
(* The purchased file *)

NoPurchase == [file |-> Null, manifest |-> Null]

\* The bars of the regular minutes of the sessions.
CoverageForSchedule(frame, sessions, g) ==
    SelectSeq(SortedBars(frame), LAMBDA bar :
        \E d \in sessions : g.schedule[d].open <= bar.t /\ bar.t < g.schedule[d].close)

\* Sessions without any bar.
MissingSessions(frame, sessions, g) ==
    {d \in sessions : TimesOf(frame) \cap g.schedule[d].open .. g.schedule[d].close - 1 = {}}

\* What the manifest says of a frame, before the digest of the file is known.
PurchaseManifest(frame, sessions, request, resolved, g) ==
    LET expected == UNION {g.schedule[d].open .. g.schedule[d].close - 1 : d \in sessions}
        missing == MissingSessions(frame, sessions, g)
        invalid == {i \in DOMAIN frame : frame[i].v = Null \/ frame[i].v <= 0}
        sound == frame /= <<>> /\ missing = {} /\ invalid = {} /\ Increasing(frame) /\ resolved
    IN  [status |-> IF sound THEN "validated" ELSE "provisional", request |-> request,
         bytes |-> Null, rows |-> Len(frame), missing |-> missing, invalid |-> Cardinality(invalid),
         first |-> IF frame = <<>> THEN Null ELSE Min(TimesOf(frame)), sessions |-> sessions,
         possible |-> Cardinality(expected), absent |-> Cardinality(expected \ TimesOf(frame)),
         increasing |-> Increasing(frame), resolved |-> resolved]

\* A stored file is used only under its own manifest.
PurchaseRefusal(d, request) ==
    CASE d.file = Null -> Null
      [] d.manifest = Null -> "orphan"
      [] d.manifest.request /= request -> "request"
      [] d.manifest.bytes /= d.file -> "digest"
      [] OTHER -> Null

\* The sessions since the start are bought as a whole when one of them is missing.  The
\* file is replaced first; its manifest follows without a digest, then with it.
AcquireFromStart(d, request, vendor, cost, resolved, now, g) ==
    LET sessions == CompletedSessions(request.start, now, g)
        covered == d.file \notin {Null, <<>>} /\ MissingSessions(d.file, sessions, g) = {}
        frame == IF covered THEN d.file ELSE CoverageForSchedule(vendor, sessions, g)
        manifest == PurchaseManifest(frame, sessions, request, resolved, g)
        Stored(m) == [file |-> frame, manifest |-> m]
        complete == Stored([manifest EXCEPT !.bytes = frame])
    IN  CASE sessions = {} -> Outcome("sessions", <<>>)
          [] cost >= request.limit -> Outcome("cost", <<>>)
          [] PurchaseRefusal(d, request) /= Null -> Outcome(PurchaseRefusal(d, request), <<>>)
          [] covered -> Outcome("reused", <<complete>>)
          [] OTHER -> Outcome("acquired", <<Stored(d.manifest), Stored(manifest), complete>>)

\* The data contract that the dashboard shows the file under.
PurchaseIsSuitable(manifest, start, g) ==
    /\ manifest /= Null /\ manifest.status = "validated" /\ manifest.bytes /= Null
    /\ manifest.rows > 0 /\ manifest.missing = {} /\ manifest.invalid = 0
    /\ manifest.rows <= manifest.possible /\ manifest.absent = manifest.possible - manifest.rows
    /\ manifest.increasing /\ manifest.resolved
    /\ DayOf(manifest.first, g) = start /\ Min(manifest.sessions) = start
===============================================================================
