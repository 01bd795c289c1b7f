---------------------------- MODULE TodayForecast ----------------------------
(***************************************************************************)
(* The daily panel of the weather program (weather/src/                    *)
(* mk-piclock-weather.c): the low and high of TODAY or TMORROW.            *)
(* A bulletin names its periods by the day it was issued ("Today",         *)
(* "Tonight", weekdays), says a high for a day and a low for a night, and  *)
(* a night belongs to two dates.  The program dates each low by the        *)
(* forecast hour that matches it, and keeps what it has learnt of today    *)
(* and tomorrow in a file, for a bulletin soon drops the period that has   *)
(* begun.  A bulletin may also be read late: a source that issues nothing  *)
(* new, or the last good forecast given to the core again; a period may    *)
(* come without a number, which the code passes over; and the file may be  *)
(* one that cannot be read or written, which stops nothing.                *)
(*                                                                         *)
(* Time is counted in quarters of a day, from 0:00, 6:00, 12:00 and 18:00. *)
(* A night reaches from 18:00 to 12:00.  A run of the program is one step: *)
(* runs do not overlap, and it reads the clock once.                       *)
(***************************************************************************)
EXTENDS Integers, FiniteSetsExt, SequencesExt

CONSTANTS Sources,          \* the ECCC pages a user may choose
          Lows,             \* the lows of nights
          Observed,         \* those a station may have measured
          Readings,         \* what a bulletin may say: the low of its first night and of
                            \* the others, and the temperature of the coldest hour of the
                            \* first night its hours reach, and of the next
          Gaps,             \* the places of the periods that a bulletin has no number for
          ReplayFor,        \* WEATHER_CACHE_RESTORE_SECONDS, in quarters
          Begin, End,       \* the quarters modelled
          MaxIssues,        \* bounds the bulletins issued
          MaxFailures       \* bounds the selections whose file cannot be read or written

None == 99                      \* no temperature, warmer than any

ASSUME TodayAssumption ==
    /\ Begin \in Nat /\ End \in Nat /\ 4 <= Begin /\ Begin <= End
    /\ ReplayFor \in Nat /\ MaxIssues \in Nat \ {0} /\ MaxFailures \in Nat
    /\ Gaps \subseteq SUBSET Nat
    /\ Lows \subseteq (-99) .. (None - 25) /\ Observed \subseteq Lows
    /\ Readings \subseteq Lows \X Lows \X Lows \X Lows

VARIABLES now,
          source,      \* weather-source.url
          bulletin,    \* what the source's page says
          issues,      \* how many bulletins there have been
          lastGood,    \* weather-last-good.json
          cache,       \* the file of today's extremes
          slot,        \* the daily slot selected last
          said,        \* history: the lows <<source, date, temperature>> learnt so far
          failures,    \* how many selections failed to read or to write the file
          heard,       \* history: the high last read for each date, and the one last kept
          replaced     \* history: the last step replaced a file it could not read

todayVars == <<now, source, bulletin, issues, lastGood, cache, slot, failures, said, heard,
               replaced>>
world == <<now, source, bulletin, issues>>

Day(u) == u \div 4
Dates == Day(Begin)..Day(End) + 2
Night(d) == (4 * d + 3)..(4 * d + 5)
Colder(s, t) == IF s < t THEN s ELSE t

-----------------------------------------------------------------------------
(* What ECCC's page says.                                                   *)

\* The periods a page has: those of the day until the evening, or, early, with the night
\* that is still on before them; from the evening on, those from tonight.
DayPage(d) == <<<<"Today", d>>, <<"Tonight", d>>, <<"day", d + 1>>, <<"night", d + 1>>>>
EarlyPage(d) == <<<<"Tonight", d - 1>>, <<"day", d>>, <<"night", d>>,
                  <<"day", d + 1>>, <<"night", d + 1>>>>
EveningPage(d) == <<<<"Tonight", d>>, <<"day", d + 1>>, <<"night", d + 1>>>>
Forms(u) ==
    CASE u % 4 = 0 -> {DayPage(Day(u)), EarlyPage(Day(u))}
      [] u % 4 \in {1, 2} -> {DayPage(Day(u))}
      [] u % 4 = 3 -> {EveningPage(Day(u))}

HighOn(l, d) == 20 + l + (d % 4)

\* A form with its temperatures: r[1] for the first night, r[2] for the others, and another
\* high for each day, as high as r[1] is; those in gap have no number.
Say(form, r, gap) ==
    LET night(i) == form[i][1] \in {"Tonight", "night"}
    IN  [i \in DOMAIN form |->
          [name |-> form[i][1], of |-> form[i][2], isLow |-> night(i),
           t |-> IF i \in gap THEN None
                 ELSE IF night(i) THEN (IF i <= 2 THEN r[1] ELSE r[2]) ELSE HighOn(r[1], form[i][2])]]

\* The forecast hours reach a day ahead, into two nights at most; all that counts of them is
\* the coldest of each night.
NightsAhead(u) == {n \in Day(u) - 1..Day(u) + 1 : Night(n) \intersect (u..u + 4) # {}}
Coldest(u, r) ==
    {[n \in NightsAhead(u) |-> [at |-> h[n], t |-> IF n = Min(NightsAhead(u)) THEN r[3] ELSE r[4]]] :
       h \in {g \in [NightsAhead(u) -> u..u + 4] : \A n \in NightsAhead(u) : g[n] \in Night(n)}}

\* The bulletins of each quarter.
Bulletins ==
    [u \in Begin..End |->
      UNION {{[src |-> s, on |-> Day(u), periods |-> Say(form, r, gap), cold |-> cold] :
                s \in Sources, gap \in Gaps, cold \in Coldest(u, r)} :
             form \in Forms(u), r \in Readings}]

\* The dates of the lows that a bulletin says: that of the coldest hour of the night the
\* period means, if it is as cold, to one degree.
Learnt(b) ==
    {<<b.src, Day(b.cold[p.of].at), p.t>> :
       p \in {q \in Range(b.periods) : /\ q.isLow /\ q.t # None /\ q.of \in DOMAIN b.cold
                                       /\ b.cold[q.of].t - q.t \in -1..1}}

-----------------------------------------------------------------------------
(* Reading a bulletin on the date d; 0 when there is no such period.  A    *)
(* period without a number is passed over.                                  *)

\* period_matches_today_daytime and period_matches_weekday_daytime.
MatchesDaytime(p, d, today) ==
    /\ ~p.isLow /\ p.t # None
    /\ \/ p.name = "day" /\ p.of = d
       \/ p.name = "Today" /\ d = today
       \/ p.name = "Tomorrow" /\ d = today + 1
DaytimeIndex(b, d, today) == SelectInSeq(b.periods, LAMBDA p : MatchesDaytime(p, d, today))

\* period_matches_today_night.
MatchesTonight(p, d) ==
    /\ p.isLow /\ p.t # None
    /\ p.name = "Tonight" \/ (p.name = "night" /\ p.of = d)
NightIndex(b, d) == SelectInSeq(b.periods, LAMBDA p : MatchesTonight(p, d))

\* What nobody said but the code takes, read on the date d: the low of another night.  Two
\* bulletins are misread so.  One is of the day before, whose "Tonight" is taken for the
\* night after the one it means.  The other has no number for the day it was issued, from
\* whose place the code would have told the night that ends from the coming one; it then
\* goes by the time of day.
Numberless(b, d) == b.on = d /\ \E p \in Range(b.periods) : ~p.isLow /\ p.of = d /\ p.t = None
Misdated(b, d) ==
    LET taken == {q \in Range(b.periods) : MatchesTonight(q, d)}
    IN  {<<b.src, d, p.t>> : p \in {q \in taken : b.on + 1 = d \/ Numberless(b, d)}} \union
        {<<b.src, d + 1, p.t>> : p \in {q \in taken : q.of < d /\ Numberless(b, d)}}

\* The date, if any, of a low of the night n: that of its coldest hour, if as cold.
OfNight(b, low, n) ==
    IF n \in DOMAIN b.cold /\ b.cold[n].t - low \in -1..1 THEN {Day(b.cold[n].at)} ELSE {}

\* A variant for which the night is always the coming one.
Occurs_Upcoming(b, low, night, daytime, d, early) == OfNight(b, low, d)

\* night_low_occurrence: the date, if any, of the low of the period number night.  The
\* order of the periods tells the night that is ending from the coming one, or the time
\* of day when the bulletin has no daytime for d.
Occurs(b, low, night, daytime, d, early) ==
    LET ongoing == IF daytime # 0 THEN night < daytime ELSE early
    IN  OfNight(b, low, IF ongoing THEN d - 1 ELSE d)

Unknown == [low |-> None, high |-> None]
NoFile == [src |-> "none", days |-> [e \in Dates |-> Unknown]]

\* A variant that keeps nothing of tomorrow.
Load_TodayOnly(c, src, d) ==
    [e \in Dates |-> IF c.src = src /\ e = d THEN c.days[e] ELSE Unknown]

\* load_today_extremes_cache for the date d: its extremes and those of the next date.  (A
\* file of an older schema gives its date's high: it is one that knows no more.)
Load(c, src, d) ==
    [e \in Dates |-> IF c.src = src /\ e \in {d, d + 1} THEN c.days[e] ELSE Unknown]

\* A variant that does not replace a high it knows.
HighOf_First(b, i, known) == IF i # 0 /\ known = None THEN b.periods[i].t ELSE known

\* The official high replaces the one known; today_observed_low counts on its own date.
HighOf(b, i, known) == IF i # 0 THEN b.periods[i].t ELSE known
ObservedOn(o, d) == IF o.date = d THEN o.t ELSE None

\* build_today_slot: the slot, and the days of the cache file it writes.
TodaySlot(b, o, c, u) ==
    LET d == Day(u)
        days == Load(c, b.src, d)
        daytime == DaytimeIndex(b, d, d)
        night == NightIndex(b, d)
        low == IF night = 0 THEN None ELSE b.periods[night].t
        dates == IF night = 0 THEN {} ELSE Occurs(b, low, night, daytime, d, u % 4 < 2)
        today == [low |-> Colder(Colder(days[d].low, ObservedOn(o, d)),
                                 IF d \in dates THEN low ELSE None),
                  high |-> HighOf(b, daytime, days[d].high)]
    IN  [slot |-> [label |-> "TODAY", src |-> b.src, date |-> d,
                   low |-> today.low, high |-> today.high],
         cache |-> [src |-> b.src,
                    days |-> [e \in Dates |-> IF e = d THEN today
                              ELSE IF e = d + 1 /\ e \in dates
                                   THEN [days[e] EXCEPT !.low = Colder(@, low)] ELSE days[e]]]]

\* build_tomorrow_slot; the night before tomorrow comes before its daytime.
TomorrowSlot(b, c, u) ==
    LET d == Day(u) + 1
        known == Load(c, b.src, d)[d]
        daytime == DaytimeIndex(b, d, d - 1)
        nights == {i \in DOMAIN b.periods :
                     /\ daytime # 0 /\ b.periods[i].isLow /\ b.periods[i].t # None
                     /\ \/ i < daytime /\ MatchesTonight(b.periods[i], d - 1)
                        \/ i > daytime /\ b.periods[i].name = "night" /\ b.periods[i].of = d
                     /\ d \in Occurs(b, b.periods[i].t, i, daytime, d, TRUE)}
    IN  [label |-> "TMORROW", src |-> b.src, date |-> d,
         low |-> Min({known.low} \union {b.periods[i].t : i \in nights}),
         high |-> HighOf(b, daytime, known.high)]

\* current_day_daily_forecast_available: the bulletin still has a high for today.
Available(b, d) == DaytimeIndex(b, d, d) # 0

\* select_clock_slots: today's slot is built, and kept, in any case; tomorrow's is the
\* daily one when the bulletin has no high left for today.  A file that cannot be read
\* counts as none, and that it cannot be written goes unnoticed.
Faults == {"read", "write"}
Select(b, o, c, u, faults) ==
    LET today == TodaySlot(b, o, IF "read" \in faults THEN NoFile ELSE c, u)
        kept == IF "write" \in faults THEN c ELSE today.cache
        tomorrow == TomorrowSlot(b, IF "read" \in faults THEN NoFile ELSE kept, u)
    IN  [slot |-> IF ~Available(b, Day(u)) /\ tomorrow.high # None THEN tomorrow ELSE today.slot,
         cache |-> kept]

-----------------------------------------------------------------------------
NoObservation == [date |-> 0, t |-> None]
Silent == [src |-> "none", t |-> None]
Misread == [src |-> "misread", t |-> None]

TodayInit ==
    /\ now = Begin
    /\ bulletin \in Bulletins[Begin]
    /\ source = bulletin.src
    /\ issues = 1
    /\ lastGood = [bulletin |-> <<>>, observed |-> NoObservation, at |-> 0]
    /\ cache = NoFile
    /\ slot = [label |-> "none", src |-> "none", date |-> 0, low |-> None, high |-> None]
    /\ failures = 0
    /\ said = {}
    /\ heard = [e \in Dates |-> [read |-> Silent, kept |-> Silent]]
    /\ replaced = FALSE

\* What the selection of bulletin b on the date d reads as highs, and keeps if it can write.
Hear(b, d, written) ==
    [e \in Dates |->
       LET i == DaytimeIndex(b, e, d)
           new == IF b.periods[i].of = e THEN [src |-> b.src, t |-> b.periods[i].t] ELSE Misread
       IN  IF i = 0 THEN heard[e]
           ELSE [read |-> new, kept |-> IF written THEN new ELSE heard[e].kept]]

Learn(b, o) == said' = said \union Learnt(b) \union Misdated(b, Day(now))
                            \union {<<b.src, o.date, o.t>> : x \in {o} \ {NoObservation}}

\* What may fail in a selection after n that failed.
Failing(n) == IF n < MaxFailures THEN SUBSET Faults ELSE {{}}
Failed(n, faults) == IF faults = {} THEN n ELSE n + 1

\* The outcome W of selections from b, the faults of each of them in all, after n failures.
Selected(b, o, W, all, n) ==
    /\ cache' = W.cache /\ slot' = W.slot /\ failures' = n /\ Learn(b, o)
    /\ heard' = Hear(b, Day(now), \E faults \in all : "write" \notin faults)
    /\ replaced' = ({"read"} \in all)

\* fetch_observed_today_low: what a nearby station has measured since midnight.
ObservedLow == [date : {Day(now)}, t : Observed]

\* A selection by a run of main from the bulletin, and, if TODAY is then without a low, a
\* second one with the low observed today.  (main selects once before: that is a step of its
\* own.)  Only a run that succeeds to its end saves the bulletin.
Run ==
    /\ \E faults \in Failing(failures) :
         LET first == Select(bulletin, NoObservation, cache, now, faults)
         IN  \/ /\ Selected(bulletin, NoObservation, first, {faults}, Failed(failures, faults))
                /\ lastGood' \in {[bulletin |-> bulletin, observed |-> NoObservation, at |-> now],
                                  lastGood}
             \/ /\ first.slot.label = "TODAY" /\ first.slot.low = None
                /\ \E o \in ObservedLow, again \in Failing(Failed(failures, faults)) :
                     /\ Selected(bulletin, o, Select(bulletin, o, first.cache, now, again),
                                 {faults, again}, Failed(Failed(failures, faults), again))
                     /\ lastGood' \in {[bulletin |-> bulletin, observed |-> o, at |-> now], lastGood}
    /\ UNCHANGED world

\* restore_cached_weather_runtime: the last good forecast is selected from again.
Replay ==
    /\ lastGood.bulletin # <<>> /\ lastGood.bulletin.src = source
    /\ now - lastGood.at <= ReplayFor
    /\ \E faults \in Failing(failures) :
         Selected(lastGood.bulletin, lastGood.observed,
                  Select(lastGood.bulletin, lastGood.observed, cache, now, faults), {faults},
                  Failed(failures, faults))
    /\ UNCHANGED <<world, lastGood>>

\* A quarter passes, and the source may have issued a new bulletin.
QuarterPasses ==
    /\ now < End /\ now' = now + 1
    /\ said' = {x \in said : x[2] >= Day(now')}
    /\ heard' = [e \in Dates |-> IF e < Day(now') THEN [read |-> Silent, kept |-> Silent]
                               ELSE heard[e]]
    /\ replaced' = FALSE
    /\ \/ /\ UNCHANGED <<bulletin, issues>>
       \/ /\ issues < MaxIssues /\ issues' = issues + 1
          /\ bulletin' \in {b \in Bulletins[now'] : b.src = source}
    /\ UNCHANGED <<source, lastGood, cache, slot, failures>>

\* The user chooses another source, which has its own bulletin.
ChangeSource == /\ issues < MaxIssues /\ issues' = issues + 1
                /\ bulletin' \in {b \in Bulletins[now] : b.src # source}
                /\ source' = bulletin'.src /\ replaced' = FALSE
                /\ UNCHANGED <<now, lastGood, cache, slot, failures, said, heard>>

TodayNext == QuarterPasses \/ ChangeSource \/ Run \/ Replay
TodaySpec == TodayInit /\ [][TodayNext]_todayVars

-----------------------------------------------------------------------------
Temperatures == Lows \union {HighOn(l, d) : l \in Lows, d \in Dates} \union {None}

TodayTypes ==
    /\ now \in Begin..End /\ source \in Sources /\ issues \in 1..MaxIssues
    /\ bulletin.src = source /\ failures \in 0..MaxFailures
    /\ lastGood.at \in 0..now
    /\ cache.src \in Sources \union {"none"}
    /\ cache.days \in [Dates -> [low: Temperatures, high: Temperatures]]
    /\ slot.label \in {"none", "TODAY", "TMORROW"} /\ slot.date \in Dates \union {0}
    /\ said \subseteq Sources \X Dates \X Temperatures

\* What the file says of today and tomorrow, and the slot selected last, as long as its
\* date has not passed.
Stated == {[src |-> cache.src, date |-> d, low |-> cache.days[d].low, high |-> cache.days[d].high] :
            d \in Day(now)..Day(now) + 1}
         \union {[src |-> slot.src, date |-> slot.date, low |-> slot.low, high |-> slot.high] :
            x \in {slot.date} \intersect (Day(now)..Day(now) + 1)}

\* A low belongs to the date it is shown or kept for: its source said it of a night whose
\* matching hour is on that date, or it was observed on that date.  This is what the code
\* works out from names such as "Tonight", which read after midnight mean another night.
\* It goes wrong for the bulletin of the day before, and for one without a number for the
\* day it was issued (Misdated), and for no other, however late it is read and whichever
\* numbers it lacks.
OwnDay == \A x \in Stated : x.low # None => <<x.src, x.date, x.low>> \in said

\* A high is one that the source said of that date: the last one read, or, where the write
\* of the file failed, the last one kept.  It is never worked out from the hours: "Displayed
\* H/L temperatures are never calculated from these hourly values" (build_today_slot).  One
\* bulletin is excepted, that of yesterday, whose "Today" the code takes for today.
HighTrue == \A x \in Stated :
    x.high # None =>
        {heard[x.date].read, heard[x.date].kept} \intersect
            {[src |-> x.src, t |-> x.high], Misread} # {}

\* Well-typed, and no low is shown or kept for a date it does not belong to
\* (night_low_occurrence, build_today_slot).
TodayInv == TodayTypes /\ OwnDay

\* What the file knows of today and tomorrow is not forgotten, and a low not made warmer,
\* while the source stays: the page drops a period long before its date has passed.  Only a
\* file that could not be read and could be written is lost (load_today_extremes_cache takes
\* it for a fresh one).
ExtremesKept ==
    [][cache'.src = cache.src /\ ~replaced' =>
         \A d \in Day(now')..Day(now') + 1 :
            /\ cache'.days[d].low <= cache.days[d].low
            /\ cache.days[d].high # None => cache'.days[d].high # None]_todayVars
=============================================================================
