---------------------------- MODULE NutsMapping ----------------------------
(***************************************************************************)
(* harmonization/core/nuts.py and harmonization/nuts.py: AGS keys to NUTS  *)
(* codes, through the crosswalk of one Gebietsstand and, for Kreise that   *)
(* are gone by then, the change files of the years before.                 *)
(*                                                                         *)
(* As in Rebase, the model carries what the files were derived from: the   *)
(* Kreis of every Gemeinde in every year, and the NUTS-3 region of every   *)
(* Gemeinde.  The crosswalk is of the last year.  A Gemeinde's key names   *)
(* its Kreis, so it changes with it.                                       *)
(***************************************************************************)
EXTENDS Integers, Sequences

CONSTANTS
    Gemeinden, Kreise, Regions,
    Last,           \* the years are 1 to Last, the crosswalk's Gebietsstand
    Histories,      \* the borders considered: functions from years and Gemeinden to Kreise
    Geographies,    \* the regions considered: functions from Gemeinden
    HistoryYears,   \* the history_years considered
    Columns,        \* the key columns considered: sequences of Keys and Null
    Null

Years == 1..Last
Levels == {"Land", "Kreis", "Gemeinde", "ARS", "malformed"}

\* A key by what is read off it; Null where it says nothing.
Keys == [level : Levels, kreis : Kreise \cup {Null}, gemeinde : Gemeinden \cup {Null}]

ASSUME LastIsAYear == Last \in Nat \ {0}
ASSUME HistoriesAreBorders == Histories \subseteq [Years -> [Gemeinden -> Kreise]]
ASSUME GeographiesAreRegions == Geographies \subseteq [Gemeinden -> Regions]
ASSUME FilesAreOfYears == HistoryYears \subseteq SUBSET (2..Last)
ASSUME ColumnsAreKeys == Columns \subseteq Seq(Keys \cup {Null}) \ {<<>>}
ASSUME NullIsNothing == Null \notin Keys \cup Years \cup Regions \cup Kreise \cup Gemeinden

VARIABLES
    borders,        \* the Kreis of each Gemeinde, year by year
    region,         \* the NUTS-3 region of each Gemeinde
    history_years,  \* the change files AgsToNutsFeature reads
    cached,         \* the reference files in the cache: change files by year, and Lau
    call,           \* the arguments of the call, Null before it
    answer          \* its result, Null before it

vars == <<borders, region, history_years, cached, call, answer>>

-----------------------------------------------------------------------------
\* What the offices publish

Held(year, k) == {g \in Gemeinden : borders[year][g] = k}

LauRows == {[kreis |-> borders[Last][g], gemeinde |-> g, nuts3 |-> region[g]] : g \in Gemeinden}

\* The Kreis rows of a change file: who gave Gemeinden to whom since the year before.
\* Its other rows, Gemeinden and new names, play no part but in the years covered.
ChangeFile(year) ==
    {[from |-> borders[year - 1][g], to |-> borders[year][g], year |-> year]
        : g \in {g \in Gemeinden : borders[year - 1][g] # borders[year][g]}}

ChangeYears == 2..Last

-----------------------------------------------------------------------------
\* map_ags_to_nuts, over the change files of given years

Changes(years) == UNION {ChangeFile(y) : y \in years}

CoveredYears(years) == {Last} \cup {ch.year : ch \in Changes(years)}

YearRefused(data_year, years) ==
    /\ data_year # Null
    /\ (\A y \in CoveredYears(years) : data_year < y) \/ (\A y \in CoveredYears(years) : y < data_year)

\* _kreis_index refuses a crosswalk with a Kreis in two regions.
SomeKreisSpans == \E p, q \in LauRows : p.kreis = q.kreis /\ p.nuts3 # q.nuts3

KreisIndex(k) == {row.nuts3 : row \in {row \in LauRows : row.kreis = k}}

\* Fault: a later change file overrides the earlier ones.
LatestCandidates(k, years) ==
    {ch.to : ch \in {ch \in Changes(years) :
        ch.from = k /\ \A other \in Changes(years) : other.from = k => other.year <= ch.year}}

\* _kreis_redirect_candidates.
Candidates(k, years) == {ch.to : ch \in {ch \in Changes(years) : ch.from = k}}

\* Fault: the first candidate is as good as any.
NeverAmbiguous(k, years) == FALSE

Ambiguous(k, years) == \E a, b \in Candidates(k, years) : a # b

\* The regions _resolve_one finds for a key: one, or none.
Resolve(key, years) ==
    CASE key.level = "Kreis" ->
            IF KreisIndex(key.kreis) # {} THEN KreisIndex(key.kreis)
            ELSE IF Ambiguous(key.kreis, years) THEN {}
            ELSE UNION {KreisIndex(k) : k \in Candidates(key.kreis, years)}
      [] key.level = "Gemeinde" ->
            {row.nuts3 : row \in {row \in LauRows : row.kreis = key.kreis /\ row.gemeinde = key.gemeinde}}
      [] OTHER -> {}

Reason(key, years) ==
    CASE key.level = "Kreis" -> IF Ambiguous(key.kreis, years) THEN "ambiguous" ELSE "not found"
      [] key.level = "Gemeinde" -> "not found"
      [] key.level = "malformed" -> "malformed"
      [] OTHER -> "out of scope"

Reasons == {"ambiguous", "not found", "malformed", "out of scope"}

Matched(keys, years) ==
    UNION {{[key |-> k, nuts3 |-> r] : r \in Resolve(k, years)} : k \in keys}

Unmatched(keys, years) ==
    {[key |-> k, reason |-> Reason(k, years)] : k \in {k \in keys : Resolve(k, years) = {}}}

\* The first check that fails, in the code's order.
Refusal(keys, years, data_year, policy) ==
    IF YearRefused(data_year, years) THEN "year"
    ELSE IF SomeKreisSpans THEN "spans regions"
    ELSE IF policy = "raise" /\ Unmatched(keys, years) # {} THEN "unmatched"
    ELSE "none"

-----------------------------------------------------------------------------
\* AgsToNutsFeature

Present(column) == {column[i] : i \in {i \in DOMAIN column : column[i] # Null}}

\* Fault: a row without a key has nothing to say.
NullSaysNothing == [key |-> Null, nuts3 |-> Null, unmatched |-> ""]

NullRow == [key |-> Null, nuts3 |-> Null, unmatched |-> "null key cell"]

Row(key, years) ==
    IF key = Null THEN NullRow
    ELSE IF Resolve(key, years) = {}
         THEN [key |-> key, nuts3 |-> Null, unmatched |-> Reason(key, years)]
         ELSE [key |-> key, nuts3 |-> CHOOSE r \in Resolve(key, years) : TRUE, unmatched |-> ""]

\* The crosswalk, beside the change files of years.
Lau == 0
Files(years) == {Lau} \cup years

Refused(why) == [outcome |-> why, matched |-> {}, unmatched |-> {}, rows |-> <<>>]

-----------------------------------------------------------------------------

Init ==
    /\ borders \in Histories
    /\ region \in Geographies
    /\ history_years \in HistoryYears
    /\ cached = {}
    /\ call = Null
    /\ answer = Null

\* fetch_reference: the change files one after the other, then the crosswalk; the first
\* that cannot be had ends it.
FetchReference ==
    /\ call = Null
    /\ \E got \in SUBSET (Files(history_years) \ cached) :
        /\ \A year \in got \ {Lau}, before \in history_years :
              before < year => before \in cached \cup got
        /\ Lau \in got => history_years \subseteq cached \cup got
        /\ cached' = cached \cup got
    /\ UNCHANGED <<borders, region, history_years, call, answer>>

\* map_ags_to_nuts, called directly: with any change files, a year, and any policy.
MapAgsToNuts ==
    /\ call = Null
    /\ \E column \in Columns, years \in SUBSET ChangeYears, data_year \in Years \cup {Null},
          policy \in {"raise", "drop", "flag"} :
        LET keys == Present(column)
            why == Refusal(keys, years, data_year, policy)
        IN  /\ call' = [column |-> column, years |-> years, policy |-> policy]
            /\ answer' =
                  IF why # "none" THEN Refused(why)
                  ELSE [outcome |-> "result", matched |-> Matched(keys, years),
                        unmatched |-> IF policy = "drop" THEN {} ELSE Unmatched(keys, years),
                        rows |-> <<>>]
    /\ UNCHANGED <<borders, region, history_years, cached>>

\* calculate_feature, for one column.
CalculateFeature ==
    /\ call = Null
    /\ \E column \in Columns, policy \in {"raise", "flag"} :
        LET keys == Present(column)
            years == history_years
            why == Refusal(keys, years, Null, policy)
        IN  /\ call' = [column |-> column, years |-> years, policy |-> policy]
            /\ answer' =
                  IF ~(Files(years) \subseteq cached) THEN Refused("cache miss")
                  ELSE IF policy = "raise" /\ Null \in {column[i] : i \in DOMAIN column}
                       THEN Refused("null key")
                  ELSE IF why # "none" THEN Refused(why)
                  ELSE [outcome |-> "table", matched |-> Matched(keys, years),
                        unmatched |-> Unmatched(keys, years),
                        rows |-> [i \in DOMAIN column |-> Row(column[i], years)]]
    /\ UNCHANGED <<borders, region, history_years, cached>>

Next == FetchReference \/ MapAgsToNuts \/ CalculateFeature

Spec == Init /\ [][Next]_vars

-----------------------------------------------------------------------------
\* Properties

Outcomes == {"year", "spans regions", "unmatched", "cache miss", "null key", "result", "table"}

\* A key has one region or one reason, whichever files are read.
TypeOK ==
    /\ borders \in [Years -> [Gemeinden -> Kreise]]
    /\ region \in [Gemeinden -> Regions]
    /\ history_years \in HistoryYears
    /\ cached \subseteq Files(ChangeYears)
    /\ answer # Null =>
          /\ answer.outcome \in Outcomes
          /\ answer.matched \subseteq [key : Keys, nuts3 : Regions]
          /\ answer.unmatched \subseteq [key : Keys, reason : Reasons]
          /\ \A m, n \in answer.matched : m.key = n.key => m = n
          /\ \A m \in answer.matched, u \in answer.unmatched : m.key # u.key

\* The years in which a Kreis stood, and whether it is gone by the crosswalk's.
Standing(k) == {y \in Years : Held(y, k) # {}}
Retired(k) == Standing(k) # {} /\ Last \notin Standing(k)

LastYear(k) == CHOOSE y \in Standing(k) : \A z \in Standing(k) : z <= y

\* "Picking either silently could assign the wrong region": the region a Kreis is
\* mapped to is that of every Gemeinde it has or, retired, last had, if the change files
\* of all years are read and the Kreis it went to has since given nothing away.
RegionIsTrue ==
    answer # Null =>
        \A m \in answer.matched :
            m.key.level = "Kreis" /\ (Retired(m.key.kreis) =>
                /\ call.years = ChangeYears
                /\ \A k \in Candidates(m.key.kreis, call.years) : Candidates(k, call.years) = {})
            => \A g \in Held(LastYear(m.key.kreis), m.key.kreis) : region[g] = m.nuts3

\* What the files that are read settle: a Kreis or a Gemeinde that stands, and a Kreis that
\* is gone and has never given anything but to one Kreis, which stands.
Settled(key, years) ==
    \/ key.level = "Kreis" /\ Last \in Standing(key.kreis)
    \/ key.level = "Gemeinde" /\ key.gemeinde \in Held(Last, key.kreis)
    \/ /\ key.level = "Kreis" /\ Retired(key.kreis) /\ LastYear(key.kreis) + 1 \in years
       /\ \E k \in Kreise :
             /\ Last \in Standing(k)
             /\ \A y \in ChangeYears : \A g \in Held(y - 1, key.kreis) : borders[y][g] \in {key.kreis, k}

\* The other side of RegionIsTrue: what is settled is found, and an error over keys
\* without a region has one that is not settled among them.
SettledIsFound ==
    answer # Null =>
        /\ answer.outcome \in {"result", "table"} =>
              \A key \in Present(call.column) :
                 Settled(key, call.years) => \E m \in answer.matched : m.key = key
        /\ answer.outcome = "unmatched" =>
              \E key \in Present(call.column) : ~Settled(key, call.years)

\* A caller with fewer change files is told no other region than one with all of
\* them, only fewer regions or, for what turns out to be a split, one where the
\* other is told "ambiguous".
FilesAgree ==
    answer # Null =>
        \A m \in answer.matched :
            \/ m \in Matched({m.key}, ChangeYears)
            \/ m.key.level = "Kreis" /\ Ambiguous(m.key.kreis, ChangeYears)

\* "row-aligned": every row of the table says its own key, and the region of that key or
\* why there is none; where the caller wants an error, there are regions only.
RowsAnswered ==
    answer # Null /\ answer.outcome = "table" =>
        \A i \in DOMAIN call.column :
            LET row == answer.rows[i] IN
            /\ row.key = call.column[i]
            /\ row.nuts3 # Null <=> row.unmatched = ""
            /\ row.nuts3 # Null => [key |-> row.key, nuts3 |-> row.nuts3] \in answer.matched
            /\ call.policy = "raise" => row.nuts3 # Null

\* "GV-ISys change files that redirect a retired Kreis key to its successor": what a
\* retired Kreis is redirected to took over Gemeinden it had when it was retired.
RedirectIsSuccessor ==
    answer # Null =>
        \A m \in answer.matched :
            m.key.level = "Kreis" /\ Retired(m.key.kreis) =>
                \A k \in Candidates(m.key.kreis, call.years) :
                    \E ch \in ChangeFile(LastYear(m.key.kreis) + 1) : ch.from = m.key.kreis /\ ch.to = k
=============================================================================
