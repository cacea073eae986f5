------------------------------- MODULE Rebase -------------------------------
(***************************************************************************)
(* harmonization/core/rebase.py: re-basing the values of Kreise onto the   *)
(* Gebietsstand (the borders) of a later year with the shares of one key   *)
(* sheet.                                                                  *)
(*                                                                         *)
(* The model carries what the code never sees: the borders themselves, as  *)
(* the Kreis that every Atom of territory belonged to in every year.  Key  *)
(* sheets and observations are what a statistical office derives from such *)
(* a history, so a result can be held against the truth.  An Atom counts   *)
(* for one unit of whatever is observed, and shares are proportional to    *)
(* Atoms: the arithmetic is then exact, and a value that is off is wrong.  *)
(*                                                                         *)
(* Numbers are integers: a share of One is 1.0, and Unit is what one Atom  *)
(* counts for, divisible by every sum of shares a re-basing divides by.    *)
(***************************************************************************)
EXTENDS Integers, FiniteSets, Functions

CONSTANTS
    Atoms,
    Kreise,
    Years,          \* the Stichtage
    Histories,      \* the borders considered: functions from Years and Atoms to Kreise
    Spans,          \* <<from_year, to_year>> of the calls
    Selections,     \* the cells a table may hold: sets of <<Kreis, year>>
    Defects,        \* what may be wrong with the key sheet
    Policies,       \* on_unmatched and on_incomplete together
    One, Tolerance, Unit,
    Null

AllPolicies == {"raise", "drop", "flag"}
AllDefects == {"scaled_within", "scaled_beyond", "negative", "twice", "zero"}

ASSUME YearsAreInts == Years \subseteq Int /\ IsFiniteSet(Years)
ASSUME TerritoryIsFinite == IsFiniteSet(Atoms) /\ IsFiniteSet(Kreise)
ASSUME HistoriesAreBorders == Histories \subseteq [Years -> [Atoms -> Kreise]]
ASSUME ForwardOnly == \A s \in Spans : s \in Years \X Years /\ s[1] < s[2]
ASSUME CellsAreCells == Selections \subseteq (SUBSET (Kreise \X Years)) \ {{}}
ASSUME ChoicesAreKnown == Policies \subseteq AllPolicies /\ Defects \subseteq AllDefects
ASSUME SharesDivide ==
    /\ One \in Nat /\ Unit \in Nat /\ Tolerance \in 1..One - 1
    /\ \A sum \in {One - Tolerance, One, One + Tolerance} : Unit % sum = 0
    /\ \A n \in 1..Cardinality(Atoms) : One % n = 0 /\ Tolerance % n = 0
ASSUME NullIsNoKreis == Null \notin Kreise \cup Int

VARIABLES
    borders,    \* the history of the territory
    call,       \* the arguments of the call, Null before it
    answer      \* its result, Null before it

vars == <<borders, call, answer>>

-----------------------------------------------------------------------------
\* What the statistical offices publish

Held(year, k) == {a \in Atoms : borders[year][a] = k}

Standing(year) == {k \in Kreise : Held(year, k) # {}}

\* The key sheet of a span: who moves which share of itself into whom.
TrueSheet(span) ==
    LET moved(p) == Held(span[1], p[1]) \cap Held(span[2], p[2]) IN
    {[source |-> p[1], target |-> p[2], copy |-> 1,
      share |-> (Cardinality(moved(p)) * One) \div Cardinality(Held(span[1], p[1]))]
        : p \in {p \in Standing(span[1]) \X Standing(span[2]) : moved(p) # {}}}

\* The same with a defect in the rows of Kreis k.
Defective(sheet, defect, k) ==
    LET own == {r \in sheet : r.source = k}
        strangers == {r.target : r \in sheet} \ {r.target : r \in own}
        scaled(top) == {[r EXCEPT !.share = (@ * top) \div One] : r \in own}
        row(t, share) == [source |-> k, target |-> t, copy |-> 1, share |-> share]
    IN  CASE defect = "scaled_within" -> (sheet \ own) \cup scaled(One + Tolerance)
          [] defect = "scaled_beyond" -> (sheet \ own) \cup scaled(One + 2 * Tolerance)
          [] defect = "negative" -> sheet \cup {row(t, -Tolerance) : t \in strangers}
          [] defect = "twice" -> sheet \cup {[r EXCEPT !.copy = 2] : r \in own}
          [] defect = "zero" -> sheet \cup {row(t, 0) : t \in strangers}
          [] OTHER -> sheet

\* A cell of the table: the value, "-" for a Kreis that does not exist in that
\* year, or a value that is withheld.
Cell(k, year, withheld) ==
    IF k \notin Standing(year) THEN [value |-> 0, marker |-> "-"]
    ELSE IF withheld THEN [value |-> Null, marker |-> "."]
    ELSE [value |-> Unit * Cardinality(Held(year, k)), marker |-> ""]

Markers == {"", "-", "."}

-----------------------------------------------------------------------------
\* rebase, over a call c

Sources(c) == {r.source : r \in c.sheet}
Targets(c) == {r.target : r \in c.sheet}
From(c) == c.span[1]
To(c) == c.span[2]
Observed(c) == DOMAIN c.cells

\* A row that moves nothing is ignored throughout.
Moving(rows) == {r \in rows : r.share # 0}

ShareSum(c, k) == SumFunction([r \in {r \in c.sheet : r.source = k} |-> r.share])

\* The Kreise that a sheet side makes valid, and the other side.
Valid(c, year) == IF year <= From(c) THEN Sources(c) ELSE Targets(c)
Other(c, year) == IF year <= From(c) THEN Targets(c) ELSE Sources(c)

Requested(c) == {k \in Sources(c) : \E y \in Years : y <= From(c) /\ <<k, y>> \in Observed(c)}

KeyYears(c, k) == {y \in Years : <<k, y>> \in Observed(c) /\ k \in Valid(c, y)}

Issue(kind, key, year, target) == [kind |-> kind, key |-> key, year |-> year, target |-> target]

OffBy(c, k) == LET d == ShareSum(c, k) - One IN IF d < 0 THEN -d ELSE d

\* What makes the rows of a requested Kreis useless.
SharesRefused(c, k) ==
    \/ \E r \in c.sheet : r.source = k /\ r.share < 0
    \/ \E r \in c.sheet : r.source = k /\ r.copy > 1
    \/ OffBy(c, k) > Tolerance

SheetIssues(c) ==
    {Issue("zero_share", r.source, Null, Null) : r \in {r \in c.sheet : r.share = 0}}
    \cup {Issue("invalid_share", r.source, Null, Null) : r \in {r \in c.sheet : r.share < 0}}
    \cup {Issue("duplicate_pair", r.source, Null, Null) : r \in {r \in c.sheet : r.copy > 1}}
    \cup {Issue("share_sum", k, Null, Null) : k \in {k \in Sources(c) : OffBy(c, k) > Tolerance}}
    \cup {Issue("renormalized", k, Null, Null)
            : k \in {k \in Requested(c) : OffBy(c, k) \in 1..Tolerance}}

\* Fault: what else moves into the Kreis does not count.
NothingLeft(sheet, k) ==
    \E r \in sheet : r.target = k /\ Moving({q \in sheet : q.source = k}) = {r}

\* k maps only onto itself, whole, and nothing else maps into it.
Unchanged(sheet, k) ==
    \E r \in sheet :
        /\ Moving({q \in sheet : q.source = k}) = {r}
        /\ Moving({q \in sheet : q.target = k}) = {r}
        /\ r.share \in One - Tolerance .. One + Tolerance

\* The sheets between the years of k's observations and those of the key sheet, each
\* with the year it is reported under.
Between(c, k) ==
    LET years == KeyYears(c, k) IN
    {<<y, <<y, y + 1>>>> : y \in {y \in Years : y < From(c) /\ \E o \in years : o <= y}}
    \cup {<<y, <<y - 1, y>>>> : y \in {y \in Years : y > To(c) /\ \E o \in years : o >= y}}

Changed(c, k) ==
    \E b \in Between(c, k) : b[2] \in DOMAIN c.others /\ ~Unchanged(c.others[b[2]], k)

UnverifiedIssues(c) ==
    UNION {{Issue("unverified_year", k, b[1], Null)
              : b \in {b \in Between(c, k) : b[2] \notin DOMAIN c.others}} : k \in Kreise}

\* A value for a Kreis that the sheet says did not exist.
Contradicted(c) ==
    \E o \in Observed(c) :
        /\ o[1] \in Other(c, o[2]) \ Valid(c, o[2])
        /\ c.cells[o].marker = "" /\ c.cells[o].value # Null

Excluded(c) == {o \in Observed(c) : o[1] \in Other(c, o[2]) \ Valid(c, o[2])}

Unmatched(c) == {o \in Observed(c) : o[1] \notin Valid(c, o[2]) \cup Other(c, o[2])}

\* What is moved into t in a year, row by row.
Parts(c, t, year) ==
    {r \in Moving(c.sheet) : r.target = t /\ <<r.source, year>> \in Observed(c)}

Reached(c) ==
    {p \in Targets(c) \X {y \in Years : y <= From(c)} : Parts(c, p[1], p[2]) # {}}

Feeders(c, t) == {r.source : r \in Moving({r \in c.sheet : r.target = t})}

Missing(c, t, year) == Feeders(c, t) \ {r.source : r \in Parts(c, t, year)}

Incomplete(c) == {p \in Reached(c) : Missing(c, p[1], p[2]) # {}}

Value(c, k, year) == c.cells[<<k, year>>].value

Nulls(c, t, year) == {r \in Parts(c, t, year) : Value(c, r.source, year) = Null}

\* Fault: shares within the tolerance are used as they are.
NotRenormalized(c, r, value) == (r.share * value) \div One

\* weight * value, the weight being renormalized.
Weighted(c, r, value) == (r.share * value) \div ShareSum(c, r.source)

Row(k, year, value, flag, sources, marker) ==
    [key |-> k, year |-> year, value |-> value, flag |-> flag, sources |-> sources,
     marker |-> marker]

PassesThrough(c, t, year) ==
    /\ Missing(c, t, year) = {} /\ Feeders(c, t) = {t}
    /\ \E r \in Parts(c, t, year) : r.share = ShareSum(c, t)

ObservedRow(c, k, year) ==
    Row(k, year, Value(c, k, year), "observed", {}, c.cells[<<k, year>>].marker)

RebasedRow(c, t, year) ==
    LET parts == Parts(c, t, year)
        value == IF Nulls(c, t, year) = {} /\ Missing(c, t, year) = {}
                 THEN SumFunction([r \in parts |-> Weighted(c, r, Value(c, r.source, year))])
                 ELSE Null
    IN  Row(t, year, value, "rebased", {r.source : r \in parts}, "")

Answered(c) == IF c.incomplete = "drop" THEN Reached(c) \ Incomplete(c) ELSE Reached(c)

\* What is on the target borders as it is.
Later(c) == {o \in Observed(c) : o[2] >= To(c) /\ o[1] \in Targets(c)}

Rows(c) ==
    {ObservedRow(c, o[1], o[2]) : o \in Later(c)}
    \cup {IF PassesThrough(c, p[1], p[2]) THEN ObservedRow(c, p[1], p[2])
                                          ELSE RebasedRow(c, p[1], p[2]) : p \in Answered(c)}

RowIssues(c, t, year) ==
    {Issue("missing_source", k, year, t) : k \in Missing(c, t, year)}
    \cup IF PassesThrough(c, t, year) THEN {} ELSE
         {Issue("zero_marker", r.source, year, t)
            : r \in {r \in Parts(c, t, year) : c.cells[<<r.source, year>>].marker = "-"}}
         \cup {Issue("null_input", r.source, year, t) : r \in Nulls(c, t, year)}

\* Fault: a cell that does not apply is left out without a word.
ExcludedInSilence(c) == {}

ExcludedIssues(c) == {Issue("not_applicable", o[1], o[2], Null) : o \in Excluded(c)}

Issues(c) ==
    SheetIssues(c) \cup UnverifiedIssues(c) \cup ExcludedIssues(c)
    \cup (IF c.unmatched = "flag" THEN {Issue("unmatched", o[1], o[2], Null) : o \in Unmatched(c)}
          ELSE {})
    \cup UNION {RowIssues(c, p[1], p[2]) : p \in Answered(c)}

\* The first check that fails, in the code's order.
Refusal(c) ==
    IF c.sheet = {} THEN "no_sheet"
    ELSE IF \E o \in Observed(c) : From(c) < o[2] /\ o[2] < To(c) THEN "gap_year"
    ELSE IF \E k \in Requested(c) : SharesRefused(c, k) THEN "shares"
    ELSE IF \E k \in Kreise : Changed(c, k) THEN "changed"
    ELSE IF Contradicted(c) THEN "validity"
    ELSE IF Unmatched(c) # {} /\ c.unmatched = "raise" THEN "unmatched"
    ELSE IF Incomplete(c) # {} /\ c.incomplete = "raise" THEN "incomplete"
    ELSE "none"

-----------------------------------------------------------------------------

Init == borders \in Histories /\ call = Null /\ answer = Null

\* The arguments of a call.  others: the sheets of single years that were given too.
Arguments(span, sheet, given, cells, policy) ==
    [span |-> span, sheet |-> sheet, others |-> [s \in given |-> TrueSheet(s)],
     cells |-> cells, unmatched |-> policy, incomplete |-> policy]

Rebase(c) ==
    /\ call' = c
    /\ answer' = LET why == Refusal(c) IN
                 IF why # "none" THEN [outcome |-> why, rows |-> {}, issues |-> {}]
                 ELSE [outcome |-> "result", rows |-> Rows(c), issues |-> Issues(c)]
    /\ UNCHANGED borders

SingleYears == {s \in Years \X Years : s[2] = s[1] + 1}

\* A table as published, and the sheets of all the years or of none.
CallOnTrueSheet ==
    /\ call = Null
    /\ \E span \in Spans, given \in {{}, SingleYears}, cells \in Selections, policy \in Policies :
        Rebase(Arguments(span, TrueSheet(span), given, [o \in cells |-> Cell(o[1], o[2], FALSE)],
                         policy))

\* A table with a withheld value, or a key sheet with a defect.
CallOnFaultyInput ==
    /\ call = Null
    /\ \E span \in Spans, cells \in Selections, policy \in Policies :
        \/ \E lost \in cells :
              Rebase(Arguments(span, TrueSheet(span), SingleYears,
                               [o \in cells |-> Cell(o[1], o[2], o = lost)], policy))
        \/ \E defect \in Defects, k \in Standing(span[1]) :
              Rebase(Arguments(span, Defective(TrueSheet(span), defect, k), SingleYears,
                               [o \in cells |-> Cell(o[1], o[2], FALSE)], policy))

\* The key sheet is not among those given.
CallWithoutSheet ==
    /\ call = Null
    /\ \E span \in Spans, cells \in Selections, policy \in Policies :
        Rebase(Arguments(span, {}, SingleYears \ {span},
                         [o \in cells |-> Cell(o[1], o[2], FALSE)], policy))

Next == CallOnTrueSheet \/ CallOnFaultyInput \/ CallWithoutSheet

Spec == Init /\ [][Next]_vars

-----------------------------------------------------------------------------
\* Properties

\* The issues that put a row's value in doubt: the sheets that would show a change
\* of its Kreise are not given, or a "-" was taken as 0.
Doubts(row) ==
    {i \in answer.issues :
        /\ i.kind \in {"unverified_year", "zero_marker"}
        /\ i.key \in row.sources \cup {row.key}
        /\ i.year \in Years
        /\ IF row.year <= From(call) THEN i.year \in row.year .. From(call)
                                     ELSE i.year \in To(call) .. row.year}

\* A value that no issue casts doubt on is the true one: what the Kreis has on the
\* borders of to_year, whatever happened to the borders before, between and after
\* the years of the key sheet, and whatever is wrong with the rows of other Kreise.
TrueOnTargetBorders ==
    answer # Null =>
        \A row \in answer.rows :
            row.value # Null /\ Doubts(row) = {}
                => row.value = Unit * Cardinality(Held(To(call), row.key))

\* "totals are conserved": what was observed for the Kreise of a year before the
\* reform is what their re-based successors have, unless a row says that it has no
\* value or the caller had incomplete rows dropped.
TotalConserved ==
    answer # Null /\ answer.outcome = "result" /\ call.incomplete # "drop" =>
        \A y \in {y \in Years : y <= From(call)} :
            (\A row \in answer.rows : row.year = y => row.value # Null) =>
                SumFunction([row \in {row \in answer.rows : row.year = y} |-> row.value]) =
                SumFunction([o \in {o \in Observed(call) : o[2] = y /\ o[1] \in Sources(call)}
                                 |-> call.cells[o].value])

\* "a partial sum" is no value: a value for a year before the reform counts every
\* Kreis that moved anything into the row's, each with a value of its own.
NoPartialSum ==
    answer # Null =>
        \A row \in answer.rows :
            row.year <= From(call) /\ row.value # Null =>
                \A k \in Feeders(call, row.key) :
                    <<k, row.year>> \in Observed(call) /\ Value(call, k, row.year) # Null

\* "whatever the arithmetic could not use is reported as data": a row without a value
\* has the sign of a withheld one or an issue that names it, and every cell of the
\* table is in a row or in an issue, unless the caller had such cells dropped.
NothingLost ==
    answer # Null /\ answer.outcome = "result" =>
        /\ \A row \in answer.rows :
              row.value = Null =>
                  \/ row.marker = "."
                  \/ \E i \in answer.issues :
                        /\ i.kind \in {"missing_source", "null_input"}
                        /\ i.target = row.key /\ i.year = row.year
        /\ \A o \in Observed(call) :
              \/ \E row \in answer.rows : row.year = o[2] /\ o[1] \in row.sources \cup {row.key}
              \/ \E i \in answer.issues : i.key = o[1] /\ i.year = o[2]
              \/ o \in Unmatched(call) /\ call.unmatched = "drop"
              \/ /\ call.incomplete = "drop"
                 /\ \E p \in Incomplete(call) : p[2] = o[2] /\ o[1] \in Feeders(call, p[1])

\* A call with nothing wrong: the borders are those of the key sheet but for its reform,
\* the sheets that show it are given, and the table has a value for each Kreis of its years.
Flawless(c) ==
    /\ Observed(c) # {} /\ c.sheet = TrueSheet(c.span)
    /\ \A y \in Years :
          /\ y <= From(c) => borders[y] = borders[From(c)]
          /\ y >= To(c) => borders[y] = borders[To(c)]
          /\ y < From(c) => <<y, y + 1>> \in DOMAIN c.others
          /\ y > To(c) => <<y - 1, y>> \in DOMAIN c.others
    /\ \A o \in Observed(c) :
          /\ o[2] <= From(c) \/ o[2] >= To(c)
          /\ {p[1] : p \in {p \in Observed(c) : p[2] = o[2]}} = Standing(o[2])
          /\ c.cells[o].value # Null

\* No false alarm: a call with nothing wrong is neither refused nor doubted, and gives each
\* Kreis of the target borders its true value in each year of the table.
FlawlessComesThrough ==
    answer # Null /\ Flawless(call) =>
        /\ answer.outcome = "result" /\ answer.issues = {}
        /\ \A row \in answer.rows : row.value = Unit * Cardinality(Held(To(call), row.key))
        /\ \A o \in Observed(call) :
              {row.key : row \in {row \in answer.rows : row.year = o[2]}} = Standing(To(call))
=============================================================================
