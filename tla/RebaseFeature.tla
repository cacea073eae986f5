--------------------------- MODULE RebaseFeature ----------------------------
(***************************************************************************)
(* harmonization/rebase.py and harmonization/base.py: outputs requested    *)
(* together of one table of Kreise, each re-based with its own options,    *)
(* stacked into one frame with a row per Kreis and year.                   *)
(*                                                                         *)
(* A feature is an output, one part of it or all of them, and its options: *)
(* the span (Null where a year is none), and the policies (Null if unset). *)
(* A frame holds for every output the rows of its columns.                 *)
(***************************************************************************)
EXTENDS Rebase, SequencesExt

CONSTANTS
    Outputs,        \* the outputs in the order of their names
    KreisOrder,     \* the Kreise in the order of their keys
    Tables,         \* its first variable, and the cells as in Selections, or none
    Requests,       \* sets of features
    KeyFiles        \* the spans a key file may have sheets of

ASSUME NamesInOrder ==
    /\ KreisOrder \in Seq(Kreise) /\ ToSet(KreisOrder) = Kreise
    /\ IsInjective(KreisOrder) /\ IsInjective(Outputs)
ASSUME TablesAreTables == Tables \subseteq [variable : STRING, cells : SUBSET (Kreise \X Years)]
ASSUME SpansForward == \A file \in KeyFiles : \A s \in file : s \in Years \X Years /\ s[1] < s[2]

VARIABLES
    keys,           \* the spans the cached key file has sheets of, Null before it is cached
    asked,          \* the table and the features asked for, Null before
    frame           \* the frame of them, Null before

featureVars == <<keys, asked, frame>>

-----------------------------------------------------------------------------
\* base.py

PartOrder == <<"", "~key", "~value">>
PartRank(f) == CHOOSE i \in DOMAIN PartOrder : PartOrder[i] = f.part

\* by_base: of an output's features the last one in the order of names decides.
OutputsOf(features) == SelectSeq(Outputs, LAMBDA o : \E f \in features : f.output = o)
ByBase(features, output) ==
    LET own == {f \in features : f.output = output}
    IN CHOOSE f \in own : \A g \in own : PartRank(g) <= PartRank(f)

-----------------------------------------------------------------------------
\* _rebase

\* Without rows or issues: a refusal, or the result of a table without rows.
Empty(outcome) == [outcome |-> outcome, rows |-> {}, issues |-> {}]
PolicyOf(option) == IF option = Null THEN "raise" ELSE option

\* A request of rebase for the feature f: a sheet of the file or none.
CallFor(table, f, file) ==
    [span |-> f.span, sheet |-> IF f.span \in file THEN TrueSheet(f.span) ELSE {},
     others |-> [s \in file \cap {s \in Years \X Years : s[2] = s[1] + 1} |-> TrueSheet(s)],
     cells |-> table.cells, unmatched |-> PolicyOf(f.unmatched), incomplete |-> PolicyOf(f.incomplete)]

Result(table, f, file) ==
    IF Null \in ToSet(f.span) THEN Empty("no_year")
    ELSE IF DOMAIN table.cells = {} THEN Empty("result")
    ELSE IF table.variable # "KREISE" THEN Empty("no_kreise")
    ELSE IF {PolicyOf(f.unmatched), PolicyOf(f.incomplete)} \subseteq AllPolicies /\ f.span[1] < f.span[2]
    THEN LET c == CallFor(table, f, file) IN
         IF Refusal(c) # "none" THEN Empty(Refusal(c))
         ELSE [outcome |-> "result", rows |-> Rows(c), issues |-> Issues(c)]
    ELSE Empty("bad_argument")

-----------------------------------------------------------------------------
\* _columns and _check_aligned

Place(k) == CHOOSE i \in DOMAIN KreisOrder : KreisOrder[i] = k
Before(p, q) == p.year < q.year \/ (p.year = q.year /\ Place(p.key) < Place(q.key))
Sorted(result) ==
    LET places == 1..Cardinality(result.rows)
    IN CHOOSE s \in [places -> result.rows] : \A i, j \in places : i < j => Before(s[i], s[j])

\* Fault: an issue is shown with the Kreis it names, not with the one it affects.
IssuesOfTheKey(row, issues) ==
    {i \in issues : i.key = row.key /\ i.year \in {Null, row.year}}

\* _issues_for
IssuesFor(row, issues) ==
    {i \in issues : (row.key \in {i.key, i.target} \/ i.key \in row.sources) /\ i.year \in {Null, row.year}}

\* The issues that touch a row, and with the span on every row those that touch none.
Columns(span, result) ==
    LET rows == Sorted(result)
        attached == UNION {IssuesFor(row, result.issues) : row \in result.rows}
    IN [r \in DOMAIN rows |->
           [is |-> rows[r], issues |-> IssuesFor(rows[r], result.issues),
            provenance |-> [span |-> span, elsewhere |-> result.issues \ attached]]]

\* Fault: as many rows are taken for the same rows.
SameLength(first, other) == Len(first) = Len(other)

\* _check_aligned, of two outputs.
Aligned(first, other) ==
    [r \in DOMAIN first |-> <<first[r].key, first[r].year>>] = [r \in DOMAIN other |-> <<other[r].key, other[r].year>>]

NoFrame(why) == [ended |-> why, columns |-> <<>>]

\* calculate_feature
FrameOf(table, features, file) ==
    LET outputs == OutputsOf(features)
        feature == [i \in DOMAIN outputs |-> ByBase(features, outputs[i])]
        result == [i \in DOMAIN outputs |-> Result(table, feature[i], file)]
        refused == SelectSeq(result, LAMBDA r : r.outcome # "result")
    IN IF refused # <<>> THEN NoFrame(Head(refused).outcome)
       ELSE IF \E i \in DOMAIN outputs : ~Aligned(Sorted(result[1]), Sorted(result[i])) THEN NoFrame("not_aligned")
       ELSE [ended |-> "frame", columns |-> [i \in DOMAIN outputs |-> Columns(feature[i].span, result[i])]]

-----------------------------------------------------------------------------

\* The cache may hold the key file of an earlier program.
FeatureInit == keys \in KeyFiles \cup {Null} /\ asked = Null /\ frame = Null

\* fetch_reference: offline first, a miss is fetched once; a file of another digest is none.
FetchReference ==
    /\ frame = Null
    /\ \/ keys = Null /\ keys' \in KeyFiles
       \/ UNCHANGED keys
    /\ UNCHANGED <<asked, frame>>

\* load_keys reads the file from the cache, and sends for nothing.
CalculateFeature ==
    /\ frame = Null
    /\ \E t \in Tables, features \in Requests : \E withheld \in SUBSET t.cells :
          LET table == [t EXCEPT !.cells = [o \in t.cells |-> Cell(o[1], o[2], o \in withheld)]]
          IN /\ Cardinality(withheld) <= 1
             /\ asked' = [table |-> table, features |-> features]
             /\ frame' = IF keys = Null THEN NoFrame("cache_miss") ELSE FrameOf(table, features, keys)
    /\ UNCHANGED keys

FeatureNext == FetchReference \/ CalculateFeature

\* The feature and the call it is made of, on one territory.
FeatureSpec ==
    /\ Init /\ FeatureInit
    /\ [][(FeatureNext /\ UNCHANGED vars) \/ (Next /\ UNCHANGED featureVars)]_<<vars, featureVars>>

-----------------------------------------------------------------------------
\* Properties

IssuesShown(column) == UNION {column[r].issues \cup column[r].provenance.elsewhere : r \in DOMAIN column}

\* What a row of a frame puts side by side is of one Kreis and one year: the value of every
\* output is that of the Kreis any other output names there, on the borders of the year its
\* own provenance names, unless an issue of the frame casts doubt on it; even if the outputs
\* were re-based with options of their own (rebase.py:_check_aligned).
OutputsShareTheirRows ==
    frame # Null =>
        \A p, q \in DOMAIN frame.columns : \A r \in DOMAIN frame.columns[p] :
            LET row == frame.columns[p][r].is
                other == frame.columns[q][r].is
                span == frame.columns[p][r].provenance.span
                doubted == \E i \in IssuesShown(frame.columns[p]) :
                              i.kind \in {"unverified_year", "zero_marker"} /\ i.key \in row.sources \cup {row.key}
            IN /\ row.year = other.year
               /\ row.value # Null /\ ~doubted =>
                      row.value = Unit * Cardinality(Held(span[2], other.key))

\* "the issue records touching that row": a row without a value that is not a withheld cell
\* itself tells why, in its own issues (rebase.py:_issues_for).
NullsExplainedOnTheirRow ==
    frame # Null =>
        \A p \in DOMAIN frame.columns : \A r \in DOMAIN frame.columns[p] :
            LET row == frame.columns[p][r].is IN
            row.value = Null /\ row.marker # "." =>
                \E i \in frame.columns[p][r].issues :
                    i.kind \in {"missing_source", "null_input"} /\ i.target = row.key /\ i.year = row.year

\* "Issues no output row carries keep their full record, never dropped": a cell of the table
\* is in a row of every output or in an issue it shows, unless the caller has such
\* cells dropped (rebase.py:_columns).
NoIssueDropped ==
    frame # Null /\ frame.ended = "frame" =>
        \A p \in DOMAIN frame.columns :
            LET column == frame.columns[p]
                f == ByBase(asked.features, OutputsOf(asked.features)[p])
            IN "drop" \notin {f.unmatched, f.incomplete} =>
                  \A o \in DOMAIN asked.table.cells :
                      \/ \E r \in DOMAIN column :
                            column[r].is.year = o[2] /\ o[1] \in column[r].is.sources \cup {column[r].is.key}
                      \/ \E i \in IssuesShown(column) : i.key = o[1] /\ i.year = o[2]
=============================================================================
