---------------------------- MODULE UbaMeasures -----------------------------
(***************************************************************************)
(* govdata/uba.py: a query of the UBA measures endpoint as a URL, and its  *)
(* reply as a table.                                                       *)
(*                                                                         *)
(* A reply lists stations, under each its hours, and under each hour a     *)
(* leaf: a sequence of cells whose fields it may name for its first hour.  *)
(* A cell is none (null or an empty text), a whole number, a fraction as a *)
(* number or in quotes (in tenths), or a text; a table has a row per hour. *)
(***************************************************************************)
EXTENDS Integers, SequencesExt

LeafFields == <<"component_id", "scope_id", "value", "date_end", "index">>
MeasureColumns == <<"station_id", "date_start">> \o LeafFields

LeafCell(kind, is) == [kind |-> kind, is |-> is]
NoCell == LeafCell("none", 0)

-----------------------------------------------------------------------------
\* Options to a URL

\* A query: station, component, scope, date_from, date_to (days counted from a first), time_from,
\* time_to, lang.  Unset options take their default, or have none.
QueryDefaults == [station |-> 0, component |-> 0, scope |-> 0, date_from |-> 0, date_to |-> 0,
                  time_from |-> 1, time_to |-> 24, lang |-> "en"]

BadQuery(q) ==
    \/ \E k \in {"station", "component", "scope", "date_from", "date_to"} : q[k] < 1
    \/ \E k \in {"time_from", "time_to"} : q[k] \notin 1..24
    \/ q.lang = ""
    \/ q.date_from > q.date_to \/ q.time_from > q.time_to

\* The parameters in their fixed order.
UbaMeasuresUrl(q) ==
    <<q.date_from, q.time_from, q.date_to, q.time_to, q.station, q.component, q.scope, q.lang>>

-----------------------------------------------------------------------------
\* A reply to a table

\* Fault: the layout is not looked at.
AnyLayout(reply) == FALSE

\* _check_layout: the names the reply gives the fields of its leaves, if it gives any.
LayoutChanged(reply) == reply.labels # <<>> /\ Len(reply.labels) # Len(LeafFields)

\* A row per hour, in the order of the reply; short leaves are filled up, cells beyond the
\* fields left out.
Flattened(reply) ==
    FlattenSeq([s \in DOMAIN reply.stations |->
        LET station == reply.stations[s]
        IN [h \in DOMAIN station.hours |->
              <<station.id, station.hours[h].start>>
              \o [i \in DOMAIN LeafFields |-> IF i \in DOMAIN station.hours[h].leaf
                                          THEN station.hours[h].leaf[i] ELSE NoCell]]])

Kind(column) == CASE column \in {"date_start", "date_end"} -> "string"
                  [] column = "value" -> "float"
                  [] OTHER -> "integer"

\* What the conversion of each kind of column raises for, and what it makes of the rest:
\* int() cuts a fraction off.
CellRefused(column, cell) ==
    \/ Kind(column) # "string" /\ cell.kind = "text"
    \/ Kind(column) = "integer" /\ cell.kind = "quoted_fraction"

CellValue(column, cell) ==
    IF Kind(column) = "integer" /\ cell.kind = "fraction" THEN LeafCell("whole", cell.is \div 10) ELSE cell

ParseUbaMeasures(reply) ==
    LET rows == Flattened(reply)
    IN IF ~reply.has_data THEN [ended |-> "no_data", rows |-> <<>>]
       ELSE IF LayoutChanged(reply) THEN [ended |-> "layout", rows |-> <<>>]
       ELSE IF \E r \in DOMAIN rows : \E c \in DOMAIN MeasureColumns : CellRefused(MeasureColumns[c], rows[r][c])
       THEN [ended |-> "inconvertible", rows |-> <<>>]
       ELSE [ended |-> "table",
             rows |-> [r \in DOMAIN rows |->
                 [c \in DOMAIN MeasureColumns |-> CellValue(MeasureColumns[c], rows[r][c])]]]
=============================================================================
