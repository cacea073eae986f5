--------------------------- MODULE DestatisTable ----------------------------
(***************************************************************************)
(* destatis/core/parse.py and destatis/core/period.py: the zip of a        *)
(* tablefile reply to a typed table, with an annual time and the sign of   *)
(* every value.                                                            *)
(*                                                                         *)
(* A reply is an archive of members [csv, declared, size, sound, file]     *)
(* with their declared and their true size.  In a time column a whole      *)
(* number is a year (JAHR) and a day a date (STAG), counted in a calendar  *)
(* of DaysInYear days a year.                                              *)
(***************************************************************************)
EXTENDS GermanCsv

CONSTANTS DaysInYear, MaxYear, MaxDecompressed

ASSUME CalendarIsACalendar == DaysInYear \in Nat \ {0} /\ MaxYear \in Nat

\* extract_ffcsv_csv
ExtractFfcsvCsv(reply) ==
    IF ~reply.archive \/ Len(reply.members) # 1 \/ (\E m \in ToSet(reply.members) : ~m.csv)
    THEN NoTable("no_single_csv")
    ELSE LET m == Head(reply.members)
         IN IF MaxDecompressed < m.declared \/ MaxDecompressed < m.size \/ ~m.sound
            THEN NoTable("unreadable_member") ELSE [ended |-> "extracted", file |-> m.file]

-----------------------------------------------------------------------------
\* The layout

Prefix == <<<<"statistics_code">>, <<"statistics_label">>, <<"time_code">>, <<"time_label">>, <<"time">>>>
Block(n) == [i \in 1..4 |-> <<ToString(n), <<"variable_code", "variable_label", "variable_attribute_code",
                                   "variable_attribute_label">>[i]>>]
ValueBlock == <<<<"value">>, <<"value_unit">>, <<"value_variable_code">>, <<"value_variable_label">>>>
Quality == <<<<"value_q">>>>

\* What its names end in, in whichever block.
LastWords == {Last(n) : n \in UNION {ToSet(part) : part \in {Prefix, Block(1), ValueBlock, Quality}}}

Layout(n) == Prefix \o FlattenSeq([i \in 1..n |-> Block(i)]) \o ValueBlock

\* guard_ffcsv_layout: the prefix, one block or more in their order, the value block, and
\* the quality if it was asked for.
LayoutFits(header) ==
    \E n \in 1..Len(header) : header \in {Layout(n), Layout(n) \o Quality}

\* ffcsv_schema: all but the time.
FfcsvSchema(header) ==
    LET typed == Kept(header, {<<"time">>})
    IN [i \in DOMAIN typed |-> [name |-> typed[i], type |-> IF typed[i] = <<"value">> THEN "float" ELSE "string"]]

-----------------------------------------------------------------------------
\* Periods

YearOfDay(n) == (n - 1) \div DaysInYear + 1
IsStichtag(n) == n % DaysInYear = 0

\* Fault: any date of a year stands for it.
AnyDate(cell) == cell.kind = "day" \/ (cell.kind = "whole" /\ cell.number \in 1..MaxYear)

\* parse_genesis_time: a year, or the last day of one.
IsGenesisTime(cell) ==
    \/ cell.kind = "whole" /\ cell.number \in 1..MaxYear
    \/ cell.kind = "day" /\ YearOfDay(cell.number) \in 1..MaxYear /\ IsStichtag(cell.number)

ParseGenesisTime(cell) == IF cell.kind = "day" THEN YearOfDay(cell.number) ELSE cell.number

\* stichtag_period: the year of the last reference date that is not after a day.
StichtagPeriod(n) == IF IsStichtag(n) THEN YearOfDay(n) ELSE YearOfDay(n) - 1

-----------------------------------------------------------------------------
\* parse_ffcsv_bytes

ValueMarker(cell) == IF cell.kind \in {"zero", "null"} THEN cell.text ELSE <<>>

ParseFfcsv(file) ==
    LET frame == ReadCsv(Decoded(file))
        cells == CellsByName(frame.names, NotBlank(frame.rows))
        typed == TypedTable(cells, FfcsvSchema(frame.names))
        column(name, type, values) == [name |-> name, type |-> type, values |-> values]
        times == cells[<<"time">>]
        values == cells[<<"value">>]
    IN IF frame.ended # "frame" THEN frame
       ELSE IF ~LayoutFits(frame.names) THEN NoTable("layout")
       ELSE IF typed.ended # "table" THEN typed
       ELSE IF \E r \in DOMAIN times : ~IsGenesisTime(times[r]) THEN NoTable("no_time")
       ELSE IF \E r \in DOMAIN values : values[r] = NoText THEN NoTable("blank_value")
       ELSE [typed EXCEPT !.columns = @ \o <<
                column(<<"time">>, "integer",
                       [r \in DOMAIN times |-> Converted("integer", Number(ParseGenesisTime(times[r])))]),
                column(<<"value_marker">>, "string",
                       [r \in DOMAIN values |-> Converted("string", Word(ValueMarker(values[r])))])>>]

ParseFfcsvZip(reply) ==
    LET extracted == ExtractFfcsvCsv(reply)
    IN IF extracted.ended = "extracted" THEN ParseFfcsv(extracted.file) ELSE extracted
=============================================================================
