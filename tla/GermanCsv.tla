------------------------------ MODULE GermanCsv ------------------------------
(***************************************************************************)
(* govdata/core/parse.py: the rows of a publisher's CSV to a typed table,  *)
(* for one header row (pandas) and for several with merged cells (csv).    *)
(*                                                                         *)
(* A text is the sequence of its words, so that joined header cells can    *)
(* collide; blanks around a text are left out.  A cell is what its text    *)
(* means in German notation.  A table is a sequence of columns.            *)
(***************************************************************************)
EXTENDS Integers, SequencesExt, TLC

Cell(kind, text, number) == [kind |-> kind, text |-> text, number |-> number]
Word(text) == Cell("word", text, 0)
Number(n) == Cell("whole", <<>>, n)         \* 1234, 1.234
Fraction(n) == Cell("fraction", <<>>, n)    \* 12,34, in hundredths
Day(n) == Cell("day", <<>>, n)              \* 31.12.2024
ZeroMarker == Cell("zero", <<"-">>, 0)
NullMarker == Cell("null", <<"...">>, 0)    \* . ... / x ()
NoText == Cell("null", <<>>, 0)

\* What a converter makes of a cell.
Converted(type, cell) == [type |-> type, text |-> cell.text, number |-> cell.number]
NullValue == Converted("null", NoText)

IsList(s) == s \in Seq(ToSet(s))
IsText(rows) ==
    /\ IsList(rows)
    /\ \A row \in ToSet(rows) :
          IsList(row) /\ \A cell \in ToSet(row) : IsList(cell.text) /\ cell.number \in Int

-----------------------------------------------------------------------------
\* Encodings

Ladder == <<"utf-8-sig", "cp1252", "iso-8859-15", "latin-1">>

DetectEncoding(file) ==
    LET able == {i \in DOMAIN Ladder : Ladder[i] \in file.decoders}
    IN IF able = {} THEN Last(Ladder) ELSE Ladder[CHOOSE i \in able : \A k \in able : i <= k]

\* A file: its rows, the encoding they were written in, and those that can decode it: that
\* one, and UTF-8 decodes no sign outside ASCII that cp1252 encodes.
IsFile(file) ==
    /\ IsText(file.rows)
    /\ file.written \in {"utf-8-sig", "cp1252"} => file.written \in file.decoders
    /\ file.written = "cp1252" /\ "utf-8-sig" \in file.decoders =>
          \A row \in ToSet(file.rows) : \A cell \in ToSet(row) :
              ~Contains(cell.text, "umlaut") /\ ~Contains(cell.text, "euro")

\* A letter outside ASCII is several others where utf-8 is read as anything else; the
\* other encodings differ in a few signs, the Euro's among them.
Garbled(text, written, read) ==
    \/ Contains(text, "umlaut") /\ written # read /\ "utf-8-sig" \in {written, read}
    \/ Contains(text, "euro") /\ written # read

Decoded(file) ==
    [r \in DOMAIN file.rows |-> [j \in DOMAIN file.rows[r] |->
        IF Garbled(file.rows[r][j].text, file.written, DetectEncoding(file))
        THEN Word(<<"garbled">>) ELSE file.rows[r][j]]]

-----------------------------------------------------------------------------
\* A cell to a value

\* The kinds of cell a converter takes; on any other it raises.
Takes(type) ==
    CASE type = "string"  -> {"word", "whole", "fraction", "day", "zero", "null"}
      [] type = "integer" -> {"whole", "zero", "null"}
      [] type = "float"   -> {"whole", "fraction", "zero", "null"}
      [] type = "date"    -> {"day", "null"}

Convert(type, cell) ==
    CASE type = "string" -> IF cell = NoText THEN NullValue ELSE Converted(type, cell)
      [] type # "string" /\ cell.kind = "null" -> NullValue
      [] type # "string" /\ cell.kind = "zero" -> Converted(type, Number(0))
      [] OTHER -> Converted(type, cell)

-----------------------------------------------------------------------------
\* Columns to a table

NoTable(why) == [ended |-> why, columns |-> <<>>]

\* A dict of columns: a row's cells are appended by name, so that columns of one name
\* would run together.
CellsByName(names, rows) ==
    [n \in ToSet(names) |->
        FlattenSeq([r \in DOMAIN rows |->
            FlattenSeq([j \in DOMAIN names |-> IF names[j] = n THEN <<rows[r][j]>> ELSE <<>>])])]

\* spec: names with their types, in the order of the table.
TypedTable(cells, spec) ==
    IF \E i \in DOMAIN spec : spec[i].name \notin DOMAIN cells THEN NoTable("no_column")
    ELSE IF \E i \in DOMAIN spec : \E c \in ToSet(cells[spec[i].name]) : c.kind \notin Takes(spec[i].type)
    THEN NoTable("inconvertible")
    ELSE [ended |-> "table",
          columns |-> [i \in DOMAIN spec |->
              [name |-> spec[i].name, type |-> spec[i].type,
               values |-> [r \in DOMAIN cells[spec[i].name] |-> Convert(spec[i].type, cells[spec[i].name][r])]]]]

\* The rows that are none of those.
Kept(rows, dropped) == FlattenSeq([r \in DOMAIN rows |-> IF rows[r] \in dropped THEN <<>> ELSE <<rows[r]>>])

BlankRow(row) == ToSet(row) \subseteq {NoText}
NotBlank(rows) == Kept(rows, {row \in ToSet(rows) : BlankRow(row)})
Padded(row, n) == [j \in 1..n |-> IF j \in DOMAIN row THEN row[j] ELSE NoText]
From(rows, first) == SubSeq(rows, first, Len(rows))

\* Fault: names are taken as they are.
NamesAsTheyAre(bases, marks) == bases

\* Of columns with one name, every one but the first gets the first mark that makes a new
\* name; there are more marks than columns.
NextName(names, base, marks) ==
    LET fresh == {n \in DOMAIN marks : Append(base, marks[n]) \notin ToSet(names)}
    IN IF base \notin ToSet(names) THEN base
       ELSE Append(base, marks[CHOOSE n \in fresh : \A k \in fresh : n <= k])

UniqueNames(bases, marks) ==
    LET names[k \in 0..Len(bases)] ==
            IF k = 0 THEN <<>> ELSE Append(names[k - 1], NextName(names[k - 1], bases[k], marks))
    IN names[Len(bases)]

-----------------------------------------------------------------------------
\* parse_german_csv_bytes

Mark(n) == "." \o ToString(n)

\* pandas.read_csv: lines without any text are skipped, the first data row says how wide the
\* file is, shorter rows are padded, wider ones refused.  Columns it has before the first
\* name become an index, which the table leaves out.
ReadCsv(rows) ==
    LET lines == Kept(rows, {<<>>})
        header == Head(lines)
        data == Tail(lines)
        width == IF data # <<>> /\ Len(data[1]) > Len(header) THEN Len(data[1]) ELSE Len(header)
        leading == width - Len(header)
    IN IF lines = <<>> THEN NoTable("no_header")
       ELSE IF \E r \in DOMAIN data : Len(data[r]) > width THEN NoTable("ragged")
       ELSE [ended |-> "frame",
             names |-> UniqueNames([j \in DOMAIN header |->
                           IF header[j] = NoText THEN <<"Unnamed:", ToString(j - 1)>> ELSE header[j].text],
                           [n \in DOMAIN header |-> Mark(n)]),
             rows |-> [r \in DOMAIN data |-> From(Padded(data[r], width), leading + 1)]]

AllStrings(names) == [i \in DOMAIN names |-> [name |-> names[i], type |-> "string"]]

\* schema: <<>> when the reader has none.
ParseGermanCsv(file, schema) ==
    LET frame == ReadCsv(Decoded(file))
    IN IF frame.ended # "frame" THEN frame
       ELSE TypedTable(CellsByName(frame.names, NotBlank(frame.rows)), IF schema = <<>> THEN AllStrings(frame.names) ELSE schema)

-----------------------------------------------------------------------------
\* parse_multi_header_csv_bytes

\* A merged cell's label is that of its first column; padding has none.
FfillHeaderRow(row, n) ==
    [j \in 1..n |-> LET named == {i \in 1..j : i \in DOMAIN row /\ row[i] # NoText}
                    IN IF j \notin DOMAIN row \/ named = {} THEN NoText
                       ELSE row[CHOOSE i \in named : \A k \in named : k <= i]]

\* The texts of labels; of those that repeat the one before, the first.
Joined(labels) ==
    FlattenSeq([i \in DOMAIN labels |->
        IF i > 1 /\ labels[i - 1].text = labels[i].text THEN <<>> ELSE labels[i].text])

HeaderMark(n) == "(" \o ToString(n + 1) \o ")"

FlattenHeader(header) ==
    LET labelled == {j \in UNION {DOMAIN header[r] : r \in DOMAIN header} :
                        \E r \in DOMAIN header : j \in DOMAIN header[r] /\ header[r][j] # NoText}
        ncols == IF labelled = {} THEN 0 ELSE CHOOSE j \in labelled : \A k \in labelled : k <= j
        filled == [r \in DOMAIN header |-> FfillHeaderRow(header[r], ncols)]
        labels(j) == Kept([r \in DOMAIN header |-> filled[r][j]], {NoText})
    IN UniqueNames([j \in 1..ncols |-> IF labels(j) = <<>> THEN <<"column_" \o ToString(j - 1)>>
                                       ELSE Joined(labels(j))],
                   [n \in 1..ncols |-> HeaderMark(n)])

\* g: skiprows, header_rows, label_columns, value_type, text_columns.
ParseMultiHeaderCsv(file, g) ==
    LET rows == Decoded(file)
        header == SubSeq(rows, g.skiprows + 1, g.skiprows + g.header_rows)
        names == FlattenHeader(header)
        data == NotBlank(From(rows, g.skiprows + g.header_rows + 1))
    IN IF g.skiprows + g.header_rows > Len(rows) THEN NoTable("no_header")
       ELSE IF ~(g.text_columns \subseteq ToSet(names)) THEN NoTable("no_column")
       ELSE TypedTable(CellsByName(names, [r \in DOMAIN data |-> Padded(data[r], Len(names))]),
                       [j \in DOMAIN names |->
                           [name |-> names[j],
                            type |-> IF j <= g.label_columns \/ names[j] \in g.text_columns
                                     THEN "string" ELSE g.value_type]])
=============================================================================
