------------------------- MODULE DistributionReader -------------------------
(***************************************************************************)
(* govdata/reader.py and the readers over it, destatis/reader.py among     *)
(* them: the value under a reader's name is resolved through CKAN          *)
(* (core/discovery.py), checked against the licence the reader declares,   *)
(* downloaded and parsed, while publishers edit the record and revise the  *)
(* files.                                                                  *)
(*                                                                         *)
(* There is one dataset; others are unknown to CKAN.  A download returns   *)
(* what its URL serves at that moment, the promise of Fetching.tla that    *)
(* DownloadCache.tla keeps; the table of a GENESIS selection is one more   *)
(* URL, by the promise ParameterCache.tla keeps.                           *)
(***************************************************************************)
EXTENDS Locators, GermanCsv, UbaMeasures, DestatisTable

CONSTANTS
    Records,        \* what CKAN may have: sequences of resources [url, csv, license]
    Content,        \* of what may be served: [kind, is] with kind "csv", "uba", "ffcsv" or "other"
    InitialBodies,  \* what may be served at first
    Accesses,       \* what callers write under a reader's name
    OptionsOf(_),   \* the options they set for each reader: [geometry, query] of OPTION_WAHL_* and OPTION_UBA_*
    KindAt,         \* of each URL
    Schema,         \* POPULATION_SCHEMA, as a spec of TypedTable
    Wanted,         \* sets of columns they ask for
    TableUrl,       \* that of the GENESIS table
    CC_BY, UBA_LICENSE, DL_DE,
    MaxReads        \* bound

Types == {"string", "integer", "float", "date"}

ASSUME RecordsAreLists == \A resources \in Records : IsList(resources)
ASSUME BodiesAreKnown == InitialBodies \subseteq DOMAIN Content
ASSUME RepliesAreLists ==
    \A b \in DOMAIN Content : Content[b].kind = "uba" =>
        LET stations == Content[b].is.stations
        IN IsList(stations) /\ \A s \in DOMAIN stations : IsList(stations[s].hours)

FilesIn(content) == CASE content.kind = "csv" -> {content.is}
                      [] content.kind = "ffcsv" -> {m.file : m \in ToSet(content.is.members)}
                      [] OTHER -> {}

ASSUME FilesAreFiles ==
    \A b \in DOMAIN Content :
        /\ Content[b].kind = "ffcsv" => IsList(Content[b].is.members)
        /\ \A file \in FilesIn(Content[b]) : IsFile(file)
ASSUME MarksAreApart ==
    \A b \in DOMAIN Content : \A file \in FilesIn(Content[b]) : \A row \in ToSet(file.rows) :
        \A m, n \in DOMAIN row : Mark(m) = Mark(n) \/ HeaderMark(m) = HeaderMark(n) => m = n
ASSUME NumbersAreNoNames ==
    \A b \in DOMAIN Content : \A file \in FilesIn(Content[b]) : \A row \in ToSet(file.rows) :
        \A n \in DOMAIN row : Mark(n) \notin LastWords /\ ToString(n - 1) \notin LastWords
ASSUME SchemaIsTyped == \A i \in DOMAIN Schema : Schema[i].type \in Types
ASSUME GeometriesAreInts ==
    \A o \in OptionsOf("BundeswahlleiterinReader") :
        o.geometry.skiprows \in Int /\ o.geometry.header_rows \in Int

VARIABLES
    record,     \* the record of the dataset
    body,       \* what each URL serves, in Content
    read,       \* the locals of load_data or peek
    table,      \* what the last of them returned
    shown,      \* history: the records CKAN has answered with, what each URL has served
    revisions,  \* what the publisher has done
    reads

readerVars == <<record, body, read, table, shown, revisions, reads>>

Readers == {"GovDataReader", "StuttgartPopulationReader", "BundeswahlleiterinReader", "UbaAirReader",
            "DestatisReader"}

\* LICENSE
License(reader) == CASE reader = "StuttgartPopulationReader" -> CC_BY
                     [] reader = "UbaAirReader" -> UBA_LICENSE
                     [] reader = "DestatisReader" -> DL_DE
                     [] OTHER -> Absent

-----------------------------------------------------------------------------
\* core/discovery.py

\* A license is what a record holds: a label of LICENSE_LABELS by one of its URIs, or any
\* other text, which stays as it is.
NormalizeLicense(license) == IF license = Absent THEN Absent ELSE Strip(license)

\* Of a record with a resource at the index: that, or the first CSV, or that all the same.
SelectResource(resources, index) ==
    LET csv == {i \in DOMAIN resources : resources[i].csv}
    IN IF index + 1 \in csv \/ csv = {} THEN resources[index + 1]
       ELSE resources[CHOOSE i \in csv : \A j \in csv : i <= j]

Distributed(url, license, source) == [url |-> url, license |-> license, source |-> source]

\* Fault: the license is that of the resource at the index.
LicenseAtIndex(resources, index) ==
    Distributed(SelectResource(resources, index).url, NormalizeLicense(resources[index + 1].license), "ckan")

FoundIn(resources, index) ==
    LET r == SelectResource(resources, index)
    IN Distributed(r.url, NormalizeLicense(r.license), "ckan")

\* A reader that declares a license reads nothing that is published under another.
OtherLicense(reader, license) == License(reader) # Absent /\ license # Absent /\ license # License(reader)

\* Provenance.from_distribution
Provenance(d, reader) == [d EXCEPT !.license = IF @ = Absent THEN License(reader) ELSE @]

-----------------------------------------------------------------------------
\* Options

DefaultGeometry == [skiprows |-> 5, header_rows |-> 3, label_columns |-> 4, value_type |-> "integer",
                    text_columns |-> {}]

BadGeometry(g) ==
    \/ g.skiprows < 0 \/ g.header_rows < 1 \/ g.label_columns < 0
    \/ g.value_type \notin Types
    \/ <<>> \in g.text_columns

DefaultOptions == [geometry |-> DefaultGeometry, query |-> QueryDefaults]

\* The locator a reader makes of what stands under its name: UbaAirReader takes True, and
\* makes a URL of its options; a peek of it takes what other readers take.
MakesUrl(reader, peek) == reader = "UbaAirReader" /\ ~peek

\* What is refused before anything is asked.  The geometry is validated by mloda, against
\* READER_OPTIONS, while it matches the feature ("before any network call", test_reader.py:308);
\* only a direct call of _parse meets a bad one later, and a peek passes none, only the defaults.
BadArguments(reader, access, o, peek) ==
    \/ reader = "BundeswahlleiterinReader" /\ BadGeometry(o.geometry)
    \/ reader = "DestatisReader" /\ InvalidSelection(access)
    \/ MakesUrl(reader, peek) /\ BadQuery(o.query)

Claims(reader, access, peek) ==
    CASE MakesUrl(reader, peek) -> access.form = "true"
      [] reader = "DestatisReader" -> IsSelection(access)
      [] OTHER -> IsDistribution(access)

LocatorOf(reader, access, o, peek) ==
    CASE MakesUrl(reader, peek) -> GovDataLocator(Absent, UbaMeasuresUrl(o.query))
      [] reader = "DestatisReader" -> GovDataLocator(Absent, TableUrl)
      [] OTHER -> Distribution(access)

-----------------------------------------------------------------------------
\* _parse

ParseBody(reader, o, b) ==
    CASE reader = "UbaAirReader" /\ b.kind = "uba" -> ParseUbaMeasures(b.is)
      [] reader = "DestatisReader" /\ b.kind = "ffcsv" -> ParseFfcsvZip(b.is)
      [] reader = "BundeswahlleiterinReader" /\ b.kind = "csv" -> ParseMultiHeaderCsv(b.is, o.geometry)
      [] reader \in {"GovDataReader", "StuttgartPopulationReader"} /\ b.kind = "csv" ->
             ParseGermanCsv(b.is, IF reader = "StuttgartPopulationReader" THEN Schema ELSE <<>>)
      [] OTHER -> NoTable("other")     \* bytes that are no JSON, no zip, or no CSV with a column anyone names

ColumnNames(reader, t) ==
    IF reader = "UbaAirReader" THEN {<<c>> : c \in ToSet(MeasureColumns)} ELSE {c.name : c \in ToSet(t.columns)}

\* table.select; a column of measures by its place in a row.
SelectedColumns(reader, t, wanted) ==
    IF reader = "UbaAirReader"
    THEN [n \in wanted |-> LET c == CHOOSE c \in DOMAIN MeasureColumns : <<MeasureColumns[c]>> = n
                           IN [r \in DOMAIN t.rows |-> t.rows[r][c]]]
    ELSE [n \in wanted |-> (CHOOSE c \in ToSet(t.columns) : c.name = n).values]

-----------------------------------------------------------------------------
\* load_data and peek

NoRead == [at |-> "idle"]
Ended(how) == [ended |-> how, reader |-> Absent, columns |-> << >>, provenance |-> Absent, body |-> Absent,
               options |-> Absent]

Finish(t) == read' = NoRead /\ table' = t

\* wanted: the columns asked for; none is a peek.
Call(reader, access, o, wanted) ==
    /\ read = NoRead /\ reads < MaxReads
    /\ reads' = reads + 1
    /\ IF ~Claims(reader, access, wanted = {}) THEN Finish(Ended("unclaimed"))
       ELSE IF BadArguments(reader, access, o, wanted = {}) THEN Finish(Ended("bad_arguments"))
       ELSE /\ read' = [at |-> "resolve", reader |-> reader, locator |-> LocatorOf(reader, access, o, wanted = {}),
                        options |-> o, wanted |-> wanted]
            /\ table' = Ended("none")
    /\ UNCHANGED <<record, body, shown, revisions>>

Take(d) ==
    IF OtherLicense(read.reader, d.license) THEN Finish(Ended("other_license"))
    ELSE /\ read' = [k \in DOMAIN read \cup {"distribution"} |->
                        IF k = "at" THEN "download" ELSE IF k = "distribution" THEN d ELSE read[k]]
         /\ UNCHANGED table

\* resolve_distribution, and the check of the license.
Resolve ==
    /\ read.at = "resolve"
    /\ LET loc == read.locator
       IN \/ /\ loc.distribution_url # Absent
             /\ Take(Distributed(loc.distribution_url, Absent,
                                 IF read.reader = "DestatisReader" THEN "genesis" ELSE "url"))
             /\ UNCHANGED shown
          \/ /\ loc.distribution_url = Absent
             /\ Finish(Ended("http_error")) /\ UNCHANGED shown
          \/ /\ loc.dataset_id \in DatasetIds
             /\ loc.resource_index \notin 0..Len(record) - 1     \* no resources at all, or none there
             /\ Finish(Ended("no_resource")) /\ UNCHANGED shown
          \/ /\ loc.dataset_id \in DatasetIds
             /\ loc.resource_index \in 0..Len(record) - 1
             /\ shown' = [shown EXCEPT !.records = @ \cup {record}]
             /\ Take(FoundIn(record, loc.resource_index))
    /\ UNCHANGED <<record, body, revisions, reads>>

Download ==
    /\ read.at = "download"
    /\ \/ Finish(Ended("http_error"))
       \/ /\ read.distribution.url \in DOMAIN body
          /\ read' = [k \in DOMAIN read \cup {"body"} |->
                         IF k = "at" THEN "parse" ELSE IF k = "body" THEN body[read.distribution.url] ELSE read[k]]
          /\ UNCHANGED table
    /\ UNCHANGED <<record, body, shown, revisions, reads>>

Parse ==
    /\ read.at = "parse"
    /\ LET t == ParseBody(read.reader, read.options, Content[read.body])
           names == ColumnNames(read.reader, t)
           loaded(wanted) == [ended |-> "loaded", reader |-> read.reader, columns |-> SelectedColumns(read.reader, t, wanted),
                              provenance |-> Provenance(read.distribution, read.reader), body |-> read.body,
                              options |-> read.options]
       IN IF t.ended # "table" THEN Finish(Ended(t.ended))
          ELSE IF read.wanted = {} THEN Finish(loaded(names))
          ELSE IF ~(read.wanted \subseteq names) THEN Finish(Ended("unknown_feature"))
          ELSE Finish(loaded(read.wanted))
    /\ UNCHANGED <<record, body, shown, revisions, reads>>

\* The publisher's side, also between the steps of a read; until the last one has ended.
\* The bound: each of the two once.
Publish(what) ==
    /\ what \notin revisions /\ (reads < MaxReads \/ read # NoRead)
    /\ revisions' = revisions \cup {what}

Republish ==
    /\ Publish("record")
    /\ record' \in Records \ {record}
    /\ UNCHANGED <<body, read, table, shown, reads>>

Revise ==
    /\ Publish("body")
    /\ \E u \in DOMAIN body, b \in DOMAIN Content :
          /\ Content[b].kind = KindAt[u]
          /\ body' = [body EXCEPT ![u] = b]
          /\ shown' = [shown EXCEPT !.served = @ \cup {<<u, b>>}]
    /\ UNCHANGED <<record, read, table, reads>>

ReaderInit ==
    /\ record \in Records
    /\ body \in [Urls -> InitialBodies] /\ \A u \in Urls : Content[body[u]].kind = KindAt[u]
    /\ read = NoRead /\ table = Ended("none")
    /\ shown = [records |-> {}, served |-> {<<u, body[u]>> : u \in Urls}]
    /\ revisions = {} /\ reads = 0

ReaderNext ==
    \/ \E reader \in Readers, access \in Accesses :
          \/ \E o \in OptionsOf(reader), wanted \in Wanted : Call(reader, access, o, wanted)
          \/ Call(reader, access, DefaultOptions, {})
    \/ Resolve \/ Download \/ Parse
    \/ Republish \/ Revise

ReaderSpec == ReaderInit /\ [][ReaderNext]_readerVars

-----------------------------------------------------------------------------
\* Properties

\* A table comes from one resource: of a record CKAN answered with, what stands at its URL
\* is what was read, its license is the one reported, the one the reader declares if it
\* declares any, and it is a CSV if the record has one.  The record is edited and the files
\* are revised between the steps (reader.py:_fetch, discovery.py:_select_resource).
LicenceOfTheResourceRead ==
    table.ended = "loaded" =>
        LET p == table.provenance
        IN /\ <<p.url, table.body>> \in shown.served
           /\ License(table.reader) \in {Absent, p.license}
           /\ p.source = "ckan" =>
                 \E resources \in shown.records : \E r \in ToSet(resources) :
                     /\ r.url = p.url
                     /\ r.license # Absent => Strip(r.license) = p.license
                     /\ r.license = Absent => p.license = License(table.reader)
                     /\ r.csv \/ \A q \in ToSet(resources) : ~q.csv

Loaded(kind) == table.ended = "loaded" /\ Content[table.body].kind = kind

\* What the author of a file means by the cell in a column of a type.
Meaning(type, cell) ==
    IF cell = NoText \/ (type # "string" /\ cell.kind = "null") THEN NullValue
    ELSE IF type # "string" /\ cell.kind = "zero" THEN Converted(type, Number(0))
    ELSE Converted(type, cell)

\* The words that stand over column j: in each row of the header that reaches it its label,
\* where labels are merged the last one up to there.
WordsOver(header, j, merged) ==
    UNION {LET labels == {i \in IF merged THEN 1..j ELSE {j} : i \in DOMAIN header[r] /\ header[r][i] # NoText}
           IN IF j \notin DOMAIN header[r] \/ labels = {} THEN {}
              ELSE ToSet(header[r][CHOOSE i \in labels : \A k \in labels : k <= i].text) : r \in DOMAIN header}

HeaderAndData(t) ==
    LET rows == Content[t.body].is.rows
        g == t.options.geometry
        lines == Kept(rows, {<<>>})
    IN IF t.reader = "BundeswahlleiterinReader"
       THEN [header |-> SubSeq(rows, g.skiprows + 1, g.skiprows + g.header_rows),
             rows |-> From(rows, g.skiprows + g.header_rows + 1)]
       ELSE [header |-> <<Head(lines)>>, rows |-> Tail(lines)]

\* In a file in UTF-8 or cp1252, with no row wider than its header if that is a single one,
\* every column asked for is a column of the file under words of its name, cell by cell: no
\* cell is moved to a neighbour or lost, no dash is missing, no two columns are one, however
\* labels are merged, missing or repeated (parse.py:_flatten_header,
\* parse_multi_header_csv_bytes, parse_german_csv_bytes).
CellsKeepTheirPlace ==
    Loaded("csv") /\ Content[table.body].is.written \in {"utf-8-sig", "cp1252"} =>
        LET f == HeaderAndData(table)
            data == NotBlank(f.rows)
            width == CHOOSE n \in {Len(row) : row \in ToSet(f.header)} : \A row \in ToSet(f.header) : Len(row) <= n
            plain == table.reader # "BundeswahlleiterinReader"
            Is(n, j) == /\ \A w \in WordsOver(f.header, j, ~plain) : w \in ToSet(n)
                        /\ \E type \in Types :
                              table.columns[n] = [r \in DOMAIN data |-> Meaning(type, Padded(data[r], width)[j])]
        IN (plain => \A row \in ToSet(f.rows) : Len(row) <= width) =>
               \E at \in [DOMAIN table.columns -> 1..width] :
                   /\ IsInjective(at)
                   /\ \A n \in DOMAIN table.columns : Is(n, at[n])

\* The cell of a row under a name, and what the column of that name has to hold for it.
CellUnder(name, header, row) == Padded(row, Len(header))[CHOOSE j \in DOMAIN header : header[j].text = name]

IsMeant(name, v, header, row) ==
    LET cell == CellUnder(name, header, row)
        value == CellUnder(<<"value">>, header, row)
    IN CASE name = <<"time">> -> cell.number = IF cell.kind = "day" THEN v.number * DaysInYear ELSE v.number
         [] name = <<"value_marker">> -> v.text = IF value.kind \in {"zero", "null"} THEN value.text ELSE <<>>
         [] OTHER -> v = Meaning(IF name = <<"value">> THEN "float" ELSE "string", cell)

\* A row of a statistical table keeps together what its reply has together: the value and
\* its sign, the attributes of its blocks, and the year that its time names, or whose last
\* day it names; whatever else stands between the rows, is missing in a row or added to the
\* columns.  As above of files in UTF-8 or cp1252 without a row wider than the header
\* (destatis/core/parse.py:parse_ffcsv_bytes, guard_ffcsv_layout).
SignsStayWithTheirValues ==
    Loaded("ffcsv") =>
        LET file == Head(Content[table.body].is.members).file
            lines == Kept(file.rows, {<<>>})
            header == Head(lines)
            data == NotBlank(Tail(lines))
        IN file.written \in {"utf-8-sig", "cp1252"} /\ (\A row \in ToSet(Tail(lines)) : Len(row) <= Len(header)) =>
               \A n \in DOMAIN table.columns :
                   /\ Len(table.columns[n]) = Len(data)
                   /\ \A r \in DOMAIN data : IsMeant(n, table.columns[n][r], header, data[r])

\* The hours of a reply, with their station; and the cell of an hour that stands where
\* fields has the name c.
Hours(reply) ==
    FlattenSeq([s \in DOMAIN reply.stations |->
        [h \in DOMAIN reply.stations[s].hours |-> <<reply.stations[s].id, reply.stations[s].hours[h]>>]])

FieldOf(fields, c, leaf) ==
    LET at == {i \in DOMAIN fields : fields[i] = c}
    IN IF at \cap DOMAIN leaf = {} THEN NoCell ELSE leaf[CHOOSE i \in at : TRUE]

Measured(fields, c, hour) ==
    CASE c = "station_id" -> hour[1]
      [] c = "date_start" -> hour[2].start
      [] OTHER -> FieldOf(fields, c, hour[2].leaf)

\* A measure stands in the row of its station and hour, under the name its reply gives the
\* field, whatever fields the reply adds between the documented ones or leaves out, as
\* long as their number or their order tells (uba.py:_check_layout,
\* parse_uba_measures_bytes).
MeasuresUnderTheirNames ==
    Loaded("uba") =>
        LET reply == Content[table.body].is
            fields == IF reply.labels = <<>> THEN LeafFields ELSE reply.labels
            hours == Hours(reply)
        IN (Len(fields) = Len(LeafFields) => fields = LeafFields) =>
               \A c \in ToSet(MeasureColumns) :
                   <<c>> \in DOMAIN table.columns =>
                       table.columns[<<c>>] = [r \in DOMAIN hours |-> CellValue(c, Measured(fields, c, hours[r]))]
=============================================================================
