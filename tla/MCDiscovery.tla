---------------------------- MODULE MCDiscovery ----------------------------
(***************************************************************************)
(* From a search of the catalogue to a dataset's table and a recipe of it. *)
(* Every search of four datasets, in pages a server cuts at two; and once  *)
(* the plainest of them has found d1, a read of it or of measures, or      *)
(* recipes in place of one another, or selections of GENESIS tables.       *)
(***************************************************************************)
EXTENDS CatalogueSearch, Recipes, Selections, DistributionReader

CONSTANTS d1, d2, d3, d4, u1, u2, t1, t2, c1, c2, ccby, dlby, ubal, genesisUrl,
    word, hash, hash0, run, userinfo, envName, ofToken, ofUser, token1, user1, plainUser, pin,
    k1, k2

MCLimits == {None, 0, 2, 3}

-----------------------------------------------------------------------------
\* Selections

Whole(f) == [k \in DOMAIN Defaults |-> IF k \in DOMAIN f THEN f[k] ELSE Defaults[k]]
D == [Defaults EXCEPT !.name = t1]
Lists == {Absent, <<<<c1>>>>, <<<<c1>>, <<c2>>>>, <<<<c2, c1>>>>, <<<<InBlanks(c2)>>, <<Blank>>, <<c1>>>>,
          <<<<Blank>>>>, <<<<c1>>, <<c1>>>>, <<<<Blank, Blank>>>>, Ill}
Dicts ==
    {Given([D EXCEPT !.keys = k, !.host = h]) : k \in Lists, h \in Hosts \cup {c1}}
    \cup {Given([D EXCEPT !.keys = k, !.contents = m]) :
        k \in {Absent, <<<<c1>>>>}, m \in {<<<<c1>>, <<c2>>>>, <<<<c2>>, <<c1>>>>}}
    \cup {Given([D EXCEPT !.name = n, !.quality = q]) : n \in {t1, t2, InBlanks(t1), c1}, q \in {TRUE, FALSE, Ill}}
    \cup {Given([D EXCEPT !.startyear = y, !.endyear = z]) : y \in {Absent, 1, 2}, z \in {Absent, 1, 9}}
    \cup {Given([D EXCEPT !.variable = q, !.language = l]) :
        q \in {Absent, c1, InBlanks(c1), Blank}, l \in {"de", "en"}}
    \cup {Given(Defaults), Given(D) @@ [area |-> c1]}
MCBaseUrl == [h \in Hosts |-> <<"https", h>>]
MCOptions ==
    {Value("dict", d) : d \in Dicts} \cup {Value("string", x) : x \in {t1, c1, Blank}}
    \cup {Value("locator", DestatisLocator(WithDefaults(d))) : d \in {d \in Dicts : ~InvalidSelection(Value("dict", d))}}
    \cup {Value("other", Absent)}

-----------------------------------------------------------------------------
\* Recipes

MCHolds(text) == CASE text = ofToken -> {token1} [] text = ofUser -> {user1} [] text = word -> {plainUser, pin}
                   [] OTHER -> {}
MCEnvironments == {{}, {[of |-> "TOKEN", value |-> token1], [of |-> "USER", value |-> user1]},
                   {[of |-> "USER", value |-> plainUser], [of |-> "PASSWORD", value |-> pin]}}

Class(id, name) == [class |-> id, name |-> name]
Reader == Class("module.Reader", "Reader")
Sink == Class("module.Sink", "Sink")
Double == Class("notebook.Sink", "Sink")
MCRegistries == {{Reader, Sink}, {Reader, Sink, Double}, {Sink}}
MCResults == {<<<<"a", "b">>, <<"b", "c">>>>, <<<<"a", "b">>, <<"b">>, <<"b", "c">>>>, <<<<"a">>>>,
              <<<<"a", "b">>, <<"a", "b">>, <<"a">>, <<"b">>>>, <<<<"a", "b", "a">>>>}

L == [join |-> "left", left |-> Reader, right |-> Sink, on |-> word, asof |-> FALSE]
Backwards == [L EXCEPT !.left = Sink, !.right = Reader]

Text1(x) == Value("string", x)
F == [name |-> word, extra |-> FALSE, group |-> [reader |-> Text1(d1)], context |-> << >>, inputs |-> Absent,
      pushed |-> {}, domain |-> Absent, scope |-> Absent, link |-> Absent]
Plain == [features |-> <<F>>, links |-> << >>, size |-> 2,
          compliance |-> [note |-> word, uri |-> u1, sha256 |-> hash, credential_env |-> envName]]

Values ==
    {Text1(x) : x \in {word, hash, run, userinfo, ofToken, ofUser, u1}}
    \cup {Value(f, Absent) : f \in {"scalar", "nonfinite", "collection", "object"}}
    \cup {Value("dataset", g) : g \in {GovDataLocator(d1, Absent), GovDataLocator(Absent, u1), GovDataLocator(d1, u1),
                                       [GovDataLocator(d1, Absent) EXCEPT !.resource_index = 1],
                                       [GovDataLocator(d1, Absent) EXCEPT !.default_base = FALSE]}}
    \cup {Value("locator", DestatisLocator([D EXCEPT !.keys = k, !.host = h, !.endyear = y, !.quality = q])) :
             k \in {Absent, <<<<InBlanks(c2)>>, <<c1>>>>}, h \in Hosts, y \in {Absent, 2}, q \in BOOLEAN}
    \cup {Value("dict", Given([D EXCEPT !.keys = <<<<c1>>>>]))}
    \cup {Value("nested", [keys |-> k, strings |-> {}]) : k \in {{"author"}, {"token"}, {word, run}, {ofToken}}}
    \cup {Value("nested", [keys |-> {"author"}, strings |-> s]) : s \in {{word}, {word, run}, {ofToken}, {userinfo}}}

Features ==
    {[F EXCEPT !.group = g, !.context = c, !.domain = d, !.pushed = p] :
        g \in {<< >>} \cup {[reader |-> v] : v \in Values},
        c \in {<< >>, [rebase |-> Value("scalar", Absent)]}, d \in {Absent, word}, p \in {{}, {"rebase"}}}
    \cup {[F EXCEPT !.context = [rebase |-> v]] : v \in Values}
    \cup {[F EXCEPT !.group = k :> Text1(word)] : k \in {"in_features", "credential_env", "token", "author"}}
    \cup {[F EXCEPT !.inputs = [form |-> n, names |-> s]] :
             n \in {"text", "list", "object"}, s \in {<< >>, <<k2, k1>>, <<k1, ofToken>>, <<Blank>>}}
    \cup {[F EXCEPT !.inputs = [form |-> "set", names |-> s]] : s \in {{k1, k2}, {Blank}}}
    \cup {[F EXCEPT !.extra = TRUE], [F EXCEPT !.name = Blank], [F EXCEPT !.name = run]}
    \cup {[F EXCEPT !.scope = s] : s \in {k1, run, ofToken}}

Links == {<< >>, <<L>>, <<L, L>>, <<L, Backwards>>, <<[L EXCEPT !.asof = TRUE]>>}

AnyDraft ==
    {[Plain EXCEPT !.features = <<f>>] : f \in Features}
    \cup {[Plain EXCEPT !.links = l, !.features = fs] :
             l \in Links, fs \in {<< >>, <<F, [F EXCEPT !.link = L]>>,
                                  <<[F EXCEPT !.link = Backwards], [F EXCEPT !.link = Backwards]>>}}
    \cup {[Plain EXCEPT !.compliance[p] = x] : p \in OwnTexts, x \in {word, hash, hash0, run, userinfo, ofToken, ofUser}}

MCDrafts(w) == IF w = 1 THEN AnyDraft
               ELSE {[Plain EXCEPT !.size = n, !.compliance.note = k1] : n \in 1..3}

Contested == {Plain, [Plain EXCEPT !.links = <<L>>], [Plain EXCEPT !.compliance.note = ofUser],
              [Plain EXCEPT !.compliance.uri = userinfo]}

-----------------------------------------------------------------------------
\* Readers

\* CKAN
R(u, csv, l) == [url |-> u, csv |-> csv, license |-> l]
MCRecords == {<<>>, <<R(u1, TRUE, ccby)>>, <<R(u2, FALSE, dlby), R(u1, TRUE, InBlanks(ccby))>>,
              <<R(u2, FALSE, ccby), R(u1, TRUE, dlby)>>, <<R(u1, TRUE, Absent), R(u1, TRUE, dlby)>>,
              <<R(u2, FALSE, ccby)>>, <<R(u1, TRUE, c1)>>}

\* Files
A == Word(<<"A">>)
B == Word(<<"B">>)
AB == Word(<<"A", "B">>)
A2 == Word(<<"A", "(2)">>)
Umlaut == Word(<<"umlaut">>)
One == <<Number(1), ZeroMarker, NoText, Fraction(150)>>
Csv(rows, written, decoders) == [kind |-> "csv", is |-> [rows |-> rows, written |-> written, decoders |-> decoders]]
Western == {"cp1252", "iso-8859-15", "latin-1"}
Ascii(rows) == Csv(rows, "cp1252", Western \cup {"utf-8-sig"})

Singles == <<<<<<A, B>>, <<AB, Number(1)>>, <<>>, <<NoText, ZeroMarker>>>>,
             <<<<A, B>>, <<Word(<<"x">>), NullMarker>>, <<Word(<<"y">>)>>, <<NoText, NoText>>>>,
             <<<<A, A, A2>>, <<Number(1), Number(2), Number(3)>>>>,
             <<<<A, B>>, <<A, Number(5), NoText>>, <<B, Number(6), NoText>>>>,
             <<<<A, NoText, B>>, <<A, Day(1), Number(5)>>>>,
             <<<<A>>, <<A>>, <<A, B>>>>, <<>>>>
Doubles == <<<<<<A, NoText, B>>, <<A, B, AB>>, <<Number(1), Number(2), Number(3)>>, <<Number(4), ZeroMarker>>, <<NoText>>>>,
             <<<<AB, NoText>>, <<NoText, NoText, A2>>, <<Number(1), Number(2), Number(3)>>>>,
             <<<<A>>, <<A, A, NoText>>, <<Number(1), Fraction(2), NoText, Number(9)>>>>>>
Kerg == <<<<A>>, <<>>, <<A>>, <<>>, <<B>>>> \o <<<<A, B, A, B, A, NoText, NoText, NoText>>,
          <<NoText, NoText, NoText, NoText, A, NoText, B>>, <<NoText, NoText, NoText, NoText, A, B, A>>,
          <<A, A, A, A, Number(1), Number(2), ZeroMarker>>>>
Map(f(_), xs) == [i \in DOMAIN xs |-> f(xs[i])]
Files == Map(Ascii, Doubles \o Singles \o <<Kerg>>)
         \o Map(LAMBDA w : Csv(<<<<A, B>>, <<Umlaut, Number(1)>>>>, w,
                               IF w = "utf-8-sig" THEN Western \cup {w} ELSE Western), <<"utf-8-sig", "cp1252">>)
         \o Map(LAMBDA d : Csv(<<<<A>>, <<Word(<<"euro">>)>>>>, "iso-8859-15", d), <<Western, Western \ {"cp1252"}>>)
         \o <<Csv(<<<<A>>, <<Umlaut>>>>, "latin-1", {})>>

\* Measures
N(n) == LeafCell("whole", n)
T(x) == LeafCell("text", x)
Leaf(v) == <<N(3), N(2), v, T("end"), N(1)>>
Reply(labels, leaves) ==
    [kind |-> "uba", is |-> [has_data |-> TRUE, labels |-> labels,
        stations |-> <<[id |-> N(143), hours |-> [h \in DOMAIN leaves |-> [start |-> T("start"), leaf |-> leaves[h]]]],
                       [id |-> N(7), hours |-> <<[start |-> T("start"), leaf |-> leaves[1]]>>]>>]]
Labels == <<<<>>, LeafFields>>
MCMeasures ==
    FlattenSeq(Map(LAMBDA l :
        Map(LAMBDA v : Reply(l, <<Leaf(v), Leaf(NoCell)>>),
            <<N(5), LeafCell("fraction", 55), LeafCell("quoted_fraction", 55), T("n/a")>>), Labels))
    \o Map(LAMBDA l : Reply(l, <<Leaf(N(5)), SubSeq(Leaf(N(5)), 1, 3)>>), Labels)
    \o Map(LAMBDA i : Reply(InsertAt(LeafFields, i, "quality"), <<InsertAt(Leaf(N(5)), i, N(9))>>), <<1, 5, 6>>)
    \o <<Reply(RemoveAt(LeafFields, 3), <<RemoveAt(Leaf(N(5)), 3)>>)>>
    \o Map(LAMBDA f : Reply(LeafFields, <<[Leaf(N(5)) EXCEPT ![5] = f]>>),
           <<LeafCell("fraction", 15), LeafCell("quoted_fraction", 15)>>)
    \o <<[kind |-> "uba", is |-> [has_data |-> FALSE, labels |-> <<>>, stations |-> <<>>]]>>

\* Statistical tables, in years of four days
Names(header) == [i \in DOMAIN header |-> Word(header[i])]
Label == [i \in 1..4 |-> Word(<<"label">>)]
FfRow(time, blocks, value, more) ==
    <<A, Word(<<"label">>), A, Word(<<"label">>), time>> \o FlattenSeq([n \in 1..blocks |-> Label])
    \o <<value, Word(<<"unit">>), A, Word(<<"label">>)>> \o more
FfOf(rows) == [rows |-> rows, written |-> "cp1252", decoders |-> {"cp1252", "utf-8-sig"}]
Member(f) == [csv |-> TRUE, declared |-> 1, size |-> 1, sound |-> TRUE, file |-> f]
Archive(members) == [kind |-> "ffcsv", is |-> [archive |-> TRUE, members |-> members]]
FfTable(n, quality, rows) == Archive(<<Member(FfOf(<<Names(Layout(n) \o quality)>> \o rows))>>)
Plainly == FfTable(1, <<>>, <<FfRow(Number(2), 1, Fraction(150), <<>>), FfRow(Number(2), 1, NullMarker, <<>>)>>)
FfTables ==
    <<FfTable(2, Quality, <<FfRow(Day(8), 2, ZeroMarker, <<A>>), <<NoText, NoText>>, <<>>,
                            FfRow(Number(3), 2, Number(7), <<NoText>>)>>),
      Archive(<<>>), Archive(<<Member(FfOf(<<>>)), Member(FfOf(<<>>))>>), Archive(<<Member(FfOf(<<>>))>>),
      FfTable(1, <<>>, <<FfRow(Number(2), 1, Number(4), <<NoText>>)>>),
      FfTable(0, <<>>, <<FfRow(Number(2), 0, Number(4), <<>>)>>),
      FfTable(1, <<<<"time">>>>, <<FfRow(Number(2), 1, Number(4), <<>>)>>),
      FfTable(2, Quality, <<FfRow(Number(2), 1, Number(4), <<>>)>>),
      [Plainly EXCEPT !.is.archive = FALSE]>>
    \o Map(LAMBDA t : FfTable(1, <<>>, <<FfRow(t, 1, Number(1), <<>>)>>),
           <<Day(7), Day(8), Day(16), Number(0), Number(4), NoText, A>>)
    \o Map(LAMBDA v : FfTable(1, <<>>, <<FfRow(Number(2), 1, v, <<>>), FfRow(Number(3), 1, Number(1), <<>>)>>),
           <<NoText, A, Number(4)>>)
    \o Map(LAMBDA x : FfTable(1, <<>>, <<FfRow(Number(2), 1, NullMarker, <<>>), FfRow(Number(3), 1, Number(1), x)>>),
           <<<<NoText>>, <<A>>>>)
    \o Map(LAMBDA k : Archive(<<[Member(FfOf(<<>>)) EXCEPT ![k] = 3]>>), <<"declared", "size">>)
    \o Map(LAMBDA k : Archive(<<[Member(FfOf(<<>>)) EXCEPT ![k] = FALSE]>>), <<"csv", "sound">>)

Q == [QueryDefaults EXCEPT !.station = 143, !.component = 3, !.scope = 2, !.date_from = 1, !.date_to = 2]
MCQueries == {Q, [Q EXCEPT !.station = 0], [Q EXCEPT !.time_to = 25], [Q EXCEPT !.date_to = 0], [Q EXCEPT !.date_from = 3],
              [Q EXCEPT !.time_from = 9, !.time_to = 8], [Q EXCEPT !.lang = ""]}

G == [DefaultGeometry EXCEPT !.skiprows = 0, !.label_columns = 0]
MCGeometries == {[G EXCEPT !.header_rows = 2], [G EXCEPT !.header_rows = 1, !.label_columns = 1],
                 [G EXCEPT !.header_rows = 1, !.text_columns = {<<"A">>}], [G EXCEPT !.header_rows = 0],
                 [G EXCEPT !.header_rows = 2, !.value_type = "float"]}

MCAccesses == {Value("string", x) : x \in {d1, u1, t1}} \cup {Value("true", Absent)}
              \cup {Value("dataset", GovDataLocator(Absent, UbaMeasuresUrl(Q)))}
              \cup {Value("dataset", [GovDataLocator(d1, Absent) EXCEPT !.resource_index = i]) : i \in {1, -1}}
MCSchema == <<[name |-> <<"B">>, type |-> "integer"], [name |-> <<"A">>, type |-> "string"]>>
MCWanted == {{<<"A">>}, {<<"A">>, <<"B">>}, {<<"A", "B">>, <<"A", "(2)">>}, {<<"value">>, <<"date_start">>},
             {<<"time">>, <<"value">>, <<"value_marker">>, <<"1", "variable_label">>}, {<<"index">>}}
MCUrls == {u1, u2, genesisUrl, UbaMeasuresUrl(Q)}
MCKindAt == [u \in MCUrls |-> CASE u = u1 -> "csv" [] u = u2 -> "other" [] u = genesisUrl -> "ffcsv" [] OTHER -> "uba"]
MCContent == <<Ascii(<<<<A, B>>, <<A, Number(1)>>>>), [kind |-> "other", is |-> Absent], Plainly,
               Reply(LeafFields, <<Leaf(N(5))>>)>> \o Files \o MCMeasures \o FfTables
MCInitialBodies == 1..4
MCOptionsOf(reader) == CASE reader = "UbaAirReader" -> {[DefaultOptions EXCEPT !.query = q] : q \in MCQueries}
                         [] reader = "BundeswahlleiterinReader" -> {[DefaultOptions EXCEPT !.geometry = g] : g \in MCGeometries}
                         [] OTHER -> {DefaultOptions}
-----------------------------------------------------------------------------
mcVars == <<vars, recipeVars, selectionVars, readerVars>>

FoundD1 ==
    /\ outcome = "exhausted" /\ catalogue = <<d1>> /\ got = <<d1>> /\ changes = 0
    /\ walk.size = 1 /\ walk.limit = None /\ walk.page = <<d1>> /\ walk.count = 1

NoSelection == answer.ended = "none"
NoRecipe == file = NoFile /\ loaded = NothingLoaded /\ \A w \in Writers : writer[w].at = "idle"
NoReads == read = NoRead /\ reads = 0 /\ revisions = {}

Bodies == {body[u] : u \in Urls}
FirstRecord == <<R(u1, TRUE, ccby)>>

MCInit == Init /\ RecipesInit /\ SelectionsInit /\ ReaderInit /\ record = FirstRecord

\* Bounds: few of the files behind a record that was edited; a second selection only after one
\* that reached the cache; a second recipe only after one of few.
MCNext ==
    \/ /\ Next
       /\ UNCHANGED <<recipeVars, selectionVars, readerVars>>
    \/ /\ FoundD1 /\ NoRecipe /\ NoSelection
       /\ ReaderNext /\ (record' # FirstRecord => Bodies' \subseteq MCInitialBodies \cup {5})
       /\ UNCHANGED <<vars, recipeVars, selectionVars>>
    \/ /\ FoundD1 /\ NoRecipe /\ NoReads
       /\ SelectionsNext /\ (asks = 0 \/ answer.ended = "read")
       /\ UNCHANGED <<vars, recipeVars, readerVars>>
    \/ /\ FoundD1 /\ NoSelection /\ NoReads
       /\ RecipesNext /\ (writer'[2].at = "idle" \/ writer'[1].draft \in {Absent} \cup Contested)
       /\ UNCHANGED <<vars, selectionVars, readerVars>>

MCSpec == MCInit /\ [][MCNext]_mcVars /\ WF_vars(Search)
=============================================================================
