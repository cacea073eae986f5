------------------------------ MODULE Recipes ------------------------------
(***************************************************************************)
(* recipes/: feature objects, links and a compliance block are built into  *)
(* a validated document (write.py, model.py, credential_scan.py), which is *)
(* written over a file in place and loaded from it by other processes, in  *)
(* other environments (load.py); frames.py indexes what a run of it        *)
(* returns.                                                                *)
(*                                                                         *)
(* What mloda makes of the feature array is modelled from the fields       *)
(* write.py fills and load.py hands on (Realize).  A text is opaque; what  *)
(* the validators ask of one is a set it is in.  The text of a document is *)
(* as long as its draft says, so that one text can stand behind the end of *)
(* another.                                                                *)
(***************************************************************************)
EXTENDS Locators

CONSTANTS
    Writers,
    Drafts(_),              \* what each writer may be given
    Environments,           \* sets of environment variables set, as records [of, value]
    Registries,             \* sets of classes a process may have loaded, as [class, name]
    Results,                \* what a run may return: the columns of each frame
    TokenRuns, Hashes, EnvNames, UserinfoUrls, CredentialNames,   \* sets of texts
    Long, IdentifierShaped, \* sets of values of environment variables
    Holds(_)                \* the values a text contains, in any of secret_variants' forms

ASSUME ResultsAreFrames == \A result \in Results : result \in Seq(Seq(UNION {ToSet(frame) : frame \in ToSet(result)}))
ASSUME NoWriterIsAbsent == Absent \notin Writers

VARIABLES
    file,       \* what stands at the path
    writer,     \* per writer: how far write_recipe is, and its draft
    loaded,     \* the load_recipe that has just ended, forgotten at the next write
    frames      \* the result just indexed by frames_by_column

recipeVars == <<file, writer, loaded, frames>>

-----------------------------------------------------------------------------
\* credential_scan.py

EnvironmentSecrets(env) ==
    {v.value : v \in {v \in env : /\ v.value \in Long
                                  /\ v.of = "USER" => v.value \in IdentifierShaped}}

MatchesSecret(text, env) == Holds(text) \cap EnvironmentSecrets(env) # {}

\* A key or a string with the field it stands in.
RejectedKey(key, env) ==
    \/ (key.text \in CredentialNames /\ key.at # "credential_env")
    \/ key.text \in TokenRuns
    \/ MatchesSecret(key.text, env)

\* Fault: a digest is let through anywhere.
AnyDigestPasses(leaf, env) ==
    leaf.text \in TokenRuns \ Hashes \/ leaf.text \in UserinfoUrls \/ MatchesSecret(leaf.text, env)

RejectedString(leaf, env) ==
    \/ (leaf.text \in TokenRuns /\ ~(leaf.at = "sha256" /\ leaf.text \in Hashes))
    \/ leaf.text \in UserinfoUrls
    \/ MatchesSecret(leaf.text, env)

-----------------------------------------------------------------------------
\* write.py: a feature and its options

At(where, texts) == {[at |-> where, text |-> t] : t \in texts}

\* Fault: a dataset is written as its label, whatever else its locator says.
LabelSaysAll(v) == v.form \in {"nonfinite", "collection", "object"}

\* _json_value on one option value.  A list or dict of texts is, at whatever depth, the keys
\* and the strings in it; one with something in it that is no JSON is of that form.
NoJson(v) ==
    \/ v.form \in {"nonfinite", "collection", "object"}
    \/ /\ v.form = "dataset"
       /\ ~v.is.default_base \/ v.is.resource_index # 0 \/ Absent \notin {v.is.dataset_id, v.is.distribution_url}

JsonValue(v) ==
    CASE v.form = "locator" -> Value("dict", Given(v.is))
      [] v.form = "dataset" -> Value("string", Describe(v.is))
      [] OTHER -> v

JsonOptions(options) == [k \in DOMAIN options |-> JsonValue(options[k])]

\* in_features: a name, several between commas, a list, a set, or something with no config form.
InFeatureNames(inputs) == IF inputs.form = "set" THEN SetToSeq(inputs.names) ELSE inputs.names
NoInputs(inputs) ==
    \/ inputs.form = "object"
    \/ (inputs.form = "set" /\ Blank \in inputs.names)
    \/ (inputs.form \in {"text", "list"} /\ Contains(inputs.names, Blank))

Group(f) == IF f.domain = Absent THEN f.group ELSE [k \in DOMAIN f.group \cup {"domain"} |->
                                                   IF k = "domain" THEN Value("string", f.domain) ELSE f.group[k]]

\* mloda takes the domain out of the options it is given in; a locator among them is one that
\* was built.
LocatorsAreBuilt(options) ==
    \A k \in DOMAIN options :
        /\ options[k].form = "locator" => IsDestatisLocator(options[k].is)
        /\ options[k].form = "dataset" => IsGovDataLocator(options[k].is)

IsFeature(f) ==
    /\ "domain" \notin DOMAIN f.group
    /\ LocatorsAreBuilt(f.group) /\ LocatorsAreBuilt(f.context)
    /\ f.inputs # Absent => InFeatureNames(f.inputs) # Absent
    /\ f.inputs # Absent /\ f.inputs.form = "set" => IsFiniteSet(f.inputs.names)

ASSUME DraftsAreDrafts ==
    \A w \in Writers : \A d \in Drafts(w) :
        /\ d # Absent /\ d.size \in Nat
        /\ d.features \in Seq(ToSet(d.features)) /\ d.links \in Seq(ToSet(d.links))
        /\ \A f \in ToSet(d.features) : IsFeature(f)

\* extra: a constructor argument that no option carries.  pushed: context keys to be
\* propagated or cascaded to the inputs.
NoItem(f) ==
    \/ f.extra
    \/ "in_features" \in DOMAIN f.group
    \/ \E k \in DOMAIN f.group : NoJson(f.group[k])
    \/ \E k \in DOMAIN f.context : NoJson(f.context[k])
    \/ (f.pushed # {} /\ DOMAIN f.context = {})
    \/ (f.inputs # Absent /\ NoInputs(f.inputs))

Item(f) ==
    LET group == JsonOptions(Group(f))
        alone == DOMAIN f.context = {}
    IN [name |-> f.name,
        options |-> IF alone THEN group ELSE << >>,
        group_options |-> IF alone THEN << >> ELSE group,
        context_options |-> JsonOptions(f.context),
        in_features |-> IF f.inputs = Absent THEN Absent ELSE InFeatureNames(f.inputs),
        pushed |-> f.pushed,
        feature_group |-> f.scope]

\* A side of a link names its class only.
LinkSpec(link) == [join |-> link.join, left |-> link.left.name, right |-> link.right.name, on |-> link.on]

\* build_recipe hoists the links of features.
Hoist(links, link) == IF link = Absent \/ Contains(links, link) THEN links ELSE Append(links, link)

AllLinks(draft) ==
    LET hoisted[n \in 0..Len(draft.features)] ==
            IF n = 0 THEN draft.links ELSE Hoist(hoisted[n - 1], draft.features[n].link)
    IN hoisted[Len(draft.features)]

Document(draft) ==
    [features |-> [i \in DOMAIN draft.features |-> Item(draft.features[i])],
     links |-> [i \in DOMAIN AllLinks(draft) |-> LinkSpec(AllLinks(draft)[i])],
     compliance |-> draft.compliance]

-----------------------------------------------------------------------------
\* model.py: what a document must be, when it is built and when it is loaded

OwnTexts == {"note", "uri", "sha256", "credential_env"}

Listed(names) == IF names = Absent THEN {} ELSE ToSet(names)

\* The keys and strings of options, inside their lists and dicts too.  A locator's are codes
\* and never look like anything else.
Nested(options) == {options[k].is : k \in {k \in DOMAIN options : options[k].form = "nested"}}

KeysIn(options) == DOMAIN options \cup UNION {n.keys : n \in Nested(options)}

StringsIn(options) ==
    {options[k].is : k \in {k \in DOMAIN options : options[k].form = "string"}}
    \cup UNION {n.strings : n \in Nested(options)}

\* Those of an item, and those of a document that are its writer's own.
ItemKeys(i) == KeysIn(i.options) \cup KeysIn(i.group_options) \cup KeysIn(i.context_options)

ItemStrings(i) ==
    {i.name} \cup Listed(i.in_features) \cup i.pushed \cup ({i.feature_group} \ {Absent})
    \cup StringsIn(i.options) \cup StringsIn(i.group_options) \cup StringsIn(i.context_options)

KeysOf(doc) ==
    At("credential_env", {"credential_env"}) \cup At("options", UNION {ItemKeys(i) : i \in ToSet(doc.features)})

StringsOf(doc) ==
    (UNION {At("features", ItemStrings(i)) : i \in ToSet(doc.features)})
    \cup (UNION {At("links", {l.left, l.right, l.on}) : l \in ToSet(doc.links)})
    \cup (UNION {At(p, {doc.compliance[p]}) : p \in OwnTexts})

RejectedCredentials(doc, env) ==
    (\E key \in KeysOf(doc) : RejectedKey(key, env)) \/ (\E leaf \in StringsOf(doc) : RejectedString(leaf, env))

InvalidRecipe(doc, env) ==
    \/ doc.features = << >> \/ \E i \in DOMAIN doc.features : doc.features[i].name = Blank
    \/ \E i, j \in DOMAIN doc.links : i # j /\ doc.links[i] = doc.links[j]
    \/ doc.compliance.sha256 \notin Hashes
    \/ doc.compliance.credential_env \notin EnvNames
    \/ RejectedCredentials(doc, env)

-----------------------------------------------------------------------------
\* load.py

\* A class is found by its name, among all those this process has loaded.
ClassesNamed(name, registry) == {c \in registry : c.name = name}
Unresolved(spec, registry) ==
    \E side \in {"left", "right"} : ~\E c \in registry : ClassesNamed(spec[side], registry) = {c}
NotRealizable(doc, registry) == \E i \in DOMAIN doc.links : Unresolved(doc.links[i], registry)

BuildLink(spec, registry) ==
    LET resolve(name) == CHOOSE c \in registry : c.name = name
    IN [spec EXCEPT !.left = resolve(@), !.right = resolve(@)]

\* What mloda builds from an item: the domain rides in the options.
LoadedFeature(item) ==
    LET group == IF DOMAIN item.group_options # {} THEN item.group_options ELSE item.options
        here(k) == k \in DOMAIN group
    IN [name |-> item.name, group |-> [k \in DOMAIN group \ {"domain"} |-> group[k]],
        context |-> item.context_options, inputs |-> item.in_features, pushed |-> item.pushed,
        domain |-> IF here("domain") THEN group["domain"].is ELSE Absent, scope |-> item.feature_group]

RealizeRecipe(doc, registry) ==
    [features |-> [i \in DOMAIN doc.features |-> LoadedFeature(doc.features[i])],
     links |-> [i \in DOMAIN doc.links |-> BuildLink(doc.links[i], registry)],
     compliance |-> doc.compliance]

-----------------------------------------------------------------------------
\* write_recipe: build, open (which empties the file), write

Refusal(draft, env, registry) ==
    \/ \E i \in DOMAIN draft.features : NoItem(draft.features[i])
    \/ \E i \in DOMAIN AllLinks(draft) : AllLinks(draft)[i].asof
    \/ InvalidRecipe(Document(draft), env)
    \/ NotRealizable(Document(draft), registry)

NothingLoaded == [ended |-> "none", doc |-> Absent, recipe |-> Absent, registry |-> {}]
Forget == loaded' = NothingLoaded /\ frames' = Absent
Failed(how) == [NothingLoaded EXCEPT !.ended = how]

Build(w) ==
    /\ writer[w].at = "idle"
    /\ \E draft \in Drafts(w), env \in Environments, registry \in Registries :
          writer' = [writer EXCEPT ![w] =
                        [at |-> IF Refusal(draft, env, registry) THEN "refused" ELSE "built",
                         draft |-> draft, env |-> env]]
    /\ Forget /\ UNCHANGED file

AllDrafts == UNION {Drafts(w) : w \in Writers}

RecipesTypeOK ==
    /\ writer \in [Writers -> [at : {"idle", "refused", "built", "open", "done", "failed"},
                              draft : AllDrafts \cup {Absent}, env : Environments \cup {{}}]]
    /\ file \in [by : Writers \cup {Absent}, upto : Int, total : Int]
    /\ loaded.ended \in {"none", "no_file", "no_json", "refused", "loaded"}

\* The first `upto` of the text of a draft, and behind it whatever else fills `total`.
Text(w, upto, total) == [by |-> w, upto |-> upto, total |-> total]
NoFile == Text(Absent, -1, -1)
Empty == Text(Absent, 0, 0)

Open(w) ==
    /\ writer[w].at = "built"
    /\ writer' = [writer EXCEPT ![w].at = "open"]
    /\ file' = Empty
    /\ Forget

Longer(m, n) == IF m > n THEN m ELSE n

Write(w) ==
    /\ writer[w].at = "open"
    /\ writer' = [writer EXCEPT ![w].at = "done"]
    /\ file' = Text(w, writer[w].draft.size, Longer(writer[w].draft.size, file.total))
    /\ Forget

\* A full disk stops a write where the file has to grow.
WriteShort(w) ==
    /\ writer[w].at = "open"
    /\ \E n \in Longer(1, file.total)..(writer[w].draft.size - 1) : file' = Text(w, n, n)
    /\ writer' = [writer EXCEPT ![w].at = "failed"]
    /\ Forget

Die(w) ==
    /\ writer[w].at \in {"built", "open"}
    /\ writer' = [writer EXCEPT ![w].at = "failed"]
    /\ Forget /\ UNCHANGED file

\* Fault: a text that breaks off is taken for a document.
NothingBehind == file.by # Absent /\ file.total = file.upto

\* Less than a whole text, or more, is no JSON: its last brace is missing, or something
\* follows it.
IsWhole == file.by # Absent /\ file.upto = writer[file.by].draft.size /\ file.total = file.upto

Load ==
    /\ \E env \in Environments, registry \in Registries :
          LET doc == Document(writer[file.by].draft)
          IN loaded' = IF file = NoFile THEN Failed("no_file")
                       ELSE IF ~IsWhole THEN Failed("no_json")
                       ELSE IF InvalidRecipe(doc, env) \/ NotRealizable(doc, registry) THEN Failed("refused")
                       ELSE [ended |-> "loaded", doc |-> doc, recipe |-> RealizeRecipe(doc, registry),
                             registry |-> registry]
    /\ frames' = Absent
    /\ UNCHANGED <<file, writer>>

-----------------------------------------------------------------------------
\* frames.py

\* The columns of each frame in turn, with the frame.
ColumnsOf(result) == FlattenSeq([i \in DOMAIN result |-> [j \in DOMAIN result[i] |-> <<i, result[i][j]>>]])

\* Fault: the third frame with a column brings it back.
ThirdComesBack(result) ==
    LET columns == ColumnsOf(result)
        frame(n) == {c \in ToSet(columns) : c[2] = n}
        odd == {n \in {c[2] : c \in ToSet(columns)} : Cardinality(frame(n)) % 2 = 1}
    IN [frames |-> [n \in odd |-> (CHOOSE c \in frame(n) : TRUE)[1]],
        ambiguous |-> {c[2] : c \in ToSet(columns)} \ odd]

\* The second frame with a column takes it out of the index for good.
Indexed(index, c) ==
    IF c[2] \in index.ambiguous THEN index
    ELSE IF c[2] \in DOMAIN index.frames
    THEN [frames |-> [n \in DOMAIN index.frames \ {c[2]} |-> index.frames[n]],
          ambiguous |-> index.ambiguous \cup {c[2]}]
    ELSE [index EXCEPT !.frames = [n \in DOMAIN @ \cup {c[2]} |-> IF n = c[2] THEN c[1] ELSE @[n]]]

FramesByColumn(result) ==
    LET columns == ColumnsOf(result)
        index[n \in 0..Len(columns)] ==
            IF n = 0 THEN [frames |-> << >>, ambiguous |-> {}] ELSE Indexed(index[n - 1], columns[n])
    IN index[Len(columns)]

Index ==
    /\ loaded.ended = "loaded" /\ frames = Absent
    /\ \E result \in Results : frames' = [result |-> result, index |-> FramesByColumn(result)]
    /\ UNCHANGED <<file, writer, loaded>>

-----------------------------------------------------------------------------

RecipesInit ==
    /\ file = NoFile
    /\ writer = [w \in Writers |-> [at |-> "idle", draft |-> Absent, env |-> {}]]
    /\ loaded = NothingLoaded
    /\ frames = Absent

RecipesNext ==
    \/ \E w \in Writers : Build(w) \/ Open(w) \/ Write(w) \/ WriteShort(w) \/ Die(w)
    \/ Load
    \/ Index

RecipesSpec == RecipesInit /\ [][RecipesNext]_recipeVars

-----------------------------------------------------------------------------
\* Properties

\* What is loaded is a document some writer wrote to its end: never a half-written one,
\* never one with the rest of another behind it, although files are written in place by
\* writers that die, run out of disk and overtake each other (write.py:write_recipe).
LoadedWasWritten ==
    loaded.ended = "loaded" =>
        \E w \in Writers : writer[w].at = "done" /\ loaded.doc = Document(writer[w].draft)

\* What a reader is told by an option; two options that tell it the same are the same.
Tells(v) ==
    CASE v.form \in {"locator", "dict"} -> Selection(v)
      [] v.form \in {"dataset", "string"} -> Distribution(v)
      [] OTHER -> v
SameOptions(given, got) ==
    DOMAIN given = DOMAIN got /\ \A k \in DOMAIN given : Tells(given[k]) = Tells(got[k])

SameInputs(given, got) ==
    IF Absent \in {given, got} THEN given = got
    ELSE IF given.form = "set" THEN ToSet(got) = given.names ELSE got = given.names

SameFeature(given, got) ==
    /\ got.name = given.name /\ got.domain = given.domain /\ got.scope = given.scope
    /\ got.pushed = given.pushed
    /\ SameOptions(given.group, got.group) /\ SameOptions(given.context, got.context)
    /\ SameInputs(given.inputs, got.inputs)

\* A link is between classes: its own, when the loading process has them.
SameLink(given, got, registry) ==
    /\ got.join = given.join /\ got.on = given.on
    /\ given.left \in registry => got.left = given.left
    /\ given.right \in registry => got.right = given.right

GivenLinks(draft) == ToSet(draft.links) \cup ({f.link : f \in ToSet(draft.features)} \ {Absent})

SameRecipe(draft, recipe, registry) ==
    /\ Len(recipe.features) = Len(draft.features)
    /\ \A i \in DOMAIN draft.features : SameFeature(draft.features[i], recipe.features[i])
    /\ \A l \in GivenLinks(draft) : \E i \in DOMAIN recipe.links : SameLink(l, recipe.links[i], registry)
    /\ Len(recipe.links) = Cardinality(GivenLinks(draft))
    /\ recipe.compliance = draft.compliance

\* A recipe that could be written and loaded says everything its writer said: every option
\* as its reader will understand it, every input in order, every link between the same
\* classes (_feature_item, _json_value, build_recipe, realize_recipe).
NothingLostInWriting ==
    loaded.ended = "loaded" =>
        \E w \in Writers : writer[w].at = "done" /\ SameRecipe(writer[w].draft, loaded.recipe, loaded.registry)

\* Everything a draft says in words, at whatever depth, but for the digest of its source.
TextsIn(v) ==
    CASE v.form = "string" -> {v.is}
      [] v.form = "nested" -> v.is.keys \cup v.is.strings
      [] OTHER -> {}
WordsOfOptions(options) == DOMAIN options \cup UNION {TextsIn(options[k]) : k \in DOMAIN options}

WordsOfFeature(f) ==
    {f.name} \cup ({f.domain, f.scope} \ {Absent}) \cup f.pushed
    \cup WordsOfOptions(f.group) \cup WordsOfOptions(f.context)
    \cup (IF f.inputs = Absent THEN {} ELSE IF f.inputs.form = "set" THEN f.inputs.names ELSE ToSet(f.inputs.names))

WordsOf(draft) ==
    (UNION {WordsOfFeature(f) : f \in ToSet(draft.features)})
    \cup (UNION {{l.left.name, l.right.name, l.on} : l \in GivenLinks(draft)})
    \cup {draft.compliance[p] : p \in OwnTexts \ {"sha256"}}

\* Whatever part of a document is on disk, finished or not, no word of it holds a token or
\* password of the environment it was written in, and none looks like a token but the digest
\* of the source (credential_scan.py:reject_credentials, before the file is opened).
NoCredentialAtRest ==
    file.by # Absent =>
        LET draft == writer[file.by].draft
        IN \A word \in WordsOf(draft) :
              /\ \A v \in writer[file.by].env :
                    v.of # "USER" /\ v.value \in Long => v.value \notin Holds(word)
              /\ word \notin TokenRuns

\* A column leads to a frame exactly when no other column has its name, in the same frame or
\* in another, however many do (frames.py:frames_by_column).
FrameIsTheOnlyOne ==
    frames # Absent =>
        LET columns == UNION {{<<i, j>> : j \in DOMAIN frames.result[i]} : i \in DOMAIN frames.result}
            name(c) == frames.result[c[1]][c[2]]
        IN \A c \in columns :
              IF \A d \in columns : name(d) = name(c) => d = c
              THEN name(c) \in DOMAIN frames.index.frames /\ frames.index.frames[name(c)] = c[1]
              ELSE name(c) \notin DOMAIN frames.index.frames /\ name(c) \in frames.index.ambiguous
=============================================================================
