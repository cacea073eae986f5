---------------------------- MODULE RecipesProofs ----------------------------
(***************************************************************************)
(* Theorems about Recipes, for any writers, drafts and environments, and   *)
(* about Selections, for any options.                                      *)
(*                                                                         *)
(* A file shows one writer's text up to some point, and that writer has    *)
(* ended: well, if the point is the end of its text.  Who is past the scan *)
(* has a draft that passed it in its own environment, and every word of a  *)
(* draft stands in its document where the scan looks; every part of a      *)
(* draft comes back from the document as its reader will understand it.    *)
(* The frames and the links are computed step by step, and what they say   *)
(* after each step is proved by induction on the number of steps.  The     *)
(* readers of a selection are told apart by the key because the key holds  *)
(* the request and the address, and no two hosts have one address.         *)
(***************************************************************************)
EXTENDS Recipes, Selections, FiniteSetTheorems, WellFoundedInduction, TLAPS

-----------------------------------------------------------------------------
\* Induction over the numbers up to one

LEMMA LeastElement ==
  ASSUME NEW S \in SUBSET Nat, S # {}
  PROVE  \E n \in S : \A m \in S : n <= m
  <1> DEFINE R == {p \in Nat \X Nat : p[1] < p[2]}
  <1>1. R = OpToRel(<, Nat)
    BY DEF OpToRel
  <1>2. IsWellFoundedOn(OpToRel(<, Nat), Nat)
    BY NatLessThanWellFounded
  <1>3. ASSUME NEW m \in Nat, NEW n \in Nat, m < n PROVE <<m, n>> \in R
    BY <1>3
  <1> HIDE DEF R
  <1>4. PICK n \in S : \A m \in S : ~(<<m, n>> \in R)
    BY <1>1, <1>2, WFMin
  <1>5. ASSUME NEW m \in S PROVE n <= m
    <2>1. m \in Nat /\ n \in Nat
      OBVIOUS
    <2>2. ~(m < n)
      BY <2>1, <1>3, <1>4
    <2> QED BY <2>1, <2>2
  <1> QED BY <1>5

\* Induction, said of the set of numbers a claim holds of.
LEMMA FromZeroOn ==
  ASSUME NEW N \in Nat, NEW S \in SUBSET Nat, 0 \in S,
         ASSUME NEW n \in S, n < N PROVE n + 1 \in S
  PROVE  N \in S
<1> SUFFICES ASSUME N \notin S PROVE FALSE
  OBVIOUS
<1> DEFINE T == {n \in Nat : n <= N /\ n \notin S}
<1>1. PICK m \in T : \A k \in T : m <= k
  <2>1. N \in T /\ T \in SUBSET Nat
    OBVIOUS
  <2> HIDE DEF T
  <2> QED BY <2>1, LeastElement
<1>2. m \in Nat /\ m # 0 /\ m <= N /\ m \notin S
  BY <1>1
<1>3. m - 1 \in Nat /\ m - 1 < N /\ m - 1 \notin T
  BY <1>1, <1>2
<1>4. m - 1 \in S
  BY <1>3
<1>5. (m - 1) + 1 \in S
  BY <1>3, <1>4
<1> QED BY <1>2, <1>5

-----------------------------------------------------------------------------
\* The links of a draft

\* How the links stand after n features.
Hoisted(draft, n, g) ==
    /\ g = [i \in 0..n |-> IF i = 0 THEN draft.links ELSE Hoist(g[i - 1], draft.features[i].link)]

LEMMA HoistedOnce ==
  ASSUME NEW draft, NEW n \in Nat PROVE \E g : Hoisted(draft, n, g)
<1> DEFINE S == {k \in Nat : \E g : Hoisted(draft, k, g)}
<1>1. 0 \in S
  <2> DEFINE g == [i \in 0..0 |-> draft.links]
  <2>1. \A i \in 0..0 : i = 0
    OBVIOUS
  <2>2. g = [i \in 0..0 |-> IF i = 0 THEN draft.links ELSE Hoist(g[i - 1], draft.features[i].link)]
    BY <2>1
  <2> HIDE DEF g
  <2> QED BY <2>2 DEF Hoisted
<1>2. ASSUME NEW k \in S, k < n PROVE k + 1 \in S
  <2>1. PICK g : Hoisted(draft, k, g)
    BY <1>2
  <2>2. k \in Nat
    BY <1>2
  <2> DEFINE h == [i \in 0..(k + 1) |-> IF i \in 0..k THEN g[i] ELSE Hoist(g[k], draft.features[k + 1].link)]
  <2>3. ASSUME NEW i \in 0..(k + 1)
        PROVE  h[i] = IF i = 0 THEN draft.links ELSE Hoist(h[i - 1], draft.features[i].link)
    <3>1. CASE i = 0
      <4>1. h[i] = g[0] /\ g[0] = draft.links
        BY <2>1, <2>2, <3>1 DEF Hoisted
      <4> QED BY <3>1, <4>1
    <3>2. CASE i \in 1..k
      <4>1. i \in 0..k /\ i - 1 \in 0..(k + 1) /\ i - 1 \in 0..k /\ i # 0
        BY <2>2, <3>2
      <4>2. h[i] = g[i] /\ h[i - 1] = g[i - 1]
        BY <4>1
      <4>3. g[i] = Hoist(g[i - 1], draft.features[i].link)
        BY <2>1, <4>1 DEF Hoisted
      <4> HIDE DEF h
      <4> QED BY <4>1, <4>2, <4>3
    <3>3. CASE i = k + 1
      <4>1. i \notin 0..k /\ i - 1 = k /\ i # 0 /\ k \in 0..k /\ k \in 0..(k + 1)
        BY <2>2, <3>3
      <4>2. h[i] = Hoist(g[k], draft.features[k + 1].link)
        BY <4>1
      <4>3. h[i - 1] = g[k]
        BY <4>1
      <4> HIDE DEF h
      <4> QED BY <3>3, <4>1, <4>2, <4>3
    <3> QED BY <2>2, <3>1, <3>2, <3>3
  <2>4. DOMAIN h = 0..(k + 1)
    OBVIOUS
  <2>5. h = [i \in 0..(k + 1) |-> h[i]]
    OBVIOUS
  <2> HIDE DEF h
  <2>6. h = [i \in 0..(k + 1) |-> IF i = 0 THEN draft.links ELSE Hoist(h[i - 1], draft.features[i].link)]
    BY <2>3, <2>5
  <2>7. Hoisted(draft, k + 1, h)
    BY <2>6 DEF Hoisted
  <2> QED BY <2>2, <2>7
<1> HIDE DEF S
<1>3. n \in S
  <2>1. S \in SUBSET Nat
    BY DEF S
  <2> QED BY <1>1, <1>2, <2>1, FromZeroOn
<1> QED BY <1>3 DEF S

LEMMA LinksAreHoisted ==
  ASSUME NEW draft, Len(draft.features) \in Nat
  PROVE  \E g : Hoisted(draft, Len(draft.features), g) /\ AllLinks(draft) = g[Len(draft.features)]
<1>1. \E g : Hoisted(draft, Len(draft.features), g)
  BY HoistedOnce
<1> DEFINE h == CHOOSE g : Hoisted(draft, Len(draft.features), g)
<1>2. Hoisted(draft, Len(draft.features), h)
  BY <1>1
<1>3. AllLinks(draft) = h[Len(draft.features)]
  BY DEF AllLinks, Hoisted
<1> QED BY <1>2, <1>3

LEMMA RangeOfHoist ==
  ASSUME NEW S, NEW links \in Seq(S), NEW link
  PROVE  /\ ToSet(Hoist(links, link)) = ToSet(links) \cup ({link} \ {Absent})
         /\ Hoist(links, link) \in Seq(S \cup {link})
<1>1. CASE link = Absent \/ Contains(links, link)
  BY <1>1 DEF Hoist, Contains, ToSet
<1>2. CASE ~(link = Absent \/ Contains(links, link))
  <2>1. Hoist(links, link) = Append(links, link)
    BY <1>2 DEF Hoist
  <2>2. links \in Seq(S \cup {link})
    OBVIOUS
  <2>3. DOMAIN Append(links, link) = 1..Len(links) + 1
    BY <2>2
  <2>4. \A i \in 1..Len(links) : Append(links, link)[i] = links[i]
    BY <2>2
  <2>5. Append(links, link)[Len(links) + 1] = link
    BY <2>2
  <2>6. ToSet(Append(links, link)) = ToSet(links) \cup {link}
    BY <2>2, <2>3, <2>4, <2>5 DEF ToSet
  <2> QED BY <1>2, <2>1, <2>2, <2>6
<1> QED BY <1>1, <1>2

\* The links of a document are those given, with it and with its features.
LEMMA LinksAreTheGiven ==
  ASSUME NEW draft, draft.features \in Seq(ToSet(draft.features)), draft.links \in Seq(ToSet(draft.links))
  PROVE  ToSet(AllLinks(draft)) = GivenLinks(draft) /\ AllLinks(draft) \in Seq(GivenLinks(draft))
<1> DEFINE fs == draft.features
           N == Len(fs)
           All == ToSet(draft.links) \cup {f.link : f \in ToSet(fs)}
           Upto(n) == ToSet(draft.links) \cup ({fs[i].link : i \in 1..n} \ {Absent})
<1>1. N \in Nat /\ DOMAIN fs = 1..N
  OBVIOUS
<1>2. PICK g : Hoisted(draft, N, g) /\ AllLinks(draft) = g[N]
  BY <1>1, LinksAreHoisted
<1> DEFINE S == {n \in Nat : n <= N => g[n] \in Seq(Upto(n)) /\ ToSet(g[n]) = Upto(n)}
<1>3. 0 \in S
  <2>1. g[0] = draft.links
    BY <1>1, <1>2 DEF Hoisted
  <2>2. Upto(0) = ToSet(draft.links)
    OBVIOUS
  <2> QED BY <2>1, <2>2
<1>4. ASSUME NEW n \in S, n < N PROVE n + 1 \in S
  <2>1. n \in Nat /\ g[n] \in Seq(Upto(n)) /\ ToSet(g[n]) = Upto(n)
    BY <1>1, <1>4
  <2>2. g[n + 1] = Hoist(g[n], fs[n + 1].link)
    <3>1. n + 1 \in 0..N /\ n + 1 # 0 /\ (n + 1) - 1 = n
      BY <1>1, <1>4, <2>1
    <3>2. g[n + 1] = Hoist(g[(n + 1) - 1], fs[n + 1].link)
      BY <1>2, <3>1 DEF Hoisted
    <3> QED BY <3>1, <3>2
  <2>3. Upto(n + 1) = Upto(n) \cup ({fs[n + 1].link} \ {Absent})
    <3>1. 1..(n + 1) = 1..n \cup {n + 1}
      BY <2>1
    <3>2. {fs[i].link : i \in 1..(n + 1)} = {fs[i].link : i \in 1..n} \cup {fs[n + 1].link}
      BY <3>1
    <3> QED BY <3>2
  <2> HIDE DEF Upto
  <2>4. ToSet(g[n + 1]) = Upto(n + 1) /\ g[n + 1] \in Seq(Upto(n) \cup {fs[n + 1].link})
    <3>1. PICK T, link : T = Upto(n) /\ link = fs[n + 1].link
      OBVIOUS
    <3>2. PICK links \in Seq(T) : links = g[n]
      BY <2>1, <3>1
    <3>3. /\ ToSet(Hoist(links, link)) = ToSet(links) \cup ({link} \ {Absent})
          /\ Hoist(links, link) \in Seq(T \cup {link})
      BY RangeOfHoist
    <3> QED BY <2>1, <2>2, <2>3, <3>1, <3>2, <3>3
  <2>5. \A s, T : s \in Seq(T) => s \in Seq(ToSet(s))
    BY DEF ToSet
  <2>6. g[n + 1] \in Seq(Upto(n + 1))
    BY <2>4, <2>5
  <2> QED BY <2>1, <2>4, <2>6
<1> HIDE DEF S
<1>5. N \in S
  <2>1. S \in SUBSET Nat
    BY DEF S
  <2> QED BY <1>1, <1>3, <1>4, <2>1, FromZeroOn
<1>6. Upto(N) = GivenLinks(draft)
  <2>1. {fs[i].link : i \in 1..N} = {f.link : f \in ToSet(fs)}
    BY <1>1 DEF ToSet
  <2> QED BY <2>1 DEF GivenLinks
<1> HIDE DEF Upto
<1> QED BY <1>1, <1>2, <1>5, <1>6 DEF S

-----------------------------------------------------------------------------
\* What a draft says and what its document says

\* Where the word of a document stands.
Stands(word, doc) ==
    \/ \E at : at # "sha256" /\ [at |-> at, text |-> word] \in KeysOf(doc)
    \/ \E at : at # "sha256" /\ [at |-> at, text |-> word] \in StringsOf(doc)

LEMMA TextAt ==
  ASSUME NEW where, NEW texts, NEW t \in texts PROVE [at |-> where, text |-> t] \in At(where, texts)
BY DEF At

\* The item of a feature has its group among the options or the group options, whole.
LEMMA ItemHasGroup ==
  ASSUME NEW f
  PROVE  \/ Item(f).options = JsonOptions(Group(f))
         \/ Item(f).group_options = JsonOptions(Group(f))
BY DEF Item

\* What options say, their lists and dicts included, their JSON form says where the scan looks.
LEMMA OptionWordsStay ==
  ASSUME NEW options
  PROVE  WordsOfOptions(options) \subseteq KeysIn(JsonOptions(options)) \cup StringsIn(JsonOptions(options))
<1> DEFINE json == JsonOptions(options)
<1>1. DOMAIN json = DOMAIN options
  BY DEF JsonOptions
<1>2. ASSUME NEW k \in DOMAIN options, options[k].form \in {"string", "nested"} PROVE json[k] = options[k]
  BY <1>2 DEF JsonOptions, JsonValue
<1> HIDE DEF json
<1>3. DOMAIN options \subseteq KeysIn(json)
  BY <1>1 DEF KeysIn
<1>4. ASSUME NEW k \in DOMAIN options, NEW t \in TextsIn(options[k])
      PROVE  t \in KeysIn(json) \cup StringsIn(json)
  <2>1. CASE options[k].form = "string"
    <3>1. t = options[k].is /\ json[k] = options[k]
      BY <1>2, <1>4, <2>1 DEF TextsIn
    <3> QED BY <1>1, <2>1, <3>1 DEF StringsIn
  <2>2. CASE options[k].form = "nested"
    <3>1. t \in options[k].is.keys \cup options[k].is.strings /\ json[k] = options[k]
      BY <1>2, <1>4, <2>2 DEF TextsIn
    <3>2. options[k].is \in Nested(json)
      BY <1>1, <2>2, <3>1 DEF Nested
    <3> QED BY <3>1, <3>2 DEF KeysIn, StringsIn
  <2>3. CASE options[k].form \notin {"string", "nested"}
    BY <1>4, <2>3 DEF TextsIn
  <2> QED BY <2>1, <2>2, <2>3
<1> QED BY <1>3, <1>4 DEF WordsOfOptions, json

LEMMA OptionsStand ==
  ASSUME NEW f, NEW word \in WordsOfOptions(Group(f)) \cup WordsOfOptions(f.context)
  PROVE  word \in ItemKeys(Item(f)) \cup ItemStrings(Item(f))
<1>1. WordsOfOptions(Group(f)) \subseteq KeysIn(JsonOptions(Group(f))) \cup StringsIn(JsonOptions(Group(f)))
  BY OptionWordsStay
<1>2. WordsOfOptions(f.context) \subseteq KeysIn(JsonOptions(f.context)) \cup StringsIn(JsonOptions(f.context))
  BY OptionWordsStay
<1>3. Item(f).context_options = JsonOptions(f.context)
  BY DEF Item
<1> QED BY <1>1, <1>2, <1>3, ItemHasGroup DEF ItemKeys, ItemStrings

\* The group of a feature says its domain and all its own options.
LEMMA GroupSaysAll ==
  ASSUME NEW f, IsFeature(f)
  PROVE  /\ DOMAIN f.group \subseteq DOMAIN Group(f)
         /\ WordsOfOptions(f.group) \subseteq WordsOfOptions(Group(f))
         /\ f.domain # Absent => f.domain \in WordsOfOptions(Group(f))
<1>1. CASE f.domain = Absent
  BY <1>1 DEF Group
<1>2. CASE f.domain # Absent
  <2>1. Group(f) = [k \in DOMAIN f.group \cup {"domain"} |->
                       IF k = "domain" THEN Value("string", f.domain) ELSE f.group[k]]
    BY <1>2 DEF Group
  <2>2. DOMAIN Group(f) = DOMAIN f.group \cup {"domain"}
    BY <2>1
  <2>3. \A k \in DOMAIN f.group : Group(f)[k] = f.group[k]
    BY <2>1 DEF IsFeature
  <2>4. Group(f)["domain"] = Value("string", f.domain)
    BY <2>1
  <2>5. WordsOfOptions(f.group) \subseteq WordsOfOptions(Group(f))
    <3>1. ASSUME NEW k \in DOMAIN f.group PROVE k \in DOMAIN Group(f) /\ TextsIn(Group(f)[k]) = TextsIn(f.group[k])
      BY <2>2, <2>3
    <3> QED BY <3>1 DEF WordsOfOptions
  <2>6. f.domain \in WordsOfOptions(Group(f))
    <3>1. "domain" \in DOMAIN Group(f) /\ Group(f)["domain"].form = "string" /\ Group(f)["domain"].is = f.domain
      BY <2>2, <2>4 DEF Value
    <3>2. f.domain \in TextsIn(Group(f)["domain"])
      BY <3>1 DEF TextsIn
    <3> QED BY <3>1, <3>2 DEF WordsOfOptions
  <2> QED BY <2>2, <2>5, <2>6
<1> QED BY <1>1, <1>2

LEMMA SequenceOfASet ==
  ASSUME NEW S, IsFiniteSet(S) PROVE ToSet(SetToSeq(S)) = S
<1> DEFINE n == Cardinality(S)
<1>1. n \in Nat /\ ExistsBijection(1..n, S)
  BY FS_CardinalityType
<1>2. \E f \in [1..n -> S] : IsInjective(f)
  BY <1>1 DEF ExistsBijection, Bijection, Injection
<1>3. SetToSeq(S) \in [1..n -> S] /\ IsInjective(SetToSeq(S))
  BY <1>2 DEF SetToSeq
<1>4. SetToSeq(S) \in Injection(1..n, S)
  BY <1>3 DEF Injection
<1>5. Cardinality(1..n) = n
  BY <1>1, FS_Interval
<1>6. SetToSeq(S) \in Surjection(1..n, S)
  BY <1>4, <1>5, FS_Injection
<1> QED BY <1>3, <1>6 DEF ToSet, Surjection

\* Each word of a feature is a key or a string of its item.
LEMMA FeatureWordsStand ==
  ASSUME NEW f, IsFeature(f), NEW word \in WordsOfFeature(f)
  PROVE  word \in ItemKeys(Item(f)) \cup ItemStrings(Item(f))
<1>1. CASE word \in {f.name} \cup ({f.scope} \ {Absent}) \cup f.pushed
  <2>1. Item(f).name = f.name /\ Item(f).feature_group = f.scope /\ Item(f).pushed = f.pushed
    BY DEF Item
  <2> QED BY <1>1, <2>1 DEF ItemStrings
<1>2. CASE word \in ({f.domain} \ {Absent}) \cup WordsOfOptions(f.group) \cup WordsOfOptions(f.context)
  <2>1. word \in WordsOfOptions(Group(f)) \cup WordsOfOptions(f.context)
    BY <1>2, GroupSaysAll
  <2> QED BY <2>1, OptionsStand
<1>3. CASE f.inputs # Absent /\ word \in (IF f.inputs.form = "set" THEN f.inputs.names ELSE ToSet(f.inputs.names))
  <2>1. Item(f).in_features = InFeatureNames(f.inputs) /\ InFeatureNames(f.inputs) # Absent
    BY <1>3 DEF Item, IsFeature
  <2>2. word \in ToSet(InFeatureNames(f.inputs))
    BY <1>3, SequenceOfASet DEF InFeatureNames, IsFeature
  <2> QED BY <2>1, <2>2 DEF Listed, ItemStrings
<1> QED BY <1>1, <1>2, <1>3 DEF WordsOfFeature

IsDraft(draft) ==
    /\ draft.features \in Seq(ToSet(draft.features)) /\ draft.links \in Seq(ToSet(draft.links))
    /\ \A f \in ToSet(draft.features) : IsFeature(f)

LEMMA ItemsOfADocument ==
  ASSUME NEW draft, NEW f \in ToSet(draft.features) PROVE Item(f) \in ToSet(Document(draft).features)
BY DEF Document, ToSet

LEMMA LinksOfADocument ==
  ASSUME NEW draft, IsDraft(draft), NEW l \in GivenLinks(draft)
  PROVE  LinkSpec(l) \in ToSet(Document(draft).links)
<1>1. l \in ToSet(AllLinks(draft))
  BY LinksAreTheGiven DEF IsDraft
<1>2. PICK i \in DOMAIN AllLinks(draft) : l = AllLinks(draft)[i]
  BY <1>1 DEF ToSet
<1>3. Document(draft).links = [j \in DOMAIN AllLinks(draft) |-> LinkSpec(AllLinks(draft)[j])]
  BY DEF Document
<1> QED BY <1>2, <1>3 DEF ToSet

LEMMA ItemKeysStand ==
  ASSUME NEW doc, NEW item \in ToSet(doc.features),
         NEW word \in ItemKeys(item)
  PROVE  [at |-> "options", text |-> word] \in KeysOf(doc)
<1> DEFINE texts == UNION {ItemKeys(i) : i \in ToSet(doc.features)}
<1>1. word \in texts
  OBVIOUS
<1>2. At("options", texts) \subseteq KeysOf(doc)
  BY DEF KeysOf
<1> HIDE DEF texts
<1> QED BY <1>1, <1>2, TextAt

LEMMA ItemStringsStand ==
  ASSUME NEW doc, NEW item \in ToSet(doc.features),
         NEW word \in ItemStrings(item)
  PROVE  [at |-> "features", text |-> word] \in StringsOf(doc)
<1>1. At("features", ItemStrings(item)) \subseteq StringsOf(doc)
  BY DEF StringsOf
<1> QED BY <1>1, TextAt

LEMMA OtherStringsStand ==
  ASSUME NEW doc
  PROVE  /\ \A l \in ToSet(doc.links) : \A t \in {l.left, l.right, l.on} : [at |-> "links", text |-> t] \in StringsOf(doc)
         /\ \A p \in OwnTexts : [at |-> p, text |-> doc.compliance[p]] \in StringsOf(doc)
<1> DEFINE ofFeatures == UNION {At("features", ItemStrings(i)) : i \in ToSet(doc.features)}
           ofLinks == UNION {At("links", {l.left, l.right, l.on}) : l \in ToSet(doc.links)}
           own == UNION {At(p, {doc.compliance[p]}) : p \in OwnTexts}
<1>1. StringsOf(doc) = ofFeatures \cup ofLinks \cup own
  BY DEF StringsOf
<1>2. ASSUME NEW l \in ToSet(doc.links), NEW t \in {l.left, l.right, l.on}
      PROVE  [at |-> "links", text |-> t] \in ofLinks
  <2>1. [at |-> "links", text |-> t] \in At("links", {l.left, l.right, l.on})
    BY TextAt
  <2> QED BY <2>1
<1>3. \A p \in OwnTexts : [at |-> p, text |-> doc.compliance[p]] \in own
  BY DEF At
<1> HIDE DEF ofFeatures, ofLinks, own
<1> QED BY <1>1, <1>2, <1>3

\* Every word of a draft but the digest stands in the document that is scanned.
LEMMA WordsStand ==
  ASSUME NEW draft, IsDraft(draft), NEW word \in WordsOf(draft)
  PROVE  Stands(word, Document(draft))
<1> DEFINE doc == Document(draft)
<1>1. ASSUME NEW f \in ToSet(draft.features), word \in WordsOfFeature(f) PROVE Stands(word, doc)
  <2>1. Item(f) \in ToSet(doc.features)
    BY ItemsOfADocument
  <2> HIDE DEF doc
  <2>2. \/ [at |-> "options", text |-> word] \in KeysOf(doc)
        \/ [at |-> "features", text |-> word] \in StringsOf(doc)
    BY <1>1, <2>1, FeatureWordsStand, ItemKeysStand, ItemStringsStand DEF IsDraft
  <2> QED BY <2>2 DEF Stands
<1>2. ASSUME NEW l \in GivenLinks(draft), word \in {l.left.name, l.right.name, l.on} PROVE Stands(word, doc)
  <2>1. LinkSpec(l) \in ToSet(doc.links) /\ word \in {LinkSpec(l).left, LinkSpec(l).right, LinkSpec(l).on}
    BY <1>2, LinksOfADocument DEF LinkSpec
  <2>3. [at |-> "links", text |-> word] \in StringsOf(doc)
    BY <2>1, OtherStringsStand
  <2> HIDE DEF doc
  <2> QED BY <2>3 DEF Stands
<1>3. ASSUME NEW p \in OwnTexts \ {"sha256"}, word = draft.compliance[p] PROVE Stands(word, doc)
  <2>1. doc.compliance[p] = word
    BY <1>3 DEF Document
  <2>3. [at |-> p, text |-> word] \in StringsOf(doc)
    BY <2>1, OtherStringsStand
  <2> HIDE DEF doc
  <2> QED BY <2>3 DEF Stands
<1> HIDE DEF doc
<1>4. \/ \E f \in ToSet(draft.features) : word \in WordsOfFeature(f)
      \/ \E l \in GivenLinks(draft) : word \in {l.left.name, l.right.name, l.on}
      \/ \E p \in OwnTexts \ {"sha256"} : word = draft.compliance[p]
  <2> DEFINE ofFeatures == UNION {WordsOfFeature(f) : f \in ToSet(draft.features)}
             ofLinks == UNION {{l.left.name, l.right.name, l.on} : l \in GivenLinks(draft)}
             own == {draft.compliance[p] : p \in OwnTexts \ {"sha256"}}
  <2>1. WordsOf(draft) = ofFeatures \cup ofLinks \cup own
    BY DEF WordsOf
  <2>2. CASE word \in ofFeatures
    BY <2>2
  <2>3. CASE word \in ofLinks
    BY <2>3
  <2>4. CASE word \in own
    BY <2>4
  <2> HIDE DEF ofFeatures, ofLinks, own
  <2> QED BY <2>1, <2>2, <2>3, <2>4
<1> QED BY <1>1, <1>2, <1>3, <1>4 DEF doc

\* What is not rejected in a document holds no token and no password.
LEMMA ScanClears ==
  ASSUME NEW doc, NEW env, ~RejectedCredentials(doc, env), NEW word, Stands(word, doc)
  PROVE  /\ word \notin TokenRuns
         /\ \A v \in env : v.of # "USER" /\ v.value \in Long => v.value \notin Holds(word)
<1>1. word \notin TokenRuns /\ ~MatchesSecret(word, env)
  BY DEF Stands, RejectedCredentials, RejectedKey, RejectedString
<1>2. \A v \in env : v.of # "USER" /\ v.value \in Long => v.value \in EnvironmentSecrets(env)
  BY DEF EnvironmentSecrets
<1> QED BY <1>1, <1>2 DEF MatchesSecret

-----------------------------------------------------------------------------
\* What comes back

\* A locator's dict form says what the locator does, whichever fields it leaves out.
LEMMA GivenSaysAll ==
  ASSUME NEW f, IsDestatisLocator(f) PROVE WithDefaults(Given(f)) = WithDefaults(f)
<1>1. DOMAIN Given(f) = {k \in DOMAIN f : f[k] # Absent} /\ \A k \in DOMAIN Given(f) : Given(f)[k] = f[k]
  BY DEF Given
<1>2. \A k \in DOMAIN Defaults :
         (IF k \in DOMAIN Given(f) THEN Given(f)[k] ELSE Defaults[k])
            = (IF k \in DOMAIN f THEN f[k] ELSE Defaults[k])
  BY <1>1 DEF IsDestatisLocator
<1> QED BY <1>2 DEF WithDefaults

\* The string form of a dataset is read back as that dataset.
LEMMA LabelReadsBack ==
  ASSUME NEW loc, IsGovDataLocator(loc), loc.default_base, loc.resource_index = 0,
         Absent \in {loc.dataset_id, loc.distribution_url}
  PROVE  Distribution(Value("string", Describe(loc))) = loc
<1>1. loc = [dataset_id |-> loc.dataset_id, distribution_url |-> loc.distribution_url,
             default_base |-> TRUE, resource_index |-> 0]
  BY DEF IsGovDataLocator
<1>2. CASE loc.dataset_id # Absent
  <2>1. loc.distribution_url = Absent /\ Describe(loc) = loc.dataset_id /\ loc.dataset_id \notin Urls
    BY <1>2, NamesAreApart DEF IsGovDataLocator, Describe
  <2>2. Distribution(Value("string", Describe(loc))) = GovDataLocator(loc.dataset_id, Absent)
    BY <2>1 DEF Distribution, Value
  <2> QED BY <1>1, <2>1, <2>2 DEF GovDataLocator
<1>3. CASE loc.dataset_id = Absent
  <2>1. Describe(loc) = loc.distribution_url /\ loc.distribution_url \in Urls
    BY <1>3 DEF IsGovDataLocator, Describe
  <2>2. Distribution(Value("string", Describe(loc))) = GovDataLocator(Absent, loc.distribution_url)
    BY <2>1 DEF Distribution, Value
  <2> QED BY <1>1, <1>3, <2>2 DEF GovDataLocator
<1> QED BY <1>2, <1>3

\* What an option tells a reader, it tells it from a recipe.
LEMMA ValueReadsBack ==
  ASSUME NEW v, ~NoJson(v), v.form = "locator" => IsDestatisLocator(v.is),
         v.form = "dataset" => IsGovDataLocator(v.is)
  PROVE  Tells(JsonValue(v)) = Tells(v)
<1>1. CASE v.form = "locator"
  <2>1. JsonValue(v) = Value("dict", Given(v.is))
    BY <1>1 DEF JsonValue
  <2>2. Tells(JsonValue(v)) = DestatisLocator(WithDefaults(Given(v.is)))
    BY <2>1 DEF Tells, Value, Selection, Fields
  <2>3. Tells(v) = DestatisLocator(WithDefaults(v.is))
    BY <1>1 DEF Tells, Selection, Fields
  <2> QED BY <1>1, <2>2, <2>3, GivenSaysAll
<1>2. CASE v.form = "dataset"
  <2>1. JsonValue(v) = Value("string", Describe(v.is))
    BY <1>2 DEF JsonValue
  <2>2. Tells(JsonValue(v)) = Distribution(Value("string", Describe(v.is)))
    BY <2>1 DEF Tells, Value
  <2>3. Tells(v) = v.is
    BY <1>2 DEF Tells, Distribution
  <2>4. v.is.default_base /\ v.is.resource_index = 0 /\ Absent \in {v.is.dataset_id, v.is.distribution_url}
    BY <1>2 DEF NoJson
  <2> QED BY <1>2, <2>2, <2>3, <2>4, LabelReadsBack
<1>3. CASE v.form \notin {"locator", "dataset"}
  BY <1>3 DEF JsonValue
<1> QED BY <1>1, <1>2, <1>3

LEMMA OptionsReadBack ==
  ASSUME NEW options, LocatorsAreBuilt(options), \A k \in DOMAIN options : ~NoJson(options[k])
  PROVE  SameOptions(options, JsonOptions(options))
<1>1. DOMAIN JsonOptions(options) = DOMAIN options
  BY DEF JsonOptions
<1>2. ASSUME NEW k \in DOMAIN options PROVE Tells(options[k]) = Tells(JsonOptions(options)[k])
  <2>1. JsonOptions(options)[k] = JsonValue(options[k])
    BY DEF JsonOptions
  <2> QED BY <2>1, ValueReadsBack DEF LocatorsAreBuilt
<1> QED BY <1>1, <1>2 DEF SameOptions

\* The group of what is loaded.
GroupLoaded(item) ==
    IF DOMAIN item.group_options # {} THEN item.group_options ELSE item.options

LEMMA GroupOfItem ==
  ASSUME NEW f
  PROVE  LET g == GroupLoaded(Item(f)) j == JsonOptions(Group(f))
         IN DOMAIN g = DOMAIN j /\ \A k \in DOMAIN g : g[k] = j[k]
<1> DEFINE j == JsonOptions(Group(f))
<1>1. CASE DOMAIN f.context = {}
  <2>1. Item(f).options = j /\ DOMAIN Item(f).group_options = {}
    BY <1>1 DEF Item
  <2> QED BY <2>1 DEF GroupLoaded
<1>2. CASE DOMAIN f.context # {}
  <2>1. DOMAIN Item(f).options = {} /\ Item(f).group_options = j
    BY <1>2 DEF Item
  <2> QED BY <2>1 DEF GroupLoaded
<1> QED BY <1>1, <1>2

LEMMA InputsReadBack ==
  ASSUME NEW f, IsFeature(f), ~NoItem(f) PROVE SameInputs(f.inputs, Item(f).in_features)
<1>1. CASE f.inputs = Absent
  BY <1>1 DEF Item, SameInputs
<1>2. CASE f.inputs # Absent
  <2>1. Item(f).in_features = InFeatureNames(f.inputs) /\ InFeatureNames(f.inputs) # Absent
    BY <1>2 DEF Item, IsFeature
  <2>2. CASE f.inputs.form = "set"
    BY <1>2, <2>1, <2>2, SequenceOfASet DEF SameInputs, InFeatureNames, IsFeature
  <2>3. CASE f.inputs.form # "set"
    BY <1>2, <2>1, <2>3 DEF SameInputs, InFeatureNames
  <2> QED BY <2>2, <2>3
<1> QED BY <1>1, <1>2

LEMMA FeatureReadsBack ==
  ASSUME NEW f, IsFeature(f), ~NoItem(f) PROVE SameFeature(f, LoadedFeature(Item(f)))
<1> DEFINE got == LoadedFeature(Item(f))
           group == GroupLoaded(Item(f))
<1>1. /\ got.name = f.name /\ got.scope = f.scope /\ got.pushed = f.pushed
      /\ got.context = JsonOptions(f.context) /\ got.inputs = Item(f).in_features
      /\ got.group = [k \in DOMAIN group \ {"domain"} |-> group[k]]
      /\ got.domain = IF "domain" \in DOMAIN group THEN group["domain"].is ELSE Absent
  BY DEF LoadedFeature, Item, GroupLoaded
<1> HIDE DEF got
<1>2. DOMAIN group = DOMAIN Group(f) /\ \A k \in DOMAIN group : group[k] = JsonValue(Group(f)[k])
  BY GroupOfItem DEF JsonOptions
<1> HIDE DEF group
<1>3. /\ DOMAIN group \ {"domain"} = DOMAIN f.group
      /\ \A k \in DOMAIN f.group : Group(f)[k] = f.group[k]
      /\ got.domain = f.domain
  <2>1. CASE f.domain = Absent
    <3>1. Group(f) = f.group
      BY <2>1 DEF Group
    <3> QED BY <1>1, <1>2, <2>1, <3>1 DEF IsFeature
  <2>2. CASE f.domain # Absent
    <3>1. Group(f) = [k \in DOMAIN f.group \cup {"domain"} |->
                         IF k = "domain" THEN Value("string", f.domain) ELSE f.group[k]]
      BY <2>2 DEF Group
    <3>2. DOMAIN Group(f) = DOMAIN f.group \cup {"domain"} /\ Group(f)["domain"] = Value("string", f.domain)
      BY <3>1
    <3>3. group["domain"].is = f.domain
      <4>1. PICK v : v = Value("string", f.domain)
        OBVIOUS
      <4>2. v.form = "string" /\ v.is = f.domain
        BY <4>1 DEF Value
      <4>3. JsonValue(v) = v
        BY <4>2 DEF JsonValue
      <4> QED BY <1>2, <3>2, <4>1, <4>2, <4>3
    <3>4. "domain" \notin DOMAIN f.group
      BY DEF IsFeature
    <3> QED BY <1>1, <1>2, <3>1, <3>2, <3>3, <3>4
  <2> QED BY <2>1, <2>2
<1>4. DOMAIN got.group = DOMAIN f.group /\ \A k \in DOMAIN f.group : got.group[k] = JsonValue(f.group[k])
  BY <1>1, <1>2, <1>3
<1>5. SameOptions(f.group, got.group)
  <2>1. \A k \in DOMAIN f.group : Tells(JsonValue(f.group[k])) = Tells(f.group[k])
    BY ValueReadsBack DEF NoItem, IsFeature, LocatorsAreBuilt
  <2> QED BY <1>4, <2>1 DEF SameOptions
<1>6. SameOptions(f.context, got.context)
  BY <1>1, OptionsReadBack DEF NoItem, IsFeature
<1>7. SameInputs(f.inputs, got.inputs)
  BY <1>1, InputsReadBack
<1> QED BY <1>1, <1>3, <1>5, <1>6, <1>7 DEF SameFeature, got

\* A class that the loading process has is the only one of its name there.
LEMMA LinkReadsBack ==
  ASSUME NEW link, NEW registry, ~Unresolved(LinkSpec(link), registry)
  PROVE  SameLink(link, BuildLink(LinkSpec(link), registry), registry)
<1> DEFINE spec == LinkSpec(link)
           resolve(name) == CHOOSE c \in registry : c.name = name
           got == BuildLink(spec, registry)
<1>1. spec = [join |-> link.join, left |-> link.left.name, right |-> link.right.name, on |-> link.on]
  BY DEF LinkSpec
<1>2. got.join = link.join /\ got.on = link.on /\ got.left = resolve(link.left.name) /\ got.right = resolve(link.right.name)
  BY <1>1 DEF BuildLink
<1>3. /\ \E c \in registry : ClassesNamed(link.left.name, registry) = {c}
      /\ \E c \in registry : ClassesNamed(link.right.name, registry) = {c}
  <2>1. spec["left"] = link.left.name /\ spec["right"] = link.right.name
    BY <1>1
  <2> QED BY <2>1 DEF Unresolved
<1>4. ASSUME NEW c \in registry, \E d \in registry : ClassesNamed(c.name, registry) = {d} PROVE resolve(c.name) = c
  <2>1. \A d \in registry : d.name = c.name => d = c
    BY <1>4 DEF ClassesNamed
  <2> QED BY <2>1
<1> HIDE DEF resolve, got, spec
<1>5. link.left \in registry => got.left = link.left
  BY <1>2, <1>3, <1>4
<1>6. link.right \in registry => got.right = link.right
  BY <1>2, <1>3, <1>4
<1> QED BY <1>2, <1>5, <1>6 DEF SameLink, got, spec

\* A document whose links all differ has as many as were given.
LEMMA AsManyLinks ==
  ASSUME NEW draft, IsDraft(draft),
         ~\E i, j \in DOMAIN Document(draft).links : i # j /\ Document(draft).links[i] = Document(draft).links[j]
  PROVE  Len(AllLinks(draft)) = Cardinality(GivenLinks(draft)) /\ Len(AllLinks(draft)) \in Nat
<1> DEFINE all == AllLinks(draft)
           S == GivenLinks(draft)
<1>1. ToSet(all) = S /\ all \in Seq(S)
  BY LinksAreTheGiven DEF IsDraft
<1>2. Document(draft).links = [j \in DOMAIN all |-> LinkSpec(all[j])]
  BY DEF Document
<1> HIDE DEF all, S
<1>3. \A i, j \in DOMAIN all : all[i] = all[j] => i = j
  BY <1>2
<1>4. Len(all) \in Nat /\ DOMAIN all = 1..Len(all) /\ all \in [1..Len(all) -> S]
  BY <1>1
<1>5. all \in Bijection(1..Len(all), S)
  BY <1>1, <1>3, <1>4 DEF Bijection, Injection, Surjection, IsInjective, ToSet
<1>6. ExistsBijection(1..Len(all), S)
  BY <1>5 DEF ExistsBijection
<1>7. Cardinality(S) = Len(all)
  BY <1>4, <1>6, FS_CountingElements
<1> QED BY <1>4, <1>7 DEF all, S

LEMMA LenOfLike ==
  ASSUME NEW s, NEW T, s \in Seq(T), NEW r, DOMAIN r = DOMAIN s, r = [i \in DOMAIN r |-> r[i]] PROVE Len(r) = Len(s)
<1>1. DOMAIN r = 1..Len(s) /\ Len(s) \in Nat
  OBVIOUS
<1> QED BY <1>1

\* What is loaded of a document says what its draft said.
LEMMA RecipeReadsBack ==
  ASSUME NEW draft, IsDraft(draft), NEW registry, \A f \in ToSet(draft.features) : ~NoItem(f),
         ~\E i, j \in DOMAIN Document(draft).links : i # j /\ Document(draft).links[i] = Document(draft).links[j],
         ~NotRealizable(Document(draft), registry)
  PROVE  SameRecipe(draft, RealizeRecipe(Document(draft), registry), registry)
<1> DEFINE doc == Document(draft)
           recipe == RealizeRecipe(doc, registry)
           all == AllLinks(draft)
<1>1. /\ doc.features = [i \in DOMAIN draft.features |-> Item(draft.features[i])]
      /\ doc.links = [i \in DOMAIN all |-> LinkSpec(all[i])]
      /\ doc.compliance = draft.compliance
  BY DEF Document
<1>2. /\ recipe.features = [i \in DOMAIN doc.features |-> LoadedFeature(doc.features[i])]
      /\ recipe.links = [i \in DOMAIN doc.links |-> BuildLink(doc.links[i], registry)]
      /\ recipe.compliance = doc.compliance
  BY DEF RealizeRecipe
<1>3. Len(all) = Cardinality(GivenLinks(draft)) /\ Len(all) \in Nat
  BY AsManyLinks
<1>4. ToSet(all) = GivenLinks(draft) /\ all \in Seq(GivenLinks(draft))
  BY LinksAreTheGiven DEF IsDraft
<1>5. \A i \in DOMAIN doc.links : ~Unresolved(doc.links[i], registry)
  BY DEF NotRealizable
<1> HIDE DEF doc, recipe, all
<1>6. /\ DOMAIN recipe.features = DOMAIN draft.features
      /\ recipe.features = [i \in DOMAIN recipe.features |-> recipe.features[i]]
      /\ DOMAIN recipe.links = DOMAIN all
      /\ recipe.links = [i \in DOMAIN recipe.links |-> recipe.links[i]]
  BY <1>1, <1>2
<1>7. Len(recipe.features) = Len(draft.features)
  BY <1>6, LenOfLike DEF IsDraft
<1>8. Len(recipe.links) = Cardinality(GivenLinks(draft))
  BY <1>3, <1>4, <1>6, LenOfLike
<1>9. ASSUME NEW i \in DOMAIN draft.features
      PROVE  SameFeature(draft.features[i], recipe.features[i])
  <2>1. recipe.features[i] = LoadedFeature(Item(draft.features[i]))
    BY <1>1, <1>2
  <2>2. draft.features[i] \in ToSet(draft.features)
    BY DEF ToSet
  <2> QED BY <2>1, <2>2, FeatureReadsBack DEF IsDraft
<1>10. ASSUME NEW l \in GivenLinks(draft)
       PROVE  \E i \in DOMAIN recipe.links : SameLink(l, recipe.links[i], registry)
  <2>1. PICK i \in DOMAIN all : l = all[i]
    BY <1>4 DEF ToSet
  <2>2. doc.links[i] = LinkSpec(l) /\ i \in DOMAIN doc.links
    BY <1>1, <2>1
  <2>3. recipe.links[i] = BuildLink(LinkSpec(l), registry) /\ i \in DOMAIN recipe.links
    BY <1>2, <2>2
  <2>4. SameLink(l, BuildLink(LinkSpec(l), registry), registry)
    BY <1>5, <2>2, LinkReadsBack
  <2> QED BY <2>3, <2>4
<1>11. recipe.compliance = draft.compliance
  BY <1>1, <1>2
<1>12. SameRecipe(draft, recipe, registry)
  BY <1>7, <1>8, <1>9, <1>10, <1>11 DEF SameRecipe
<1> QED BY <1>12 DEF recipe, doc

-----------------------------------------------------------------------------
\* The files

Begun == \A w \in Writers : writer[w].at # "idle" => writer[w].draft \in Drafts(w)

\* The text in the file is as complete as the way its writer ended says.
UptoOK ==
    file.by # Absent =>
        /\ writer[file.by].at \in {"done", "failed"}
        /\ file.upto = writer[file.by].draft.size => writer[file.by].at = "done"

IInv == RecipesTypeOK /\ Begun /\ UptoOK /\ LoadedWasWritten

LEMMA InitIInv == RecipesInit => IInv
  BY NoWriterIsAbsent
     DEF RecipesInit, IInv, RecipesTypeOK, Begun, UptoOK, LoadedWasWritten, NoFile, Text, NothingLoaded

LEMMA ForgottenLoad == ASSUME Forget PROVE LoadedWasWritten' /\ loaded'.ended = "none"
  BY DEF Forget, LoadedWasWritten, NothingLoaded

LEMMA BuildKeeps ==
  ASSUME IInv, NEW w \in Writers, Build(w) PROVE IInv'
<1>1. PICK draft \in Drafts(w), env \in Environments, registry \in Registries :
         writer' = [writer EXCEPT ![w] = [at |-> IF Refusal(draft, env, registry) THEN "refused" ELSE "built",
                                          draft |-> draft, env |-> env]]
  BY DEF Build
<1>2. draft \in AllDrafts
  BY DEF AllDrafts
<1>3. RecipesTypeOK'
  BY <1>1, <1>2, ForgottenLoad DEF IInv, RecipesTypeOK, Build
<1>4. Begun'
  BY <1>1 DEF IInv, RecipesTypeOK, Begun
<1>5. UptoOK'
  BY <1>1 DEF IInv, RecipesTypeOK, UptoOK, Build
<1> QED BY <1>3, <1>4, <1>5, ForgottenLoad DEF IInv, Build

LEMMA OpenKeeps ==
  ASSUME IInv, NEW w \in Writers, Open(w) PROVE IInv'
<1>1. RecipesTypeOK' /\ Begun' /\ UptoOK'
  BY NoWriterIsAbsent, ForgottenLoad DEF IInv, RecipesTypeOK, Begun, UptoOK, Open, Empty, Text
<1> QED BY <1>1, ForgottenLoad DEF IInv, Open

LEMMA WriteKeeps ==
  ASSUME IInv, NEW w \in Writers, Write(w) PROVE IInv'
<1>1. writer[w].draft.size \in Nat /\ file.total \in Int
  BY DraftsAreDrafts DEF IInv, RecipesTypeOK, Begun, Write
<1>2. RecipesTypeOK'
  BY <1>1, ForgottenLoad DEF IInv, RecipesTypeOK, Write, Text, Longer
<1>3. Begun' /\ UptoOK'
  BY DEF IInv, RecipesTypeOK, Begun, UptoOK, Write, Text
<1> QED BY <1>2, <1>3, ForgottenLoad DEF IInv, Write

LEMMA WriteShortKeeps ==
  ASSUME IInv, NEW w \in Writers, WriteShort(w) PROVE IInv'
<1>1. writer[w].draft.size \in Nat /\ file.total \in Int
  BY DraftsAreDrafts DEF IInv, RecipesTypeOK, Begun, WriteShort
<1>2. PICK n \in Longer(1, file.total)..(writer[w].draft.size - 1) : file' = Text(w, n, n)
  BY DEF WriteShort
<1>3. n \in Int /\ n < writer[w].draft.size
  BY <1>1, <1>2 DEF Longer
<1>4. RecipesTypeOK'
  BY <1>2, <1>3, ForgottenLoad DEF IInv, RecipesTypeOK, WriteShort, Text
<1>5. Begun'
  BY DEF IInv, RecipesTypeOK, Begun, WriteShort
<1>6. UptoOK'
  <2>1. file'.by = w /\ file'.upto = n
    BY <1>2 DEF Text
  <2>2. writer'[w].draft = writer[w].draft /\ writer'[w].at = "failed"
    BY DEF IInv, RecipesTypeOK, WriteShort
  <2> QED BY <1>1, <1>3, <2>1, <2>2 DEF UptoOK
<1> QED BY <1>4, <1>5, <1>6, ForgottenLoad DEF IInv, WriteShort

LEMMA DieKeeps ==
  ASSUME IInv, NEW w \in Writers, Die(w) PROVE IInv'
<1>1. RecipesTypeOK' /\ Begun' /\ UptoOK'
  BY ForgottenLoad DEF IInv, RecipesTypeOK, Begun, UptoOK, Die
<1> QED BY <1>1, ForgottenLoad DEF IInv, Die

\* A load sees the text of one writer to its end, so of one that is done.
LEMMA LoadKeeps ==
  ASSUME IInv, Load PROVE IInv'
<1>1. PICK env \in Environments, registry \in Registries :
         loaded' = IF file = NoFile THEN Failed("no_file")
                   ELSE IF ~IsWhole THEN Failed("no_json")
                   ELSE IF \/ InvalidRecipe(Document(writer[file.by].draft), env)
                           \/ NotRealizable(Document(writer[file.by].draft), registry) THEN Failed("refused")
                   ELSE [ended |-> "loaded", doc |-> Document(writer[file.by].draft),
                         recipe |-> RealizeRecipe(Document(writer[file.by].draft), registry), registry |-> registry]
  BY DEF Load
<1>2. \A how : Failed(how).ended = how
  BY DEF Failed, NothingLoaded
<1>3. RecipesTypeOK' /\ Begun' /\ UptoOK'
  BY <1>1, <1>2 DEF IInv, RecipesTypeOK, Begun, UptoOK, Load
<1>4. ASSUME loaded'.ended = "loaded"
      PROVE  \E w \in Writers : writer'[w].at = "done" /\ loaded'.doc = Document(writer'[w].draft)
  <2>1. IsWhole /\ loaded'.doc = Document(writer[file.by].draft)
    BY <1>1, <1>2, <1>4
  <2>2. file.by \in Writers /\ writer[file.by].at = "done"
    BY <2>1 DEF IInv, RecipesTypeOK, UptoOK, IsWhole
  <2> QED BY <2>1, <2>2 DEF Load
<1>5. LoadedWasWritten'
  <2>1. \A w : Document(writer[w].draft)' = Document(writer'[w].draft)
    OBVIOUS
  <2> QED BY <1>4, <2>1 DEF LoadedWasWritten
<1> QED BY <1>3, <1>5 DEF IInv

LEMMA StepKeepsIInv ==
  ASSUME IInv, [RecipesNext]_recipeVars PROVE IInv'
<1>1. CASE RecipesNext
  <2>1. CASE \E w \in Writers : Build(w) \/ Open(w) \/ Write(w) \/ WriteShort(w) \/ Die(w)
    BY <2>1, BuildKeeps, OpenKeeps, WriteKeeps, WriteShortKeeps, DieKeeps
  <2>2. CASE Load
    BY <2>2, LoadKeeps
  <2>3. CASE Index
    BY <2>3 DEF Index, IInv, RecipesTypeOK, Begun, UptoOK, LoadedWasWritten
  <2> QED BY <1>1, <2>1, <2>2, <2>3 DEF RecipesNext
<1>2. CASE UNCHANGED recipeVars
  BY <1>2 DEF recipeVars, IInv, RecipesTypeOK, Begun, UptoOK, LoadedWasWritten
<1> QED BY <1>1, <1>2

\* The inductive invariant: whoever has written to its end is done, and who is not has left
\* a text that is no document.
THEOREM RecipesInvariance == RecipesSpec => []IInv
  BY InitIInv, StepKeepsIInv, PTL DEF RecipesSpec

\* Every variable keeps its type.
THEOREM RecipesTypeCorrect == RecipesSpec => []RecipesTypeOK
  BY RecipesInvariance, PTL DEF IInv

\* However many processes write one file in place, die at it and run out of disk, a load
\* that succeeds returns a document one of them wrote to its end (load.py:load_recipe).
THEOREM LoadsAreWhole == RecipesSpec => []LoadedWasWritten
  BY RecipesInvariance, PTL DEF IInv

\* Who is past the scan has a draft that passed it.
Passed ==
    \A w \in Writers : writer[w].at \notin {"idle", "refused"} =>
        \E registry : ~Refusal(writer[w].draft, writer[w].env, registry)

LEMMA PassedOn ==
  ASSUME IInv, Passed, NEW w \in Writers, writer[w].at \notin {"idle", "refused"},
         NEW how, writer' = [writer EXCEPT ![w].at = how]
  PROVE  Passed'
<1> SUFFICES ASSUME NEW v \in Writers, writer'[v].at \notin {"idle", "refused"}
             PROVE  \E registry : ~Refusal(writer'[v].draft, writer'[v].env, registry)
  BY DEF Passed
<1>1. writer'[v].draft = writer[v].draft /\ writer'[v].env = writer[v].env
  BY DEF IInv, RecipesTypeOK
<1>2. writer[v].at \notin {"idle", "refused"}
  BY DEF IInv, RecipesTypeOK
<1> QED BY <1>1, <1>2 DEF Passed

LEMMA StepKeepsPassed ==
  ASSUME IInv, Passed, [RecipesNext]_recipeVars PROVE Passed'
<1>1. ASSUME NEW w \in Writers, Build(w) PROVE Passed'
  <2>1. PICK draft \in Drafts(w), env \in Environments, registry \in Registries :
           writer' = [writer EXCEPT ![w] = [at |-> IF Refusal(draft, env, registry) THEN "refused" ELSE "built",
                                            draft |-> draft, env |-> env]]
    BY <1>1 DEF Build
  <2> SUFFICES ASSUME NEW v \in Writers, writer'[v].at \notin {"idle", "refused"}
               PROVE  \E r : ~Refusal(writer'[v].draft, writer'[v].env, r)
    BY DEF Passed
  <2>2. CASE v = w
    <3>1. writer'[v] = [at |-> IF Refusal(draft, env, registry) THEN "refused" ELSE "built",
                        draft |-> draft, env |-> env]
      BY <2>1, <2>2 DEF IInv, RecipesTypeOK
    <3>2. ~Refusal(draft, env, registry)
      BY <3>1
    <3> QED BY <3>1, <3>2
  <2>3. CASE v # w
    <3>1. writer'[v] = writer[v]
      BY <2>1, <2>3
    <3> QED BY <3>1 DEF Passed
  <2> QED BY <2>2, <2>3
<1>2. ASSUME NEW w \in Writers, Open(w) \/ Write(w) \/ WriteShort(w) \/ Die(w) PROVE Passed'
  <2>1. writer[w].at \in {"built", "open"}
        /\ \/ writer' = [writer EXCEPT ![w].at = "open"]
           \/ writer' = [writer EXCEPT ![w].at = "done"]
           \/ writer' = [writer EXCEPT ![w].at = "failed"]
    BY <1>2 DEF Open, Write, WriteShort, Die
  <2> QED BY <2>1, PassedOn
<1>3. CASE Load \/ Index \/ UNCHANGED recipeVars
  BY <1>3 DEF Load, Index, recipeVars, Passed
<1> QED BY <1>1, <1>2, <1>3 DEF RecipesNext

THEOREM PassingInvariance == RecipesSpec => []Passed
<1>1. RecipesInit => Passed
  BY DEF RecipesInit, Passed
<1> QED BY <1>1, StepKeepsPassed, RecipesInvariance, PTL DEF RecipesSpec

LEMMA DraftsAreOK ==
  ASSUME IInv, NEW w \in Writers, writer[w].at # "idle" PROVE IsDraft(writer[w].draft)
BY DraftsAreDrafts DEF IInv, Begun, IsDraft

LEMMA NothingToken ==
  ASSUME IInv, Passed PROVE NoCredentialAtRest
<1> SUFFICES ASSUME file.by # Absent, NEW word \in WordsOf(writer[file.by].draft)
             PROVE  /\ \A v \in writer[file.by].env :
                          v.of # "USER" /\ v.value \in Long => v.value \notin Holds(word)
                    /\ word \notin TokenRuns
  BY DEF NoCredentialAtRest
<1> DEFINE draft == writer[file.by].draft
           env == writer[file.by].env
<1>1. file.by \in Writers /\ writer[file.by].at \in {"done", "failed"}
  BY DEF IInv, RecipesTypeOK, UptoOK
<1>2. IsDraft(draft)
  BY <1>1, DraftsAreOK
<1>3. PICK registry : ~Refusal(draft, env, registry)
  BY <1>1 DEF Passed
<1>4. ~RejectedCredentials(Document(draft), env)
  BY <1>3 DEF Refusal, InvalidRecipe
<1>5. Stands(word, Document(draft))
  BY <1>2, WordsStand
<1> QED BY <1>4, <1>5, ScanClears

\* For any writers, drafts and environments: no word of a document that stands on disk, even
\* in part, holds a token or password of its writer's environment, and none looks like one
\* (credential_scan.py:reject_credentials).
THEOREM NothingSecretIsWritten == RecipesSpec => []NoCredentialAtRest
  BY NothingToken, RecipesInvariance, PassingInvariance, PTL

LEMMA LoadSaysAll ==
  ASSUME IInv, Passed, Load PROVE NothingLostInWriting'
<1> DEFINE draft == writer[file.by].draft
<1>1. PICK env \in Environments, registry \in Registries :
         loaded' = IF file = NoFile THEN Failed("no_file")
                   ELSE IF ~IsWhole THEN Failed("no_json")
                   ELSE IF InvalidRecipe(Document(draft), env) \/ NotRealizable(Document(draft), registry)
                   THEN Failed("refused")
                   ELSE [ended |-> "loaded", doc |-> Document(draft),
                         recipe |-> RealizeRecipe(Document(draft), registry), registry |-> registry]
  BY DEF Load
<1>2. \A how : Failed(how).ended = how
  BY DEF Failed, NothingLoaded
<1>3. ASSUME loaded'.ended = "loaded"
      PROVE  \E w \in Writers : writer'[w].at = "done" /\ SameRecipe(writer'[w].draft, loaded'.recipe, loaded'.registry)
  <2>1. /\ IsWhole /\ ~InvalidRecipe(Document(draft), env) /\ ~NotRealizable(Document(draft), registry)
        /\ loaded'.recipe = RealizeRecipe(Document(draft), registry) /\ loaded'.registry = registry
    BY <1>1, <1>2, <1>3
  <2>2. file.by \in Writers /\ writer[file.by].at = "done" /\ writer' = writer
    BY <2>1 DEF IInv, RecipesTypeOK, UptoOK, IsWhole, Load
  <2>3. IsDraft(draft)
    BY <2>2, DraftsAreOK
  <2>4. \A f \in ToSet(draft.features) : ~NoItem(f)
    <3>1. \E r : ~Refusal(draft, writer[file.by].env, r)
      BY <2>2 DEF Passed
    <3> QED BY <3>1 DEF Refusal, ToSet
  <2>5. ~\E i, j \in DOMAIN Document(draft).links : i # j /\ Document(draft).links[i] = Document(draft).links[j]
    BY <2>1 DEF InvalidRecipe
  <2>6. SameRecipe(draft, RealizeRecipe(Document(draft), registry), registry)
    BY <2>1, <2>3, <2>4, <2>5, RecipeReadsBack
  <2> QED BY <2>1, <2>2, <2>6
<1> QED BY <1>3 DEF NothingLostInWriting

\* For any drafts that can be given to it and any classes a loading process has: what is
\* loaded says everything its writer said (write.py:_feature_item, _json_value, build_recipe,
\* load.py:realize_recipe).
THEOREM RecipesSayAll == RecipesSpec => []NothingLostInWriting
<1>1. RecipesInit => NothingLostInWriting
  BY DEF RecipesInit, NothingLostInWriting, NothingLoaded
<1>2. IInv /\ Passed /\ NothingLostInWriting /\ [RecipesNext]_recipeVars => NothingLostInWriting'
  <2> SUFFICES ASSUME IInv, Passed, NothingLostInWriting, [RecipesNext]_recipeVars PROVE NothingLostInWriting'
    OBVIOUS
  <2>1. CASE Forget
    <3>1. loaded'.ended = "none"
      BY <2>1 DEF Forget, NothingLoaded
    <3> QED BY <3>1 DEF NothingLostInWriting
  <2>2. CASE Load
    BY <2>2, LoadSaysAll
  <2>3. CASE UNCHANGED <<writer, loaded>>
    BY <2>3 DEF NothingLostInWriting
  <2>4. Forget \/ Load \/ UNCHANGED <<writer, loaded>>
    BY DEF RecipesNext, Build, Open, Write, WriteShort, Die, Index, recipeVars
  <2> QED BY <2>1, <2>2, <2>3, <2>4
<1> QED BY <1>1, <1>2, RecipesInvariance, PassingInvariance, PTL DEF RecipesSpec

-----------------------------------------------------------------------------
\* Flattening

\* How the elements of the first k sequences lie in s: at is the place of each.
Lies(seqs, k, s, at) ==
    /\ at \in [1..Len(s) -> Nat \X Nat]
    /\ \A n \in 1..Len(s) : /\ at[n][1] \in 1..k /\ at[n][2] \in 1..Len(seqs[at[n][1]])
                            /\ s[n] = seqs[at[n][1]][at[n][2]]
    /\ \A i \in 1..k : \A j \in 1..Len(seqs[i]) : \E n \in 1..Len(s) : at[n] = <<i, j>>
    /\ \A m, n \in 1..Len(s) : m < n =>
          at[m][1] < at[n][1] \/ (at[m][1] = at[n][1] /\ at[m][2] < at[n][2])

LEMMA LiesNext ==
  ASSUME NEW T, NEW seqs \in Seq(Seq(T)), NEW k \in Nat, k + 1 \in 1..Len(seqs), NEW s \in Seq(T),
         NEW at, Lies(seqs, k, s, at)
  PROVE  \E next : Lies(seqs, k + 1, s \o seqs[k + 1], next)
<1> DEFINE q == seqs[k + 1]
           L == Len(s)
           M == Len(q)
           t == s \o q
           next == [n \in 1..Len(t) |-> IF n <= L THEN at[n] ELSE <<k + 1, n - L>>]
<1>1. q \in Seq(T) /\ L \in Nat /\ M \in Nat
  OBVIOUS
<1>2. Len(t) = L + M /\ t \in Seq(T)
  BY <1>1
<1>3. /\ \A n \in 1..L : t[n] = s[n]
      /\ \A n \in 1..M : t[n + L] = q[n]
  BY <1>1
<1>3a. \A n \in 1..L + M : n > L => n - L \in 1..M /\ t[n] = q[n - L]
  <2> TAKE n \in 1..L + M
  <2> HAVE n > L
  <2>1. n - L \in 1..M /\ (n - L) + L = n
    BY <1>1
  <2> HIDE DEF t, q
  <2> QED BY <1>3, <2>1
<1> HIDE DEF t
<1>4. ASSUME NEW n \in 1..Len(t), n <= L PROVE n \in 1..L /\ next[n] = at[n]
  BY <1>1, <1>2, <1>4
<1>4a. ASSUME NEW n \in 1..Len(t), ~(n <= L)
       PROVE  next[n] = <<k + 1, n - L>> /\ n - L \in 1..M /\ t[n] = q[n - L]
  <2>1. next[n] = <<k + 1, n - L>>
    BY ONLY <1>4a
  <2> HIDE DEF next, q, L, M
  <2>2. n \in 1..L + M /\ n > L
    BY <1>1, <1>2, <1>4a
  <2>3. n - L \in 1..M /\ t[n] = q[n - L]
    BY <1>3a, <2>2
  <2> QED BY <2>1, <2>3
<1>4b. /\ at \in [1..L -> Nat \X Nat]
       /\ \A n \in 1..L : /\ at[n][1] \in 1..k /\ at[n][2] \in 1..Len(seqs[at[n][1]])
                          /\ s[n] = seqs[at[n][1]][at[n][2]]
       /\ \A i \in 1..k : \A j \in 1..Len(seqs[i]) : \E n \in 1..L : at[n] = <<i, j>>
       /\ \A m, n \in 1..L : m < n =>
             at[m][1] < at[n][1] \/ (at[m][1] = at[n][1] /\ at[m][2] < at[n][2])
  BY DEF Lies
<1>5. DOMAIN next = 1..Len(t) /\ next = [n \in 1..Len(t) |-> next[n]]
  OBVIOUS
<1> HIDE DEF next, L
<1>6. next \in [1..Len(t) -> Nat \X Nat]
  <2>1. ASSUME NEW n \in 1..Len(t) PROVE next[n] \in Nat \X Nat
    <3>1. CASE n <= L
      BY <1>4, <1>4b, <3>1
    <3>2. CASE ~(n <= L)
      <4>1. next[n] = <<k + 1, n - L>> /\ n - L \in 1..M
        BY <1>4a, <3>2
      <4>2. k + 1 \in Nat /\ n - L \in Nat
        BY <1>1, <4>1
      <4>3. <<k + 1, n - L>> \in Nat \X Nat
        BY <4>2
      <4> QED BY <4>1, <4>3, Zenon
    <3> QED BY <3>1, <3>2
  <2> QED BY <1>5, <2>1
<1>7. ASSUME NEW n \in 1..Len(t)
      PROVE  /\ next[n][1] \in 1..(k + 1) /\ next[n][2] \in 1..Len(seqs[next[n][1]])
             /\ t[n] = seqs[next[n][1]][next[n][2]]
  <2>1. CASE n <= L
    <3>1. n \in 1..L /\ next[n] = at[n] /\ t[n] = s[n]
      BY <1>3, <1>4, <2>1
    <3>2. at[n][1] \in 1..k /\ at[n][2] \in 1..Len(seqs[at[n][1]]) /\ s[n] = seqs[at[n][1]][at[n][2]]
      BY <1>4b, <3>1
    <3> QED BY <3>1, <3>2
  <2>2. CASE ~(n <= L)
    <3>1. next[n] = <<k + 1, n - L>> /\ n - L \in 1..M /\ t[n] = q[n - L]
      BY <1>4a, <2>2
    <3> QED BY <3>1
  <2> QED BY <2>1, <2>2
<1>8. ASSUME NEW i \in 1..(k + 1), NEW j \in 1..Len(seqs[i])
      PROVE  \E n \in 1..Len(t) : next[n] = <<i, j>>
  <2>1. CASE i \in 1..k
    <3>1. PICK n \in 1..L : at[n] = <<i, j>>
      <4>1. i \in 1..k
        BY <2>1
      <4> QED BY <1>4b, <4>1
    <3>2. n \in 1..Len(t) /\ n <= L
      BY <1>1, <1>2
    <3> QED BY <1>4, <3>1, <3>2
  <2>2. CASE i = k + 1
    <3>1. j \in 1..M
      BY <2>2
    <3>2. L + j \in 1..Len(t) /\ ~(L + j <= L) /\ (L + j) - L = j
      BY <1>1, <1>2, <3>1
    <3> QED BY <1>4a, <2>2, <3>2
  <2> QED BY <2>1, <2>2
<1>9. ASSUME NEW m \in 1..Len(t), NEW n \in 1..Len(t), m < n
      PROVE  next[m][1] < next[n][1] \/ (next[m][1] = next[n][1] /\ next[m][2] < next[n][2])
  <2>1. CASE n <= L
    <3>1. m <= L
      BY <1>1, <1>2, <1>9, <2>1
    <3>2. m \in 1..L /\ n \in 1..L /\ next[m] = at[m] /\ next[n] = at[n]
      BY <1>4, <2>1, <3>1
    <3>3. at[m][1] < at[n][1] \/ (at[m][1] = at[n][1] /\ at[m][2] < at[n][2])
      BY <1>4b, <1>9, <3>2
    <3> QED BY <3>2, <3>3
  <2>2. CASE m <= L /\ ~(n <= L)
    <3>1. next[m] = at[m] /\ m \in 1..L /\ next[n] = <<k + 1, n - L>>
      BY <1>4, <1>4a, <2>2
    <3>2. at[m][1] \in 1..k
      BY <1>4b, <3>1
    <3> QED BY <3>1, <3>2
  <2>3. CASE ~(m <= L)
    <3>1. next[m] = <<k + 1, m - L>> /\ next[n] = <<k + 1, n - L>>
      <4>1. ~(n <= L)
        BY <1>1, <1>2, <1>9, <2>3
      <4> QED BY <1>4a, <2>3, <4>1
    <3> QED BY <1>1, <1>9, <3>1
  <2> QED BY <2>1, <2>2, <2>3
<1>10. Lies(seqs, k + 1, t, next)
  BY <1>6, <1>7, <1>8, <1>9 DEF Lies
<1> QED BY <1>10 DEF t

\* What FlattenSeq computes, up to the k-th sequence.
FlattensTo(seqs, k, g) ==
    g = [i \in 1..k |-> IF i = 1 THEN seqs[i] ELSE g[i - 1] \o seqs[i]]

LEMMA FlattenedOnce ==
  ASSUME NEW seqs, NEW n \in Nat PROVE \E g : FlattensTo(seqs, n, g)
<1> DEFINE S == {k \in Nat : \E g : FlattensTo(seqs, k, g)}
<1>1. 0 \in S
  <2> DEFINE g == [i \in 1..0 |-> seqs[i]]
  <2>1. \A i : i \notin 1..0
    OBVIOUS
  <2>2. g = [i \in 1..0 |-> IF i = 1 THEN seqs[i] ELSE g[i - 1] \o seqs[i]]
    BY <2>1
  <2> HIDE DEF g
  <2> QED BY <2>2 DEF FlattensTo
<1>2. ASSUME NEW k \in S, k < n PROVE k + 1 \in S
  <2>1. PICK g : FlattensTo(seqs, k, g)
    BY <1>2
  <2>2. k \in Nat
    BY <1>2
  <2> DEFINE last == IF k + 1 = 1 THEN seqs[k + 1] ELSE g[k] \o seqs[k + 1]
             h == [i \in 1..(k + 1) |-> IF i \in 1..k THEN g[i] ELSE last]
  <2>3. ASSUME NEW i \in 1..(k + 1)
        PROVE  h[i] = IF i = 1 THEN seqs[i] ELSE h[i - 1] \o seqs[i]
    <3>1. CASE i \in 1..k
      <4>1. h[i] = g[i]
        BY <3>1
      <4>2. g[i] = IF i = 1 THEN seqs[i] ELSE g[i - 1] \o seqs[i]
        BY <2>1, <3>1 DEF FlattensTo
      <4>3. i # 1 => i - 1 \in 1..k /\ h[i - 1] = g[i - 1]
        BY <2>2, <3>1
      <4> HIDE DEF h
      <4> QED BY <4>1, <4>2, <4>3
    <3>2. CASE i = k + 1
      <4>1. i \notin 1..k /\ h[i] = last
        BY <2>2, <3>2
      <4>2. i # 1 => i - 1 \in 1..k /\ h[i - 1] = g[k]
        BY <2>2, <3>2
      <4> HIDE DEF h
      <4> QED BY <3>2, <4>1, <4>2
    <3> QED BY <2>2, <3>1, <3>2
  <2>4. h = [i \in 1..(k + 1) |-> h[i]]
    OBVIOUS
  <2> HIDE DEF h
  <2>5. h = [i \in 1..(k + 1) |-> IF i = 1 THEN seqs[i] ELSE h[i - 1] \o seqs[i]]
    BY <2>3, <2>4
  <2>6. FlattensTo(seqs, k + 1, h)
    BY <2>5 DEF FlattensTo
  <2> QED BY <2>2, <2>6
<1> HIDE DEF S
<1>3. n \in S
  <2>1. S \in SUBSET Nat
    BY DEF S
  <2> QED BY <1>1, <1>2, <2>1, FromZeroOn
<1> QED BY <1>3 DEF S

\* Flattening keeps every element of every sequence, once and in order.
LEMMA FlatteningKeeps ==
  ASSUME NEW T, NEW seqs \in Seq(Seq(T))
  PROVE  FlattenSeq(seqs) \in Seq(T) /\ \E at : Lies(seqs, Len(seqs), FlattenSeq(seqs), at)
<1> DEFINE N == Len(seqs)
<1>1. N \in Nat
  OBVIOUS
<1>2. CASE N = 0
  <2>1. FlattenSeq(seqs) = << >> /\ seqs = << >>
    BY <1>2 DEF FlattenSeq
  <2>2. Lies(seqs, N, << >>, << >>)
    BY <1>2 DEF Lies
  <2> QED BY <2>1, <2>2
<1>3. CASE N # 0
  <2> DEFINE g == CHOOSE g : FlattensTo(seqs, N, g)
  <2>1. FlattensTo(seqs, N, g)
    BY <1>1, FlattenedOnce
  <2>2. FlattenSeq(seqs) = g[N]
    BY <1>3 DEF FlattenSeq, FlattensTo
  <2> HIDE DEF g
  <2> DEFINE S == {k \in Nat : k \in 1..N => g[k] \in Seq(T) /\ \E at : Lies(seqs, k, g[k], at)}
  <2>3. 0 \in S
    OBVIOUS
  <2>4. ASSUME NEW k \in S, k < N PROVE k + 1 \in S
    <3>1. k \in Nat /\ k + 1 \in 1..N
      BY <1>1, <2>4
    <3>2. CASE k = 0
      <4>1. g[1] = seqs[1] /\ seqs[1] \in Seq(T)
        BY <2>1, <3>1, <3>2 DEF FlattensTo
      <4>2. Lies(seqs, 0, << >>, << >>)
        BY DEF Lies
      <4>3. PICK at : Lies(seqs, 0 + 1, << >> \o seqs[0 + 1], at)
        <5>1. << >> \in Seq(T) /\ 0 \in Nat /\ 0 + 1 \in 1..Len(seqs)
          BY <3>1, <3>2
        <5> QED BY <4>2, <5>1, LiesNext
      <4>4. << >> \o seqs[1] = seqs[1]
        BY <4>1
      <4> QED BY <3>2, <4>1, <4>3, <4>4
    <3>3. CASE k # 0
      <4>1. k \in 1..N /\ k + 1 # 1 /\ (k + 1) - 1 = k
        BY <3>1, <3>3
      <4>2. g[k] \in Seq(T) /\ \E at : Lies(seqs, k, g[k], at)
        BY <4>1
      <4>3. g[k + 1] = g[(k + 1) - 1] \o seqs[k + 1]
        BY <2>1, <3>1, <4>1 DEF FlattensTo
      <4>4. g[k + 1] = g[k] \o seqs[k + 1]
        BY <4>1, <4>3
      <4>5. \E at : Lies(seqs, k + 1, g[k] \o seqs[k + 1], at)
        BY <3>1, <4>2, LiesNext
      <4>6. g[k] \o seqs[k + 1] \in Seq(T)
        BY <3>1, <4>2
      <4>7. g[k + 1] \in Seq(T) /\ \E at : Lies(seqs, k + 1, g[k + 1], at)
        BY <4>4, <4>5, <4>6, Zenon
      <4>8. k + 1 \in Nat
        BY <3>1
      <4> QED BY <4>7, <4>8, Zenon
    <3> QED BY <3>2, <3>3
  <2> HIDE DEF S
  <2>5. N \in S
    <3>1. S \in SUBSET Nat
      BY DEF S
    <3> QED BY <1>1, <2>3, <2>4, <3>1, FromZeroOn
  <2> QED BY <1>1, <1>3, <2>2, <2>5 DEF S
<1> QED BY <1>2, <1>3

LEMMA IsASequence ==
  ASSUME NEW T, NEW n \in Nat, NEW f \in [1..n -> T] PROVE f \in Seq(T)
OBVIOUS

\* What is in a flattened sequence is what is in its parts.
LEMMA FlatteningCollects ==
  ASSUME NEW T, NEW seqs \in Seq(Seq(T))
  PROVE  /\ FlattenSeq(seqs) \in Seq(T)
         /\ \A x : x \in ToSet(FlattenSeq(seqs)) <=> \E i \in DOMAIN seqs : x \in ToSet(seqs[i])
<1>1. PICK flat : flat = FlattenSeq(seqs)
  OBVIOUS
<1>2. flat \in Seq(T) /\ \E at : Lies(seqs, Len(seqs), flat, at)
  BY <1>1, FlatteningKeeps
<1>3. PICK at : Lies(seqs, Len(seqs), flat, at)
  BY <1>2
<1>4. ASSUME NEW x, x \in ToSet(flat) PROVE \E i \in DOMAIN seqs : x \in ToSet(seqs[i])
  <2>1. PICK n \in 1..Len(flat) : flat[n] = x
    BY <1>2, <1>4 DEF ToSet
  <2>2. /\ at[n][1] \in 1..Len(seqs) /\ at[n][2] \in 1..Len(seqs[at[n][1]])
        /\ x = seqs[at[n][1]][at[n][2]]
    BY <1>3, <2>1 DEF Lies
  <2>3. seqs[at[n][1]] \in Seq(T)
    BY <2>2
  <2> QED BY <2>2, <2>3 DEF ToSet
<1>5. ASSUME NEW i \in DOMAIN seqs, NEW x \in ToSet(seqs[i]) PROVE x \in ToSet(flat)
  <2>1. i \in 1..Len(seqs) /\ seqs[i] \in Seq(T)
    OBVIOUS
  <2>2. PICK j \in 1..Len(seqs[i]) : seqs[i][j] = x
    BY <2>1 DEF ToSet
  <2>3. PICK n \in 1..Len(flat) : at[n] = <<i, j>>
    BY <1>3, <2>1 DEF Lies
  <2>4. flat[n] = seqs[at[n][1]][at[n][2]]
    BY <1>3 DEF Lies
  <2>5. flat[n] = x
    BY <2>2, <2>3, <2>4
  <2> QED BY <1>2, <2>5 DEF ToSet
<1> QED BY <1>1, <1>2, <1>4, <1>5

\* A sequence without elements is the empty one.
LEMMA NothingInEmpty ==
  ASSUME NEW S, NEW s \in Seq(S) PROVE s = << >> <=> ToSet(s) = {}
<1>1. ASSUME s # << >> PROVE 1 \in DOMAIN s
  BY <1>1
<1> QED BY <1>1 DEF ToSet

\* Leaving an element out leaves the others in.
LEMMA WithoutDrops ==
  ASSUME NEW T, NEW list \in Seq(T), NEW e
  PROVE  Without(list, e) \in Seq(T) /\ ToSet(Without(list, e)) = ToSet(list) \ {e}
<1> DEFINE Part(i) == IF list[i] = e THEN << >> ELSE <<list[i]>>
           seqs == [i \in DOMAIN list |-> Part(i)]
<1>1. seqs \in Seq(Seq(T)) /\ DOMAIN seqs = DOMAIN list /\ \A i \in DOMAIN list : seqs[i] = Part(i)
  <2>1. \A i \in DOMAIN list : Part(i) \in Seq(T)
    OBVIOUS
  <2> HIDE DEF Part
  <2> QED BY <2>1
<1>2. Without(list, e) = FlattenSeq(seqs)
  BY DEF Without
<1> HIDE DEF seqs
<1>3. ASSUME NEW x PROVE x \in ToSet(Without(list, e)) <=> x \in ToSet(list) \ {e}
  <2>1. x \in ToSet(Without(list, e)) <=> \E i \in DOMAIN list : x \in ToSet(Part(i))
    <3>1. \A i \in DOMAIN list : seqs[i] = Part(i)
      BY <1>1
    <3> HIDE DEF Part
    <3> QED BY <1>1, <1>2, <3>1, FlatteningCollects
  <2>2. ASSUME NEW i \in DOMAIN list PROVE x \in ToSet(Part(i)) <=> list[i] # e /\ x = list[i]
    <3>1. CASE list[i] = e
      BY <3>1 DEF ToSet
    <3>2. CASE list[i] # e
      <4>1. Part(i) = <<list[i]>> /\ DOMAIN Part(i) = {1}
        BY <3>2
      <4> QED BY <3>2, <4>1 DEF ToSet
    <3> QED BY <3>1, <3>2
  <2> HIDE DEF Part
  <2> QED BY <2>1, <2>2 DEF ToSet
<1> QED BY <1>1, <1>2, <1>3, FlatteningCollects

-----------------------------------------------------------------------------
\* frames.py: what the index of the first n columns says

IndexSays(cols, n, index) ==
    /\ index = [frames |-> index.frames, ambiguous |-> index.ambiguous]
    /\ \A name : name \in index.ambiguous <=>
                    \E l, m \in 1..n : l # m /\ cols[l][2] = name /\ cols[m][2] = name
    /\ \A name : name \in DOMAIN index.frames <=>
                    name \notin index.ambiguous /\ \E m \in 1..n : cols[m][2] = name
    /\ \A m \in 1..n : cols[m][2] \in DOMAIN index.frames => index.frames[cols[m][2]] = cols[m][1]

LEMMA IndexStep ==
  ASSUME NEW cols, NEW n \in Nat, NEW index, IndexSays(cols, n, index)
  PROVE  IndexSays(cols, n + 1, Indexed(index, cols[n + 1]))
<1> DEFINE c == cols[n + 1]
           F == index.frames
           A == index.ambiguous
<1>1. index = [frames |-> F, ambiguous |-> A]
  BY DEF IndexSays
<1>2. \A name : name \in A <=> \E l, m \in 1..n : l # m /\ cols[l][2] = name /\ cols[m][2] = name
  BY DEF IndexSays
<1>3. \A name : name \in DOMAIN F <=> name \notin A /\ \E m \in 1..n : cols[m][2] = name
  BY DEF IndexSays
<1>4. \A m \in 1..n : cols[m][2] \in DOMAIN F => F[cols[m][2]] = cols[m][1]
  BY DEF IndexSays
<1>5. \A m : m \in 1..(n + 1) <=> m \in 1..n \/ m = n + 1
  OBVIOUS
<1>6. n + 1 \notin 1..n
  OBVIOUS
<1>7. cols[n + 1] = c
  OBVIOUS
<1> DEFINE N == n + 1
<1>n. N = n + 1
  OBVIOUS
<1> HIDE DEF F, A, c, N
<1>8. CASE c[2] \in A
  <2>1. Indexed(index, c) = index
    BY <1>1, <1>8 DEF Indexed, A
  <2>2. \A name : name \in A <=> \E l, m \in 1..N : l # m /\ cols[l][2] = name /\ cols[m][2] = name
    BY <1>2, <1>5, <1>7, <1>8, <1>n
  <2>3. \A name : name \in DOMAIN F <=> name \notin A /\ \E m \in 1..N : cols[m][2] = name
    BY <1>3, <1>5, <1>7, <1>8, <1>n
  <2>4. \A m \in 1..N : cols[m][2] \in DOMAIN F => F[cols[m][2]] = cols[m][1]
    BY <1>3, <1>4, <1>5, <1>7, <1>8, <1>n
  <2> QED BY <1>1, <2>1, <2>2, <2>3, <2>4, <1>n, <1>7 DEF IndexSays, A, F
<1>9. CASE c[2] \notin A /\ c[2] \in DOMAIN F
  <2> DEFINE G == [name \in DOMAIN F \ {c[2]} |-> F[name]]
             B == A \cup {c[2]}
             next == [frames |-> G, ambiguous |-> B]
  <2>1. Indexed(index, c) = next
    BY <1>9 DEF Indexed, A, F
  <2>2. \A name : name \in B <=> \E l, m \in 1..N : l # m /\ cols[l][2] = name /\ cols[m][2] = name
    <3>1. PICK m \in 1..n : cols[m][2] = c[2]
      BY <1>3, <1>9
    <3>2. \E l, k \in 1..N : l # k /\ cols[l][2] = c[2] /\ cols[k][2] = c[2]
      BY <1>5, <1>6, <1>7, <1>n, <3>1
    <3> QED BY <1>2, <1>5, <1>7, <1>n, <3>2
  <2>3. \A name : name \in DOMAIN G <=> name \notin B /\ \E m \in 1..N : cols[m][2] = name
    BY <1>3, <1>5, <1>7, <1>n
  <2>4. \A m \in 1..N : cols[m][2] \in DOMAIN G => G[cols[m][2]] = cols[m][1]
    BY <1>4, <1>5, <1>7, <1>n
  <2>5. next = [frames |-> next.frames, ambiguous |-> next.ambiguous] /\ next.frames = G /\ next.ambiguous = B
    OBVIOUS
  <2> HIDE DEF G, B, next
  <2>6. IndexSays(cols, N, next)
    BY <2>2, <2>3, <2>4, <2>5 DEF IndexSays
  <2> QED BY <2>1, <2>6, <1>n, <1>7
<1>10. CASE c[2] \notin A /\ c[2] \notin DOMAIN F
  <2> DEFINE G == [name \in DOMAIN F \cup {c[2]} |-> IF name = c[2] THEN c[1] ELSE F[name]]
             next == [frames |-> G, ambiguous |-> A]
  <2>0. index.frames = F /\ index.ambiguous = A
    BY DEF F, A
  <2>1. Indexed(index, c) = next
    <3>1. Indexed(index, c) = [index EXCEPT !.frames = [name \in DOMAIN @ \cup {c[2]} |-> IF name = c[2] THEN c[1] ELSE @[name]]]
      BY <1>10, <2>0 DEF Indexed
    <3> QED BY <1>1, <2>0, <3>1
  <2>a. ~\E m \in 1..n : cols[m][2] = c[2]
    BY <1>3, <1>10
  <2>2. \A name : name \in A <=> \E l, m \in 1..N : l # m /\ cols[l][2] = name /\ cols[m][2] = name
    BY <1>2, <1>5, <1>7, <1>n, <2>a
  <2>3. \A name : name \in DOMAIN G <=> name \notin A /\ \E m \in 1..N : cols[m][2] = name
    BY <1>3, <1>5, <1>7, <1>n, <1>10
  <2>4. \A m \in 1..N : cols[m][2] \in DOMAIN G => G[cols[m][2]] = cols[m][1]
    BY <1>4, <1>5, <1>7, <1>n, <2>a
  <2>5. next = [frames |-> next.frames, ambiguous |-> next.ambiguous] /\ next.frames = G /\ next.ambiguous = A
    OBVIOUS
  <2> HIDE DEF G, next
  <2>6. IndexSays(cols, N, next)
    BY <2>2, <2>3, <2>4, <2>5 DEF IndexSays
  <2> QED BY <2>1, <2>6, <1>n, <1>7
<1> QED BY <1>8, <1>9, <1>10

\* The index after each column.
IndexSteps(cols, k, g) ==
    g = [n \in 0..k |-> IF n = 0 THEN [frames |-> << >>, ambiguous |-> {}] ELSE Indexed(g[n - 1], cols[n])]

LEMMA IndexedOnce ==
  ASSUME NEW cols, NEW n \in Nat PROVE \E g : IndexSteps(cols, n, g)
<1> DEFINE nothing == [frames |-> << >>, ambiguous |-> {}]
           S == {k \in Nat : \E g : IndexSteps(cols, k, g)}
<1> HIDE DEF nothing
<1>1. 0 \in S
  <2> DEFINE g == [i \in 0..0 |-> nothing]
  <2>1. \A i \in 0..0 : i = 0
    OBVIOUS
  <2>2. g = [i \in 0..0 |-> IF i = 0 THEN nothing ELSE Indexed(g[i - 1], cols[i])]
    BY <2>1
  <2> HIDE DEF g
  <2> QED BY <2>2 DEF IndexSteps, nothing
<1>2. ASSUME NEW k \in S, k < n PROVE k + 1 \in S
  <2>1. PICK g : IndexSteps(cols, k, g)
    BY <1>2
  <2>2. k \in Nat
    BY <1>2
  <2> DEFINE last == Indexed(g[k], cols[k + 1])
             h == [i \in 0..(k + 1) |-> IF i \in 0..k THEN g[i] ELSE last]
  <2>3. ASSUME NEW i \in 0..(k + 1)
        PROVE  h[i] = IF i = 0 THEN nothing ELSE Indexed(h[i - 1], cols[i])
    <3>1. CASE i \in 0..k
      <4>1. h[i] = g[i]
        BY <3>1
      <4>2. g[i] = IF i = 0 THEN nothing ELSE Indexed(g[i - 1], cols[i])
        BY <2>1, <3>1 DEF IndexSteps, nothing
      <4>3. i # 0 => i - 1 \in 0..k /\ h[i - 1] = g[i - 1]
        BY <2>2, <3>1
      <4> HIDE DEF h
      <4> QED BY <4>1, <4>2, <4>3
    <3>2. CASE i = k + 1
      <4>1. i \notin 0..k /\ h[i] = last
        BY <2>2, <3>2
      <4>2. i # 0 /\ i - 1 \in 0..k /\ h[i - 1] = g[k]
        BY <2>2, <3>2
      <4> HIDE DEF h
      <4> QED BY <3>2, <4>1, <4>2
    <3> QED BY <2>2, <3>1, <3>2
  <2>4. h = [i \in 0..(k + 1) |-> h[i]]
    OBVIOUS
  <2> HIDE DEF h
  <2>5. h = [i \in 0..(k + 1) |-> IF i = 0 THEN nothing ELSE Indexed(h[i - 1], cols[i])]
    BY <2>3, <2>4
  <2>6. IndexSteps(cols, k + 1, h)
    BY <2>5 DEF IndexSteps, nothing
  <2> QED BY <2>2, <2>6
<1> HIDE DEF S
<1>3. n \in S
  <2>1. S \in SUBSET Nat
    BY DEF S
  <2> QED BY <1>1, <1>2, <2>1, FromZeroOn
<1> QED BY <1>3 DEF S

LEMMA IndexIsRight ==
  ASSUME NEW result, NEW N \in Nat, Len(ColumnsOf(result)) = N
  PROVE  IndexSays(ColumnsOf(result), N, FramesByColumn(result))
<1> DEFINE cols == ColumnsOf(result)
           g == CHOOSE g : IndexSteps(cols, N, g)
<1>1. FramesByColumn(result) = g[N]
  BY DEF FramesByColumn, IndexSteps
<1> HIDE DEF cols
<1>2. IndexSteps(cols, N, g)
  BY IndexedOnce
<1> HIDE DEF g
<1> DEFINE S == {k \in Nat : k <= N => IndexSays(cols, k, g[k])}
<1>3. 0 \in S
  <2> DEFINE nothing == [frames |-> << >>, ambiguous |-> {}]
  <2>1. g[0] = nothing
    BY <1>2 DEF IndexSteps
  <2>2. /\ nothing.frames = << >> /\ nothing.ambiguous = {}
        /\ nothing = [frames |-> nothing.frames, ambiguous |-> nothing.ambiguous]
    OBVIOUS
  <2>3. DOMAIN << >> = {} /\ \A m : m \notin 1..0
    OBVIOUS
  <2> HIDE DEF nothing
  <2>4. IndexSays(cols, 0, nothing)
    BY <2>2, <2>3 DEF IndexSays
  <2> QED BY <2>1, <2>4
<1>4. ASSUME NEW k \in S, k < N PROVE k + 1 \in S
  <2>1. k \in Nat /\ k + 1 \in 0..N /\ k + 1 # 0 /\ (k + 1) - 1 = k
    BY <1>4
  <2>2. IndexSays(cols, k, g[k])
    BY <1>4, <2>1
  <2>3. g[k + 1] = Indexed(g[(k + 1) - 1], cols[k + 1])
    BY <1>2, <2>1 DEF IndexSteps
  <2>4. g[k + 1] = Indexed(g[k], cols[k + 1])
    BY <2>1, <2>3
  <2>5. IndexSays(cols, k + 1, g[k + 1])
    BY <2>1, <2>2, <2>4, IndexStep
  <2> QED BY <2>1, <2>5
<1> HIDE DEF S
<1>5. N \in S
  <2>1. S \in SUBSET Nat
    BY DEF S
  <2> QED BY <1>3, <1>4, <2>1, FromZeroOn
<1> QED BY <1>1, <1>5 DEF S, cols

\* The columns of a result and where each of them lies.
ColumnsAt(result, cols, at) ==
    /\ \A n \in 1..Len(cols) : /\ at[n][1] \in DOMAIN result
                               /\ at[n][2] \in DOMAIN result[at[n][1]]
                               /\ cols[n] = <<at[n][1], result[at[n][1]][at[n][2]]>>
                               /\ at[n] = <<at[n][1], at[n][2]>>
    /\ \A i \in DOMAIN result : \A j \in DOMAIN result[i] : \E n \in 1..Len(cols) : at[n] = <<i, j>>
    /\ \A m, n \in 1..Len(cols) : at[m] = at[n] => m = n

LEMMA ColumnsLie ==
  ASSUME NEW result \in Results
  PROVE  /\ Len(ColumnsOf(result)) \in Nat
         /\ \E at : ColumnsAt(result, ColumnsOf(result), at)
<1> DEFINE names == UNION {ToSet(frame) : frame \in ToSet(result)}
           seqs == [i \in DOMAIN result |-> [j \in DOMAIN result[i] |-> <<i, result[i][j]>>]]
           T == Nat \X names
<1> HIDE DEF names
<1>1. result \in Seq(Seq(names))
  BY ResultsAreFrames DEF names
<1>2. DOMAIN result = 1..Len(result) /\ Len(result) \in Nat
  BY <1>1
<1>3. ASSUME NEW i \in DOMAIN result
      PROVE  /\ seqs[i] \in Seq(T) /\ Len(seqs[i]) = Len(result[i])
             /\ DOMAIN result[i] = 1..Len(result[i])
             /\ \A j \in DOMAIN result[i] : seqs[i][j] = <<i, result[i][j]>>
  <2>1. result[i] \in Seq(names) /\ i \in Nat
    BY <1>1, <1>2
  <2> DEFINE line == [j \in DOMAIN result[i] |-> <<i, result[i][j]>>]
  <2>2. seqs[i] = line
    OBVIOUS
  <2>3. PICK frame \in Seq(names) : frame = result[i]
    BY <2>1
  <2>4. PICK L \in Nat : L = Len(frame) /\ DOMAIN frame = 1..L
    OBVIOUS
  <2>5. line = [j \in 1..L |-> <<i, frame[j]>>]
    BY <2>3, <2>4
  <2>6. \A j \in 1..L : frame[j] \in names
    BY <2>4
  <2>7. \A j \in 1..L : <<i, frame[j]>> \in T
    BY <2>1, <2>6
  <2> HIDE DEF line, T
  <2>8. line \in [1..L -> T]
    BY <2>5, <2>7
  <2>9. line \in Seq(T) /\ Len(line) = L
    BY <2>8
  <2> QED BY <2>2, <2>3, <2>4, <2>5, <2>9
<1>4. seqs \in Seq(Seq(T)) /\ Len(seqs) = Len(result)
  <2>1. PICK L \in Nat : L = Len(result) /\ DOMAIN result = 1..L
    BY <1>2
  <2>2. DOMAIN seqs = 1..L /\ seqs = [i \in 1..L |-> seqs[i]]
    BY <2>1
  <2>3. \A i \in 1..L : seqs[i] \in Seq(T)
    BY <1>3, <2>1
  <2> HIDE DEF seqs, T
  <2>4. seqs \in [1..L -> Seq(T)]
    BY <2>2, <2>3
  <2> QED BY <2>1, <2>4
<1> DEFINE cols == FlattenSeq(seqs)
<1>5. ColumnsOf(result) = cols
  BY DEF ColumnsOf
<1> HIDE DEF seqs, T, cols
<1>6. cols \in Seq(T) /\ \E at : Lies(seqs, Len(seqs), cols, at)
  BY <1>4, FlatteningKeeps DEF cols
<1>7. PICK at : Lies(seqs, Len(seqs), cols, at)
  BY <1>6
<1>8. PICK M \in Nat : M = Len(cols)
  BY <1>6
<1>9. ASSUME NEW n \in 1..M
      PROVE  /\ at[n][1] \in DOMAIN result
             /\ at[n][2] \in DOMAIN result[at[n][1]]
             /\ cols[n] = <<at[n][1], result[at[n][1]][at[n][2]]>>
             /\ at[n] = <<at[n][1], at[n][2]>>
  <2>1. /\ at[n] \in Nat \X Nat
        /\ at[n][1] \in 1..Len(seqs) /\ at[n][2] \in 1..Len(seqs[at[n][1]])
        /\ cols[n] = seqs[at[n][1]][at[n][2]]
    BY <1>7, <1>8 DEF Lies
  <2>2. at[n][1] \in DOMAIN result
    BY <1>2, <1>4, <2>1
  <2>3. PICK i \in DOMAIN result : i = at[n][1]
    BY <2>2
  <2>4. at[n][2] \in DOMAIN result[i]
    BY <1>3, <2>1, <2>3
  <2>5. cols[n] = <<i, result[i][at[n][2]]>>
    BY <1>3, <2>1, <2>3, <2>4
  <2>6. at[n] = <<at[n][1], at[n][2]>>
    BY <2>1
  <2> QED BY <2>2, <2>3, <2>4, <2>5, <2>6
<1>10. ASSUME NEW i \in DOMAIN result, NEW j \in DOMAIN result[i]
       PROVE  \E n \in 1..M : at[n] = <<i, j>>
  <2>1. i \in 1..Len(seqs) /\ j \in 1..Len(seqs[i])
    BY <1>2, <1>3, <1>4
  <2> QED BY <1>7, <1>8, <2>1 DEF Lies
<1>11. ASSUME NEW m \in 1..M, NEW n \in 1..M, at[m] = at[n] PROVE m = n
  <2>1. \A k, l \in 1..M : k < l => at[k][1] < at[l][1] \/ (at[k][1] = at[l][1] /\ at[k][2] < at[l][2])
    BY <1>7, <1>8 DEF Lies
  <2>2. \A k \in 1..M : at[k] \in Nat \X Nat
    BY <1>7, <1>8 DEF Lies
  <2>3. at[m][1] \in Nat /\ at[m][2] \in Nat
    BY <2>2
  <2>4. ~(m < n) /\ ~(n < m)
    BY <1>11, <2>1, <2>3
  <2> QED BY <2>4
<1>12. ColumnsAt(result, cols, at)
  BY <1>8, <1>9, <1>10, <1>11 DEF ColumnsAt
<1> QED BY <1>5, <1>8, <1>12

LEMMA OnlyOnesAreFound ==
  ASSUME NEW result \in Results,
         NEW i \in DOMAIN result, NEW j \in DOMAIN result[i]
  PROVE  LET columns == UNION {{<<k, l>> : l \in DOMAIN result[k]} : k \in DOMAIN result}
             name(c) == result[c[1]][c[2]]
             index == FramesByColumn(result)
             c == <<i, j>>
         IN IF \A d \in columns : name(d) = name(c) => d = c
            THEN name(c) \in DOMAIN index.frames /\ index.frames[name(c)] = c[1]
            ELSE name(c) \notin DOMAIN index.frames /\ name(c) \in index.ambiguous
<1> DEFINE columns == UNION {{<<k, l>> : l \in DOMAIN result[k]} : k \in DOMAIN result}
           name(c) == result[c[1]][c[2]]
           cols == ColumnsOf(result)
<1>1. PICK M \in Nat : M = Len(cols)
  BY ColumnsLie
<1>2a. PICK at : ColumnsAt(result, cols, at)
  BY ColumnsLie
<1> HIDE DEF cols
<1>2. /\ \A n \in 1..M : /\ at[n][1] \in DOMAIN result
                         /\ at[n][2] \in DOMAIN result[at[n][1]]
                         /\ cols[n] = <<at[n][1], result[at[n][1]][at[n][2]]>>
                         /\ at[n] = <<at[n][1], at[n][2]>>
      /\ \A k \in DOMAIN result : \A l \in DOMAIN result[k] : \E n \in 1..M : at[n] = <<k, l>>
      /\ \A m, n \in 1..M : at[m] = at[n] => m = n
  BY <1>1, <1>2a DEF ColumnsAt
<1>3. PICK index : index = FramesByColumn(result)
  OBVIOUS
<1>4. IndexSays(cols, M, index)
  BY <1>1, <1>3, IndexIsRight DEF cols
<1>5. PICK here : here \in 1..M /\ at[here] = <<i, j>>
  BY <1>2
<1>6. PICK word : word = result[i][j]
  OBVIOUS
<1>7. cols[here] = <<i, word>>
  <2>1. cols[here] = <<at[here][1], result[at[here][1]][at[here][2]]>>
    BY <1>2, <1>5
  <2>2. at[here][1] = i /\ at[here][2] = j
    BY <1>5
  <2> QED BY <1>6, <2>1, <2>2
<1>7a. cols[here][1] = i /\ cols[here][2] = word
  BY <1>7
<1>8. ASSUME \A d \in columns : name(d) = word => d = <<i, j>>
      PROVE  word \in DOMAIN index.frames /\ index.frames[word] = i
  <2>1. ASSUME NEW m \in 1..M, cols[m][2] = word PROVE m = here
    <3>1. PICK k \in DOMAIN result : \E l \in DOMAIN result[k] : at[m] = <<k, l>> /\ cols[m] = <<k, result[k][l]>>
      BY <1>2
    <3>1a. PICK l \in DOMAIN result[k] : at[m] = <<k, l>> /\ cols[m] = <<k, result[k][l]>>
      BY <3>1
    <3>2. result[k][l] = word
      BY <2>1, <3>1a
    <3>3. <<k, l>> \in columns /\ name(<<k, l>>) = word
      BY <3>2
    <3>4. <<k, l>> = <<i, j>>
      BY <1>8, <3>3
    <3>5. at[m] = at[here]
      BY <1>5, <3>1a, <3>4
    <3> QED BY <1>2, <1>5, <3>5
  <2>2. ~\E l, m \in 1..M : l # m /\ cols[l][2] = word /\ cols[m][2] = word
    BY <2>1
  <2>3. word \notin index.ambiguous
    BY <1>4, <2>2 DEF IndexSays
  <2>4. word \in DOMAIN index.frames
    BY <1>4, <1>5, <1>7a, <2>3 DEF IndexSays
  <2>5. index.frames[cols[here][2]] = cols[here][1]
    BY <1>4, <1>5, <1>7a, <2>4 DEF IndexSays
  <2> QED BY <1>7a, <2>4, <2>5
<1>9. ASSUME NEW d \in columns, name(d) = word, d # <<i, j>>
      PROVE  word \notin DOMAIN index.frames /\ word \in index.ambiguous
  <2>1. PICK k \in DOMAIN result : \E l \in DOMAIN result[k] : d = <<k, l>>
    OBVIOUS
  <2>1a. PICK l \in DOMAIN result[k] : d = <<k, l>>
    BY <2>1
  <2>2. result[k][l] = word
    BY <1>9, <2>1a
  <2>3. PICK m \in 1..M : at[m] = <<k, l>>
    BY <1>2
  <2>4. m # here
    BY <1>5, <1>9, <2>1a, <2>3
  <2>5. cols[m] = <<k, word>>
    <3>1. cols[m] = <<at[m][1], result[at[m][1]][at[m][2]]>>
      BY <1>2
    <3>2. at[m][1] = k /\ at[m][2] = l
      BY <2>3
    <3> QED BY <2>2, <3>1, <3>2
  <2>6. cols[m][2] = word
    BY <2>5
  <2>7. word \in index.ambiguous
    BY <1>4, <1>5, <1>7a, <2>4, <2>6 DEF IndexSays
  <2> QED BY <1>4, <2>7 DEF IndexSays
<1>10. name(<<i, j>>) = word /\ <<i, j>>[1] = i
  BY <1>6
<1> HIDE DEF columns
<1> QED BY <1>3, <1>8, <1>9, <1>10 DEF columns

-----------------------------------------------------------------------------
\* What is indexed is a result of a run.
IndexedIt ==
    frames # Absent =>
        /\ frames.result \in Results
        /\ frames.index = FramesByColumn(frames.result)

\* For every result, however many frames and columns it has (frames.py:frames_by_column): a
\* column that is the only one of its name leads to its frame; any other leads nowhere and is
\* listed as ambiguous.
THEOREM ColumnsFindTheirFrame == RecipesSpec => []FrameIsTheOnlyOne
<1>1. RecipesInit => IndexedIt
  BY DEF RecipesInit, IndexedIt
<1>2. IndexedIt /\ [RecipesNext]_recipeVars => IndexedIt'
  <2> SUFFICES ASSUME IndexedIt, [RecipesNext]_recipeVars PROVE IndexedIt'
    OBVIOUS
  <2>1. CASE frames' = Absent
    BY <2>1 DEF IndexedIt
  <2>2. CASE frames' = frames
    BY <2>2 DEF IndexedIt
  <2>3. CASE Index
    <3>1. PICK result \in Results : frames' = [result |-> result, index |-> FramesByColumn(result)]
      BY <2>3 DEF Index
    <3>2. frames'.result = result /\ frames'.index = FramesByColumn(result)
      BY <3>1
    <3>3. PICK new : new = frames'
      OBVIOUS
    <3>4. new.result \in Results /\ new.index = FramesByColumn(new.result)
      BY <3>2, <3>3
    <3> QED BY <3>3, <3>4 DEF IndexedIt
  <2>4. CASE \E w \in Writers : Build(w) \/ Open(w) \/ Write(w) \/ WriteShort(w) \/ Die(w)
    <3>1. frames' = Absent
      BY <2>4 DEF Build, Open, Write, WriteShort, Die, Forget
    <3> QED BY <2>1, <3>1
  <2>5. CASE Load
    <3>1. frames' = Absent
      BY <2>5 DEF Load
    <3> QED BY <2>1, <3>1
  <2>6. CASE UNCHANGED recipeVars
    BY <2>2, <2>6 DEF recipeVars
  <2> QED BY <2>3, <2>4, <2>5, <2>6 DEF RecipesNext
<1>3. IndexedIt => FrameIsTheOnlyOne
  <2> SUFFICES ASSUME IndexedIt, frames # Absent PROVE FrameIsTheOnlyOne
    BY DEF FrameIsTheOnlyOne
  <2>1. PICK result \in Results : result = frames.result
    BY DEF IndexedIt
  <2>2. frames.index = FramesByColumn(result)
    BY <2>1 DEF IndexedIt
  <2> DEFINE columns == UNION {{<<k, l>> : l \in DOMAIN result[k]} : k \in DOMAIN result}
             name(c) == result[c[1]][c[2]]
             index == FramesByColumn(result)
             Right(c) == IF \A d \in columns : name(d) = name(c) => d = c
                         THEN name(c) \in DOMAIN index.frames /\ index.frames[name(c)] = c[1]
                         ELSE name(c) \notin DOMAIN index.frames /\ name(c) \in index.ambiguous
  <2>3. ASSUME NEW c \in columns PROVE Right(c)
    <3>1. PICK i \in DOMAIN result : \E j \in DOMAIN result[i] : c = <<i, j>>
      OBVIOUS
    <3>1a. PICK j \in DOMAIN result[i] : c = <<i, j>>
      BY <3>1
    <3>2. Right(<<i, j>>)
      BY OnlyOnesAreFound
    <3> HIDE DEF columns, name, index, Right
    <3> QED BY <3>1a, <3>2
  <2>4. \A c \in columns : Right(c)
    BY <2>3
  <2> HIDE DEF index
  <2> QED BY <2>1, <2>2, <2>4 DEF FrameIsTheOnlyOne, index
<1> QED BY <1>1, <1>2, <1>3, PTL DEF RecipesSpec

-----------------------------------------------------------------------------
\* Selections

\* What callers ask for that is not refused.
Valid(option) == option \in Options /\ IsSelection(option) /\ ~InvalidSelection(option)

\* A call is given the reply to the very request it would have sent itself.
AnsweredAsAsked ==
    answer.ended = "read" => Valid(answer.option) /\ answer.given = Sent(Selection(answer.option))

\* Behind a key stands the request of a locator that has it.
UnderOwnKey ==
    \A k \in DOMAIN entries :
        \E option : /\ Valid(option)
                    /\ k = Key(Selection(option)) /\ entries[k] = Sent(Selection(option))

LEMMA ItsHost ==
  ASSUME NEW option, ~InvalidSelection(option) PROVE Selection(option).host \in Hosts
<1> DEFINE f == Fields(option)
<1>1. f.host \in Hosts
  BY DEF InvalidSelection, Refused
<1>2. f = [k \in DOMAIN f |-> f[k]] /\ "host" \in DOMAIN f
  BY DEF Fields, WithDefaults, Defaults
<1> HIDE DEF f
<1>3. DestatisLocator(f).host = f.host
  BY <1>2 DEF DestatisLocator
<1> QED BY <1>1, <1>3 DEF Selection, f

\* One key is one request.
LEMMA KeyTellsRequest ==
  ASSUME NEW a, NEW b, a.host \in Hosts, b.host \in Hosts, Key(a) = Key(b)
  PROVE  Sent(a) = Sent(b)
<1>1. BaseUrl[a.host] = BaseUrl[b.host] /\ CanonicalParameters(a) = CanonicalParameters(b)
  BY DEF Key
<1> QED BY <1>1, HostsAreApart DEF Sent

LEMMA AskKeeps ==
  ASSUME UnderOwnKey, AnsweredAsAsked, NEW option \in Options, NEW derived \in BOOLEAN, Ask(option, derived)
  PROVE  UnderOwnKey' /\ AnsweredAsAsked'
<1>1. CASE derived \/ ~IsSelection(option) \/ InvalidSelection(option)
  BY <1>1 DEF Ask, UnderOwnKey, AnsweredAsAsked, Outcome
<1>2. CASE ~(derived \/ ~IsSelection(option) \/ InvalidSelection(option))
  <2> DEFINE own == Selection(option)
             k == Key(own)
             found == IF k \in DOMAIN entries THEN entries[k] ELSE Sent(own)
  <2>1. Valid(option) /\ own.host \in Hosts
    BY <1>2, ItsHost DEF Valid
  <2>2. /\ answer' = Outcome(option, "read", found)
        /\ entries' = [j \in DOMAIN entries \cup {k} |-> IF j = k THEN found ELSE entries[j]]
    BY <1>2 DEF Ask
  <2> HIDE DEF own
  <2>3. found = Sent(own)
    <3>1. CASE k \in DOMAIN entries
      <4>1. PICK other : /\ Valid(other)
                         /\ k = Key(Selection(other)) /\ entries[k] = Sent(Selection(other))
        BY <3>1 DEF UnderOwnKey
      <4>2. Selection(other).host \in Hosts
        BY <4>1, ItsHost DEF Valid
      <4> QED BY <2>1, <3>1, <4>1, <4>2, KeyTellsRequest
    <3> QED BY <3>1
  <2> HIDE DEF k, found
  <2>4. AnsweredAsAsked'
    <3>1. answer'.option = option /\ answer'.given = found
      BY <2>2 DEF Outcome
    <3>2. found = Sent(Selection(option))
      BY <2>3 DEF own
    <3> QED BY <2>1, <3>1, <3>2 DEF AnsweredAsAsked
  <2>5. UnderOwnKey'
    <3> SUFFICES ASSUME NEW j \in DOMAIN entries'
                 PROVE  \E o : /\ Valid(o)
                               /\ j = Key(Selection(o)) /\ entries'[j] = Sent(Selection(o))
      BY DEF UnderOwnKey
    <3>1. CASE j = k
      BY <2>1, <2>2, <2>3, <3>1 DEF k, own
    <3>2. CASE j # k
      BY <2>2, <3>2 DEF UnderOwnKey
    <3> QED BY <3>1, <3>2
  <2> QED BY <2>4, <2>5
<1> QED BY <1>1, <1>2

\* For any hosts and options: however a caller spells its selection and whoever filled the
\* cache, the reply is that to the request the caller's own locator makes
\* (destatis/core/cache.py:key).
THEOREM OwnRequestAnswered == SelectionsSpec => [](AnsweredAsAsked /\ UnderOwnKey)
<1>1. SelectionsInit => AnsweredAsAsked /\ UnderOwnKey
  BY DEF SelectionsInit, AnsweredAsAsked, UnderOwnKey, Outcome
<1>2. AnsweredAsAsked /\ UnderOwnKey /\ [SelectionsNext]_selectionVars => (AnsweredAsAsked /\ UnderOwnKey)'
  <2> SUFFICES ASSUME AnsweredAsAsked, UnderOwnKey, [SelectionsNext]_selectionVars
               PROVE  AnsweredAsAsked' /\ UnderOwnKey'
    OBVIOUS
  <2>1. CASE SelectionsNext
    BY <2>1, AskKeeps DEF SelectionsNext
  <2>2. CASE UNCHANGED selectionVars
    BY <2>2 DEF selectionVars, AnsweredAsAsked, UnderOwnKey
  <2> QED BY <2>1, <2>2
<1> QED BY <1>1, <1>2, PTL DEF SelectionsSpec

LEMMA StripOfBlank == ASSUME NEW x PROVE (Strip(x) = Blank <=> x = Blank) /\ Strip(Strip(x)) = Strip(x)
<1>1. Blank \notin Tables \cup Codes
  BY NamesAreApart
<1>2. \A t \in Tables \cup Codes : InBlanks(t).inBlanks = t
  BY DEF InBlanks
<1>3. CASE x \in {InBlanks(t) : t \in Tables \cup Codes}
  <2>1. PICK t \in Tables \cup Codes : x = InBlanks(t)
    BY <1>3
  <2>2. Strip(x) = t
    BY <1>2, <1>3, <2>1 DEF Strip
  <2>3. \A u \in Tables \cup Codes : t # InBlanks(u) /\ Blank # InBlanks(u)
    BY BlanksAreApart
  <2> QED BY <1>1, <2>1, <2>2, <2>3 DEF Strip
<1>4. CASE x \notin {InBlanks(t) : t \in Tables \cup Codes}
  BY <1>4 DEF Strip
<1> QED BY <1>3, <1>4

LEMMA StripOfText == ASSUME NEW x \in Texts PROVE Strip(x) \in Texts
<1>1. \A t \in Tables \cup Codes : InBlanks(t).inBlanks = t
  BY DEF InBlanks
<1> QED BY <1>1 DEF Texts, Strip

LEMMA StripEndsKeeps ==
  ASSUME NEW element \in Seq(Texts)
  PROVE  /\ StripEnds(element) \in Seq(Texts)
         /\ StripEnds(element) = <<Blank>> <=> element = <<Blank>>
         /\ {Strip(c) : c \in ToSet(StripEnds(element))} = {Strip(c) : c \in ToSet(element)}
<1> DEFINE End(i) == IF i \in {1, Len(element)} THEN Strip(element[i]) ELSE element[i]
           stripped == [i \in DOMAIN element |-> End(i)]
<1>1. StripEnds(element) = stripped
  BY DEF StripEnds
<1>2. DOMAIN element = 1..Len(element) /\ Len(element) \in Nat
  OBVIOUS
<1>3. ASSUME NEW i \in DOMAIN element PROVE End(i) \in Texts /\ Strip(End(i)) = Strip(element[i])
  <2>1. element[i] \in Texts
    OBVIOUS
  <2> QED BY <2>1, StripOfText, StripOfBlank
<1>4. /\ stripped \in Seq(Texts) /\ DOMAIN stripped = DOMAIN element
      /\ Len(stripped) = Len(element) /\ \A i \in DOMAIN element : stripped[i] = End(i)
  <2> HIDE DEF End
  <2> QED BY <1>2, <1>3
<1>5. stripped = <<Blank>> <=> element = <<Blank>>
  <2>1. ASSUME Len(element) = 1 PROVE stripped[1] = Strip(element[1])
    BY <1>4, <2>1
  <2> HIDE DEF stripped
  <2>2. ASSUME NEW s \in Seq(Texts) PROVE s = <<Blank>> <=> Len(s) = 1 /\ s[1] = Blank
    OBVIOUS
  <2> QED BY <1>4, <2>1, <2>2, StripOfBlank
<1>6. {Strip(c) : c \in ToSet(stripped)} = {Strip(c) : c \in ToSet(element)}
  <2>1. \A x : x \in {Strip(c) : c \in ToSet(stripped)} <=> \E i \in DOMAIN stripped : x = Strip(stripped[i])
    BY DEF ToSet
  <2>2. \A x : x \in {Strip(c) : c \in ToSet(element)} <=> \E i \in DOMAIN element : x = Strip(element[i])
    BY DEF ToSet
  <2>3. \A i \in DOMAIN element : Strip(stripped[i]) = Strip(element[i])
    BY <1>3, <1>4
  <2>4. DOMAIN stripped = DOMAIN element
    BY <1>4
  <2> HIDE DEF stripped
  <2>5. \A x : x \in {Strip(c) : c \in ToSet(stripped)} <=> x \in {Strip(c) : c \in ToSet(element)}
    BY <2>1, <2>2, <2>3, <2>4, Zenon
  <2> QED BY <2>5
<1> QED BY <1>1, <1>4, <1>5, <1>6

LEMMA InNamed ==
  ASSUME NEW list, NEW x
  PROVE  x \in Named(list) <=> x # Blank /\ \E i \in DOMAIN list : x \in {Strip(c) : c \in ToSet(list[i])}
BY DEF Named

\* A list field without its blank elements names what it named.
LEMMA AsTupleNames ==
  ASSUME NEW list \in Seq(Seq(Texts))
  PROVE  \/ NothingIn(list) /\ AsTuple(list) = Absent
         \/ /\ ~NothingIn(list)
            /\ AsTuple(list) \in Seq(Seq(Texts)) /\ AsTuple(list) # Absent
            /\ Named(AsTuple(list)) = Named(list)
<1> DEFINE stripped == [i \in DOMAIN list |-> StripEnds(list[i])]
           named == Without(stripped, <<Blank>>)
<1>1. list # Absent
  BY NoneIsNothing
<1>2. ASSUME NEW i \in DOMAIN list
      PROVE  /\ list[i] \in Seq(Texts) /\ StripEnds(list[i]) \in Seq(Texts)
             /\ StripEnds(list[i]) = <<Blank>> <=> list[i] = <<Blank>>
             /\ {Strip(c) : c \in ToSet(StripEnds(list[i]))} = {Strip(c) : c \in ToSet(list[i])}
  <2>1. list[i] \in Seq(Texts)
    OBVIOUS
  <2> QED BY <2>1, StripEndsKeeps
<1>3. stripped \in Seq(Seq(Texts)) /\ DOMAIN stripped = DOMAIN list
  <2>1. \A i \in DOMAIN list : StripEnds(list[i]) \in Seq(Texts)
    BY <1>2
  <2>2. Len(list) \in Nat /\ DOMAIN list = 1..Len(list)
    OBVIOUS
  <2>3. stripped \in [1..Len(list) -> Seq(Texts)]
    BY <2>1, <2>2
  <2> HIDE DEF stripped
  <2>4. stripped \in Seq(Seq(Texts))
    BY <2>2, <2>3, IsASequence
  <2> QED BY <2>2, <2>3, <2>4
<1>3a. \A i \in DOMAIN list : stripped[i] = StripEnds(list[i])
  OBVIOUS
<1> HIDE DEF stripped
<1>4. named \in Seq(Seq(Texts)) /\ ToSet(named) = ToSet(stripped) \ {<<Blank>>}
  BY <1>3, WithoutDrops
<1>5. AsTuple(list) = IF named = << >> THEN Absent ELSE named
  BY <1>1 DEF AsTuple, stripped
<1> HIDE DEF named
<1>6. named = << >> <=> NothingIn(list)
  <2>1. named = << >> <=> ToSet(named) = {}
    BY <1>4, NothingInEmpty
  <2>2. ToSet(named) = {} <=> \A i \in DOMAIN list : stripped[i] = <<Blank>>
    BY <1>3, <1>4 DEF ToSet
  <2> QED BY <1>1, <1>2, <1>3a, <2>1, <2>2 DEF NothingIn
<1>7. ASSUME NEW x PROVE x \in Named(named) <=> x \in Named(list)
  <2> DEFINE Says(e) == {Strip(c) : c \in ToSet(e)}
  <2>1. ASSUME NEW l PROVE x \in Named(l) <=> x # Blank /\ \E e \in ToSet(l) : x \in Says(e)
    BY DEF Named, ToSet
  <2>2. ~ (x # Blank /\ x \in Says(<<Blank>>))
    <3>1. ToSet(<<Blank>>) = {Blank}
      BY DEF ToSet
    <3> QED BY <3>1, StripOfBlank
  <2>3. \A i \in DOMAIN list : Says(stripped[i]) = Says(list[i])
    BY <1>2, <1>3a
  <2> HIDE DEF Says
  <2>4. x \in Named(named) <=> x # Blank /\ \E e \in ToSet(stripped) : x \in Says(e)
    BY <1>4, <2>1, <2>2
  <2>5. (\E e \in ToSet(stripped) : x \in Says(e)) <=> \E i \in DOMAIN list : x \in Says(stripped[i])
    BY <1>3 DEF ToSet
  <2>6. (\E e \in ToSet(list) : x \in Says(e)) <=> \E i \in DOMAIN list : x \in Says(list[i])
    BY DEF ToSet
  <2> QED BY <2>1, <2>3, <2>4, <2>5, <2>6
<1>8. Named(named) = Named(list)
  BY <1>7
<1>9. named # Absent
  BY <1>4, NoneIsNothing
<1> QED BY <1>4, <1>5, <1>6, <1>8, <1>9

\* What is sent of a list field is what it names, ...
LEMMA SortedNames ==
  ASSUME NEW list \in Seq(Seq(Texts))
  PROVE  /\ Named(list) \in SUBSET Texts /\ Sorted(list) \in [Named(list) -> Nat]
         /\ FlattenSeq(list) \in Seq(Texts)
         /\ {Strip(c) : c \in ToSet(FlattenSeq(list))} \ {Blank} = Named(list)
<1> DEFINE parts == FlattenSeq(list)
           codes == [i \in DOMAIN parts |-> Strip(parts[i])]
           kept == Without(codes, Blank)
<1>1. parts \in Seq(Texts) /\ \A x : x \in ToSet(parts) <=> \E i \in DOMAIN list : x \in ToSet(list[i])
  BY FlatteningCollects
<1>2. Sorted(list) = ToBag(kept)
  BY DEF Sorted
<1> HIDE DEF parts
<1>3. {Strip(c) : c \in ToSet(parts)} \ {Blank} = Named(list)
  <2>1. ToSet(parts) = UNION {ToSet(list[i]) : i \in DOMAIN list}
    BY <1>1
  <2> QED BY <2>1 DEF Named
<1>4. codes \in Seq(Texts) /\ ToSet(codes) = {Strip(c) : c \in ToSet(parts)}
  <2>1. \A i \in DOMAIN parts : Strip(parts[i]) \in Texts
    BY <1>1, StripOfText
  <2>2. codes \in Seq(Texts)
    BY <1>1, <2>1
  <2> QED BY <2>2 DEF ToSet
<1> HIDE DEF codes
<1>5. kept \in Seq(Texts) /\ ToSet(kept) = Named(list)
  <2>1. kept \in Seq(Texts) /\ ToSet(kept) = ToSet(codes) \ {Blank}
    BY <1>4, WithoutDrops
  <2> QED BY <1>3, <1>4, <2>1, Zenon
<1> HIDE DEF kept
<1>6. Named(list) \in SUBSET Texts
  BY <1>5 DEF ToSet
<1>7. ToBag(kept) \in [Named(list) -> Nat]
  <2>1. Range(kept) = ToSet(kept)
    BY DEF Range, ToSet
  <2>2. ASSUME NEW x PROVE Cardinality({i \in DOMAIN kept : kept[i] = x}) \in Nat
    <3>1. {i \in DOMAIN kept : kept[i] = x} \subseteq 1..Len(kept) /\ Len(kept) \in Nat
      BY <1>5
    <3>2. IsFiniteSet(1..Len(kept))
      BY <3>1, FS_Interval
    <3> QED BY <3>1, <3>2, FS_Subset, FS_CardinalityType
  <2> QED BY <1>5, <2>1, <2>2 DEF ToBag
<1> QED BY <1>1, <1>2, <1>3, <1>6, <1>7 DEF parts

\* What DestatisLocator makes of each field.
LEMMA FieldByField ==
  ASSUME NEW option
  PROVE  LET f == Fields(option)
             loc == Selection(option)
         IN /\ loc.name = Strip(f.name) /\ loc.variable = CleanScalar(f.variable)
            /\ loc.keys = AsTuple(f.keys) /\ loc.contents = AsTuple(f.contents)
            /\ loc.startyear = f.startyear /\ loc.endyear = f.endyear /\ loc.quality = f.quality
            /\ loc.host = f.host /\ loc.language = f.language
<1> DEFINE f == Fields(option)
<1>1. f = [k \in DOMAIN f |-> f[k]] /\ DOMAIN f = DOMAIN Defaults
  BY DEF Fields, WithDefaults, Defaults
<1>2. DOMAIN Defaults = {"name", "variable", "keys", "contents", "startyear", "endyear", "quality", "host", "language"}
  BY DEF Defaults
<1> HIDE DEF f
<1> QED BY <1>1, <1>2 DEF Selection, DestatisLocator, f

\* Of the fields of a selection that is not refused.
LEMMA ValidFields ==
  ASSUME NEW option, Valid(option)
  PROVE  LET f == Fields(option)
         IN /\ f.keys \in Seq(Seq(Texts)) \cup {Absent} /\ f.contents \in Seq(Seq(Texts)) \cup {Absent}
            /\ f.quality \in BOOLEAN /\ f.language = "de" /\ f.host \in Hosts
<1> DEFINE f == Fields(option)
<1>1. DOMAIN f = DOMAIN Defaults
  BY DEF Fields, WithDefaults, Defaults
<1>2. {"keys", "contents", "quality"} \subseteq DOMAIN Defaults
  BY DEF Defaults
<1>3. ~Refused(f)
  BY DEF Valid, InvalidSelection
<1>4. /\ {f.keys, f.contents} \subseteq Seq(Seq(Texts)) \cup {Absent, Ill}
      /\ f.quality \in BOOLEAN \cup {Ill}
  BY FieldsAreFields DEF Valid
<1> HIDE DEF f
<1>5. f.keys # Ill /\ f.contents # Ill /\ f.quality # Ill /\ f.language = "de" /\ f.host \in Hosts
  BY <1>1, <1>2, <1>3 DEF Refused
<1> QED BY <1>4, <1>5 DEF f

\* A list field as it is sent, and as a server reads it.
LEMMA ListAsMeant ==
  ASSUME NEW list \in Seq(Seq(Texts)) \cup {Absent}
  PROVE  LET sent == AsTuple(list)
             meant == IF NothingIn(list) THEN Absent ELSE Named(list)
         IN /\ sent = Absent <=> meant = Absent
            /\ sent # Absent => /\ meant \in SUBSET Texts /\ Sorted(sent) \in [meant -> Nat]
                               /\ Sorted(sent) # Absent /\ FlattenSeq(sent) # Absent
                               /\ {Strip(c) : c \in ToSet(FlattenSeq(sent))} \ {Blank} = meant
<1>1. CASE list = Absent
  BY <1>1 DEF AsTuple, NothingIn
<1>2. CASE list \in Seq(Seq(Texts))
  <2>1. CASE NothingIn(list) /\ AsTuple(list) = Absent
    BY <2>1
  <2>2. CASE /\ ~NothingIn(list)
             /\ AsTuple(list) \in Seq(Seq(Texts)) /\ AsTuple(list) # Absent
             /\ Named(AsTuple(list)) = Named(list)
    <3>1. PICK sent : sent = AsTuple(list)
      OBVIOUS
    <3>2. /\ Named(sent) \in SUBSET Texts /\ Sorted(sent) \in [Named(sent) -> Nat]
          /\ FlattenSeq(sent) \in Seq(Texts)
          /\ {Strip(c) : c \in ToSet(FlattenSeq(sent))} \ {Blank} = Named(sent)
      BY <2>2, <3>1, SortedNames
    <3>3. Named(sent) # Absent /\ Sorted(sent) # Absent /\ FlattenSeq(sent) # Absent
      BY <3>2, NoneIsNothing
    <3>4. Named(sent) = Named(list)
      BY <2>2, <3>1
    <3> QED BY <2>2, <3>1, <3>2, <3>3, <3>4
  <2> QED BY <1>2, <2>1, <2>2, AsTupleNames
<1> QED BY <1>1, <1>2

\* A request says what its caller meant.
LEMMA SentAsMeant ==
  ASSUME NEW option, Valid(option) PROVE Selected(Sent(Selection(option))) = Meant(option)
<1> DEFINE f == Fields(option)
           loc == Selection(option)
           request == Sent(loc)
           p == CanonicalParameters(loc)
<1>1. request.host = loc.host /\ request.parameters = p
  BY DEF Sent
<1>2. /\ p.name = loc.name /\ p.variable = loc.variable
      /\ p.keys = IF loc.keys = Absent THEN Absent ELSE Sorted(loc.keys)
      /\ p.contents = IF loc.contents = Absent THEN Absent ELSE FlattenSeq(loc.contents)
      /\ p.startyear = loc.startyear /\ p.endyear = loc.endyear
      /\ p.quality = IF loc.quality THEN "on" ELSE "off"
  BY DEF CanonicalParameters
<1>3. /\ loc.name = Strip(f.name) /\ loc.variable = CleanScalar(f.variable)
      /\ loc.keys = AsTuple(f.keys) /\ loc.contents = AsTuple(f.contents)
      /\ loc.startyear = f.startyear /\ loc.endyear = f.endyear /\ loc.quality = f.quality
      /\ loc.host = f.host
  BY FieldByField
<1>4. /\ f.keys \in Seq(Seq(Texts)) \cup {Absent} /\ f.contents \in Seq(Seq(Texts)) \cup {Absent}
      /\ f.quality \in BOOLEAN
  BY ValidFields
<1> HIDE DEF f, loc, p, request
<1>5. (IF p.keys = Absent THEN Absent ELSE DOMAIN p.keys) = IF NothingIn(f.keys) THEN Absent ELSE Named(f.keys)
  BY <1>2, <1>3, <1>4, ListAsMeant
<1>6. (IF p.contents = Absent THEN Absent ELSE {Strip(c) : c \in ToSet(p.contents)} \ {Blank})
         = IF NothingIn(f.contents) THEN Absent ELSE Named(f.contents)
  BY <1>2, <1>3, <1>4, ListAsMeant
<1>7. p.variable = IF f.variable = Blank THEN Absent ELSE Strip(f.variable)
  BY <1>2, <1>3, StripOfBlank DEF CleanScalar
<1>8. (p.quality = "on") = f.quality
  BY <1>2, <1>3, <1>4
<1>9. Selected(request) =
         [host |-> request.host, table |-> p.name, variable |-> p.variable,
          keys |-> IF p.keys = Absent THEN Absent ELSE DOMAIN p.keys,
          measures |-> IF p.contents = Absent THEN Absent ELSE {Strip(c) : c \in ToSet(p.contents)} \ {Blank},
          from |-> p.startyear, to |-> p.endyear, quality |-> p.quality = "on"]
  BY <1>1 DEF Selected
<1>10. Meant(option) =
         [host |-> f.host, table |-> Strip(f.name),
          variable |-> IF f.variable = Blank THEN Absent ELSE Strip(f.variable),
          keys |-> IF NothingIn(f.keys) THEN Absent ELSE Named(f.keys),
          measures |-> IF NothingIn(f.contents) THEN Absent ELSE Named(f.contents),
          from |-> f.startyear, to |-> f.endyear, quality |-> f.quality]
  BY Zenon DEF Meant, f
<1>11. /\ request.host = f.host /\ p.name = Strip(f.name)
       /\ p.startyear = f.startyear /\ p.endyear = f.endyear
  BY <1>1, <1>2, <1>3
<1>12. PICK keys, measures, variable :
         /\ keys = IF NothingIn(f.keys) THEN Absent ELSE Named(f.keys)
         /\ measures = IF NothingIn(f.contents) THEN Absent ELSE Named(f.contents)
         /\ variable = IF f.variable = Blank THEN Absent ELSE Strip(f.variable)
  OBVIOUS
<1>13. Selected(request) =
         [host |-> f.host, table |-> Strip(f.name), variable |-> variable, keys |-> keys,
          measures |-> measures, from |-> f.startyear, to |-> f.endyear, quality |-> f.quality]
  <2>1. variable = p.variable
    BY <1>7, <1>12, Zenon
  <2>2. keys = IF p.keys = Absent THEN Absent ELSE DOMAIN p.keys
    BY <1>5, <1>12, Zenon
  <2>3. measures = IF p.contents = Absent THEN Absent ELSE {Strip(c) : c \in ToSet(p.contents)} \ {Blank}
    BY <1>6, <1>12, Zenon
  <2> QED BY <1>8, <1>9, <1>11, <2>1, <2>2, <2>3, Zenon
<1>14. Meant(option) =
         [host |-> f.host, table |-> Strip(f.name), variable |-> variable, keys |-> keys,
          measures |-> measures, from |-> f.startyear, to |-> f.endyear, quality |-> f.quality]
  BY <1>10, <1>12, Zenon
<1>15. Selected(request) = Meant(option)
  BY <1>13, <1>14, Zenon
<1> QED BY <1>15 DEF request, loc

\* Two selections that ask for the same, measures in the same order and keys as often, have
\* one key.
LEMMA SameHaveOneKey ==
  ASSUME NEW a, NEW b, Valid(a), Valid(b),
         Selected(Sent(Selection(a))) = Selected(Sent(Selection(b))),
         CanonicalParameters(Selection(a)).contents = CanonicalParameters(Selection(b)).contents,
         LET p == CanonicalParameters(Selection(a))
             q == CanonicalParameters(Selection(b))
         IN p.keys = Absent \/ (\A c \in DOMAIN p.keys : p.keys[c] = q.keys[c])
  PROVE  Key(Selection(a)) = Key(Selection(b))
<1> DEFINE Request(o) == Sent(Selection(o))
           P(o) == CanonicalParameters(Selection(o))
           KeysRead(o) == IF P(o).keys = Absent THEN Absent ELSE DOMAIN P(o).keys
<1>1. ASSUME NEW o, Valid(o)
      PROVE  /\ P(o).quality \in {"on", "off"} /\ P(o).language = "de"
             /\ P(o).keys # Absent =>
                   /\ DOMAIN P(o).keys # Absent
                   /\ P(o).keys = [c \in DOMAIN P(o).keys |-> P(o).keys[c]]
  <2>1. PICK loc : loc = Selection(o)
    OBVIOUS
  <2>2. P(o).quality \in {"on", "off"} /\ P(o).language = loc.language
    BY <2>1 DEF CanonicalParameters
  <2>3. loc.language = "de" /\ loc.keys = AsTuple(Fields(o).keys)
    BY <1>1, <2>1, FieldByField, ValidFields
  <2>4. P(o).keys = IF loc.keys = Absent THEN Absent ELSE Sorted(loc.keys)
    BY <2>1 DEF CanonicalParameters
  <2>5. Fields(o).keys \in Seq(Seq(Texts)) \cup {Absent}
    BY <1>1, ValidFields
  <2>6. PICK list : list = Fields(o).keys
    OBVIOUS
  <2>7. loc.keys # Absent => \E names \in SUBSET Texts : Sorted(loc.keys) \in [names -> Nat]
    BY <2>3, <2>5, <2>6, ListAsMeant
  <2>8. \A names \in SUBSET Texts : names # Absent
    BY NoneIsNothing
  <2> QED BY <2>2, <2>3, <2>4, <2>7, <2>8
<1>2. ASSUME NEW o
      PROVE  /\ Selected(Request(o)).host = Selection(o).host /\ Selected(Request(o)).table = P(o).name
             /\ Selected(Request(o)).variable = P(o).variable /\ Selected(Request(o)).keys = KeysRead(o)
             /\ Selected(Request(o)).from = P(o).startyear /\ Selected(Request(o)).to = P(o).endyear
             /\ Selected(Request(o)).quality = (P(o).quality = "on")
  BY DEF Selected, Sent
<1>3. ASSUME NEW o
      PROVE  P(o) = [name |-> P(o).name, variable |-> P(o).variable, keys |-> P(o).keys,
                     contents |-> P(o).contents, startyear |-> P(o).startyear, endyear |-> P(o).endyear,
                     quality |-> P(o).quality, language |-> P(o).language]
  BY DEF CanonicalParameters
<1>4. ASSUME NEW o PROVE Key(Selection(o)) = [base_url |-> BaseUrl[Selection(o).host], parameters |-> P(o)]
  BY DEF Key
<1>5. Selected(Request(a)) = Selected(Request(b)) /\ P(a).contents = P(b).contents
  OBVIOUS
<1>6. P(a).keys = Absent \/ (\A c \in DOMAIN P(a).keys : P(a).keys[c] = P(b).keys[c])
  OBVIOUS
<1> HIDE DEF Request, P
<1>7. /\ Selection(a).host = Selection(b).host /\ P(a).name = P(b).name /\ P(a).variable = P(b).variable
      /\ KeysRead(a) = KeysRead(b) /\ P(a).startyear = P(b).startyear /\ P(a).endyear = P(b).endyear
      /\ (P(a).quality = "on") = (P(b).quality = "on")
  BY <1>2, <1>5
<1>8. P(a).quality = P(b).quality /\ P(a).language = P(b).language
  BY <1>1, <1>7
<1>9. P(a).keys = P(b).keys
  <2>1. CASE P(a).keys = Absent
    BY <1>1, <1>7, <2>1
  <2>2. CASE P(a).keys # Absent
    <3>1. P(b).keys # Absent /\ DOMAIN P(a).keys = DOMAIN P(b).keys
      BY <1>1, <1>7, <2>2
    <3>2. /\ P(a).keys = [c \in DOMAIN P(a).keys |-> P(a).keys[c]]
          /\ P(b).keys = [c \in DOMAIN P(b).keys |-> P(b).keys[c]]
      BY <1>1, <2>2, <3>1
    <3> QED BY <1>6, <2>2, <3>1, <3>2
  <2> QED BY <2>1, <2>2
<1>10. P(a) = P(b)
  BY <1>3, <1>5, <1>7, <1>8, <1>9, Zenon
<1> QED BY <1>4, <1>7, <1>10, Zenon

\* For any hosts, tables, codes and lists of any length: a caller is given the reply to what
\* it meant, however it spelled it, and two requests for the same thing share an entry
\* (destatis/core/cache.py:canonical_parameters, key).
THEOREM SelectionsAreToldApart == SelectionsSpec => []KeysTellSelectionsApart
<1>1. AnsweredAsAsked /\ UnderOwnKey => KeysTellSelectionsApart
  <2> SUFFICES ASSUME AnsweredAsAsked, UnderOwnKey PROVE KeysTellSelectionsApart
    OBVIOUS
  <2>1. answer.ended = "read" => Selected(answer.given) = Meant(answer.option)
    BY SentAsMeant DEF AnsweredAsAsked
  <2>2. ASSUME NEW j \in DOMAIN entries, NEW k \in DOMAIN entries,
               Selected(entries[j]) = Selected(entries[k]),
               entries[j].parameters.contents = entries[k].parameters.contents,
               \/ entries[j].parameters.keys = Absent
               \/ \A c \in DOMAIN entries[j].parameters.keys :
                     entries[j].parameters.keys[c] = entries[k].parameters.keys[c]
        PROVE  j = k
    <3>1. PICK a : Valid(a) /\ j = Key(Selection(a)) /\ entries[j] = Sent(Selection(a))
      BY DEF UnderOwnKey
    <3>2. PICK b : Valid(b) /\ k = Key(Selection(b)) /\ entries[k] = Sent(Selection(b))
      BY DEF UnderOwnKey
    <3>3. /\ entries[j].parameters = CanonicalParameters(Selection(a))
          /\ entries[k].parameters = CanonicalParameters(Selection(b))
      BY <3>1, <3>2 DEF Sent
    <3> QED BY <2>2, <3>1, <3>2, <3>3, SameHaveOneKey
  <2> QED BY <2>1, <2>2 DEF KeysTellSelectionsApart
<1> QED BY <1>1, OwnRequestAnswered, PTL
=============================================================================
