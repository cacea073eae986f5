------------------------------ MODULE Locators ------------------------------
(***************************************************************************)
(* What a reader makes of the value under its name in a feature's options: *)
(* destatis/locator.py, destatis/core/hosts.py, govdata/core/locator.py.   *)
(*                                                                         *)
(* A text is an opaque code, a code in blanks, or Blank; an element of a   *)
(* list field is the sequence of texts between its commas.  One list field *)
(* stands for regionalkey and classifyingkey1..5, one code field for       *)
(* regionalvariable and classifyingvariable1..5.  Values of a type a field *)
(* does not take are all Ill.                                              *)
(***************************************************************************)
EXTENDS Integers, SequencesExt

CONSTANTS
    Tables, Codes,
    Hosts,              \* KNOWN_HOSTS
    FirstYear, LastYear,
    DatasetIds, Urls,     \* CKAN dataset ids, and strings that start with http
    Ill, Blank, Absent

ASSUME NamesAreApart ==
    /\ {Ill, Blank, Absent} \cap (Tables \cup Codes \cup DatasetIds \cup Urls) = {}
    /\ Ill \notin {Blank, Absent} /\ Blank # Absent
    /\ DatasetIds \cap Urls = {}

InBlanks(text) == [inBlanks |-> text]
Texts == Tables \cup Codes \cup {InBlanks(t) : t \in Tables \cup Codes} \cup {Blank}

ASSUME BlanksAreApart ==
    \A t \in Tables \cup Codes : InBlanks(t) \notin Tables \cup Codes \cup {Blank, Absent}

\* None is nothing that can be given.
ASSUME NoneIsNothing ==
    /\ Absent \notin Seq(Seq(Texts)) /\ Absent \notin Seq(Texts)
    /\ \A given \in SUBSET Texts : Absent # given /\ Absent \notin [given -> Nat]

\* A value under an option key.  form: "locator" (a DestatisLocator), "dataset" (a
\* GovDataLocator), "dict", "string", or what no reader takes.
Value(form, is) == [form |-> form, is |-> is]

-----------------------------------------------------------------------------
\* destatis/locator.py

Strip(text) == IF text \in {InBlanks(t) : t \in Tables \cup Codes} THEN text.inBlanks ELSE text

\* str.strip of "a, b" reaches its outer ends only.
StripEnds(element) ==
    [i \in DOMAIN element |-> IF i \in {1, Len(element)} THEN Strip(element[i]) ELSE element[i]]

Without(list, e) == FlattenSeq([i \in DOMAIN list |-> IF list[i] = e THEN << >> ELSE <<list[i]>>])

AsTuple(value) ==
    IF value = Absent THEN Absent
    ELSE LET named == Without([i \in DOMAIN value |-> StripEnds(value[i])], <<Blank>>)
         IN IF named = << >> THEN Absent ELSE named

CleanScalar(value) == IF Strip(value) = Blank THEN Absent ELSE Strip(value)

BadYear(year) == year # Absent /\ year \notin FirstYear..LastYear

Defaults ==
    [name |-> Absent, variable |-> Absent, keys |-> Absent, contents |-> Absent, startyear |-> Absent,
     endyear |-> Absent, quality |-> FALSE, host |-> "genesis", language |-> "de"]

\* __post_init__, where a TypeError and a ValueError both end the call.
Refused(f) ==
    \/ Strip(f.name) \notin Tables
    \/ \E k \in DOMAIN f : f[k] = Ill
    \/ BadYear(f.startyear) \/ BadYear(f.endyear)
    \/ (Absent \notin {f.startyear, f.endyear} /\ f.startyear > f.endyear)
    \/ f.host \notin Hosts
    \/ f.language # "de"

DestatisLocator(f) ==
    [f EXCEPT !.name = Strip(@), !.variable = CleanScalar(@), !.keys = AsTuple(@), !.contents = AsTuple(@)]

\* Of a locator that was built: None stands only where a field may be left out.
IsDestatisLocator(f) == DOMAIN f = DOMAIN Defaults /\ \A k \in DOMAIN f : f[k] = Absent => Defaults[k] = Absent

\* A dict holds the fields its writer gave.
WithDefaults(dict) == [k \in DOMAIN Defaults |-> IF k \in DOMAIN dict THEN dict[k] ELSE Defaults[k]]
Given(f) == [k \in {k \in DOMAIN f : f[k] # Absent} |-> f[k]]

Fields(v) == IF v.form = "string" THEN [Defaults EXCEPT !.name = v.is] ELSE WithDefaults(v.is)

IsSelection(v) == v.form \in {"locator", "dict"} \/ (v.form = "string" /\ v.is # Blank)
InvalidSelection(v) ==
    \/ /\ v.form = "dict"
       /\ ~(DOMAIN v.is \subseteq DOMAIN Defaults) \/ "name" \notin DOMAIN v.is
    \/ Refused(Fields(v))
Selection(v) == DestatisLocator(Fields(v))

-----------------------------------------------------------------------------
\* govdata/core/locator.py

\* default_base: ckan_base is DEFAULT_CKAN_BASE.
GovDataLocator(id, url) ==
    [dataset_id |-> id, distribution_url |-> url, default_base |-> TRUE, resource_index |-> 0]

IsGovDataLocator(loc) ==
    /\ loc \in [dataset_id : DatasetIds \cup {Absent}, distribution_url : Urls \cup {Absent},
               default_base : BOOLEAN, resource_index : Int]
    /\ loc.dataset_id # Absent \/ loc.distribution_url # Absent

IsDistribution(v) == v.form = "dataset" \/ (v.form = "string" /\ v.is # Blank)
Distribution(v) ==
    IF v.form = "dataset" THEN v.is
    ELSE IF v.is \in Urls THEN GovDataLocator(Absent, v.is)
    ELSE GovDataLocator(v.is, Absent)

Describe(loc) == IF loc.dataset_id # Absent THEN loc.dataset_id ELSE loc.distribution_url
=============================================================================
