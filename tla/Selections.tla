----------------------------- MODULE Selections -----------------------------
(***************************************************************************)
(* From a reader's option to a cache key: destatis/core/cache.py turns the *)
(* fields of a locator into the form that is sent and keyed,               *)
(* destatis/reader.py asks the cache with it.  How the cache keeps what is *)
(* behind a key is ParameterCache.tla's.                                   *)
(***************************************************************************)
EXTENDS Locators

CONSTANTS
    BaseUrl,    \* of each host
    Options,    \* what callers write under the reader's name
    MaxAsks     \* bound: calls

ASSUME HostsAreApart == \A h, i \in Hosts : BaseUrl[h] = BaseUrl[i] => h = i

\* What a field takes, or Ill.
ASSUME FieldsAreFields ==
    \A v \in Options : IsSelection(v) =>
        /\ {Fields(v).keys, Fields(v).contents} \subseteq Seq(Seq(Texts)) \cup {Absent, Ill}
        /\ Fields(v).quality \in BOOLEAN \cup {Ill}

VARIABLES
    entries,    \* the parameter cache: the request behind each key
    answer,     \* the last call: its option, how it ended, the request whose reply it was given
    asks

selectionVars == <<entries, answer, asks>>

\* canonical_parameters: the key lists are split and sorted, which is to keep how often each
\* code is in them; the measures of contents keep their order.
Sorted(elements) ==
    LET parts == FlattenSeq(elements)
    IN ToBag(Without([i \in DOMAIN parts |-> Strip(parts[i])], Blank))

CanonicalParameters(loc) ==
    [name |-> loc.name, variable |-> loc.variable,
     keys |-> IF loc.keys = Absent THEN Absent ELSE Sorted(loc.keys),
     contents |-> IF loc.contents = Absent THEN Absent ELSE FlattenSeq(loc.contents),
     startyear |-> loc.startyear, endyear |-> loc.endyear,
     quality |-> IF loc.quality THEN "on" ELSE "off", language |-> loc.language]

\* Fault: the host is left out of the key.
KeyOfAnyHost(loc) == [base_url |-> Absent, parameters |-> CanonicalParameters(loc)]

Key(loc) == [base_url |-> BaseUrl[loc.host], parameters |-> CanonicalParameters(loc)]

Sent(loc) == [host |-> loc.host, parameters |-> CanonicalParameters(loc)]

Outcome(option, ended, given) == [option |-> option, ended |-> ended, given |-> given]

SelectionsInit == entries = << >> /\ answer = Outcome(Absent, "none", Absent) /\ asks = 0

\* derived: the feature's name carries a chain or part separator, so the reader leaves it to a
\* derived feature group.
Ask(option, derived) ==
    /\ asks < MaxAsks /\ asks' = asks + 1
    /\ IF derived \/ ~IsSelection(option)
       THEN answer' = Outcome(option, "unclaimed", Absent) /\ UNCHANGED entries
       ELSE IF InvalidSelection(option)
       THEN answer' = Outcome(option, "refused", Absent) /\ UNCHANGED entries
       ELSE LET k == Key(Selection(option))
                found == IF k \in DOMAIN entries THEN entries[k] ELSE Sent(Selection(option))
            IN /\ answer' = Outcome(option, "read", found)
               /\ entries' = [j \in DOMAIN entries \cup {k} |-> IF j = k THEN found ELSE entries[j]]

SelectionsNext == \E option \in Options, derived \in BOOLEAN : Ask(option, derived)

SelectionsSpec == SelectionsInit /\ [][SelectionsNext]_selectionVars

-----------------------------------------------------------------------------
\* What is asked for, said without the code: by a caller, and by a request as the server
\* reads it.  A list of keys is a set to the server; that of measures is in order.

Named(elements) == {Strip(c) : c \in UNION {ToSet(elements[i]) : i \in DOMAIN elements}} \ {Blank}

NothingIn(list) == list = Absent \/ (list # Absent /\ \A i \in DOMAIN list : list[i] = <<Blank>>)

Meant(option) ==
    LET f == Fields(option)
    IN [host |-> f.host, table |-> Strip(f.name),
        variable |-> IF f.variable = Blank THEN Absent ELSE Strip(f.variable),
        keys |-> IF NothingIn(f.keys) THEN Absent ELSE Named(f.keys),
        measures |-> IF NothingIn(f.contents) THEN Absent ELSE Named(f.contents),
        from |-> f.startyear, to |-> f.endyear, quality |-> f.quality]

Selected(request) ==
    LET p == request.parameters
    IN [host |-> request.host, table |-> p.name, variable |-> p.variable,
        keys |-> IF p.keys = Absent THEN Absent ELSE DOMAIN p.keys,
        measures |-> IF p.contents = Absent THEN Absent ELSE {Strip(c) : c \in ToSet(p.contents)} \ {Blank},
        from |-> p.startyear, to |-> p.endyear, quality |-> p.quality = "on"]

\* A call is answered with the reply to a request for just what its caller meant, on the
\* host the caller meant, whichever caller's request it was and however either spelled it;
\* and two requests for the same thing share an entry, but for a code given twice or
\* measures given in another order (canonical_parameters, ParameterCache.key).
KeysTellSelectionsApart ==
    /\ answer.ended = "read" => Selected(answer.given) = Meant(answer.option)
    /\ \A j, k \in DOMAIN entries :
          LET p == entries[j].parameters
              q == entries[k].parameters
          IN /\ Selected(entries[j]) = Selected(entries[k])
             /\ p.contents = q.contents
             /\ p.keys = Absent \/ (\A c \in DOMAIN p.keys : p.keys[c] = q.keys[c])
             => j = k
=============================================================================
