-------------------------- MODULE CatalogueSearch --------------------------
(***************************************************************************)
(* govdata/core/discovery.py: search_datasets, a generator that pages      *)
(* through CKAN's package_search with rows and start while the catalogue   *)
(* changes under it.                                                       *)
(*                                                                         *)
(* The generator is lazy: it holds one page, hands out a dataset per next() *)
(* of its consumer, and asks for the following page only when the consumer *)
(* wants more.  A step is one next(), cut in two where it sends a request. *)
(* The catalogue is the list of datasets that match the query, in the      *)
(* server's order: newest first, so that a dataset that is edited moves to *)
(* the front.                                                              *)
(***************************************************************************)
EXTENDS Integers, SequencesExt

CONSTANTS
    Datasets,
    Malformed,      \* datasets with a resource that has no URL
    PageSizes,      \* the page_size arguments callers use
    Limits,         \* their max_results, None among them
    ServerRows,     \* the server's own limit of rows per page
    StaleCounts,    \* counts a server may answer that are not the number of matches
    MaxChanges,     \* bound: changes of the catalogue
    None

ASSUME DatasetsAreFinite == IsFiniteSet(Datasets) /\ Malformed \subseteq Datasets
ASSUME ArgumentsAreInts == PageSizes \subseteq Int /\ Limits \subseteq Int \cup {None}
ASSUME NoneIsNoNumber == None \notin Int
ASSUME BoundsAreNat ==
    ServerRows \in Nat \ {0} /\ StaleCounts \subseteq Nat /\ MaxChanges \in Nat

VARIABLES
    catalogue,  \* what the server would list now
    walk,       \* the locals of the generator
    got,        \* the datasets the consumer has been handed
    outcome,    \* how the generator ended
    changes,    \* bound
    since       \* history since the search began, read by properties only

vars == <<catalogue, walk, got, outcome, changes, since>>

Places == {"new", "request", "suspended", "ended"}
Errors == {"bad_page_size", "http_error", "not_successful", "malformed"}
Outcomes == Errors \cup {"none", "exhausted", "limit", "closed"}

\* size, limit: the arguments.  yielded, start, page, count: as in the code.
\* index: the dataset of page the generator is suspended at.
Walks == [at : Places, size : PageSizes, limit : Limits, yielded : Nat, start : Nat,
          page : Seq(Datasets), index : Nat, count : Nat \cup {None}]

\* listed: the catalogue when the search began.  inserted, removed, moved: what
\* happened to datasets since.  honest: the server listed what it had and counted
\* right, or not at all.
Histories == [listed : Seq(Datasets), inserted : SUBSET Datasets, removed : SUBSET Datasets,
              moved : SUBSET Datasets, honest : BOOLEAN]

TypeOK ==
    /\ catalogue \in Seq(Datasets)
    /\ walk \in Walks
    /\ got \in Seq(Datasets)
    /\ outcome \in Outcomes
    /\ changes \in 0..MaxChanges
    /\ since \in Histories


\* Every list of different datasets.
Catalogues == UNION {SetToSeqs(S) : S \in SUBSET Datasets}

Init ==
    /\ catalogue \in Catalogues
    /\ \E size \in PageSizes, limit \in Limits :
        walk = [at |-> "new", size |-> size, limit |-> limit, yielded |-> 0, start |-> 0,
                page |-> <<>>, index |-> 0, count |-> None]
    /\ got = <<>>
    /\ outcome = "none"
    /\ changes = 0
    /\ since = [listed |-> catalogue, inserted |-> {}, removed |-> {}, moved |-> {},
                honest |-> TRUE]

-----------------------------------------------------------------------------
\* The generator

End(w, how) ==
    /\ walk' = [w EXCEPT !.at = "ended"]
    /\ outcome' = how
    /\ UNCHANGED got

Goto(w, place) == walk' = [w EXCEPT !.at = place] /\ UNCHANGED <<got, outcome>>

\* yield Dataset.from_ckan(entry), for entry i of the page.
HandOut(w, i) ==
    \/ w.page[i] \in Malformed /\ End(w, "malformed")
    \/ /\ w.page[i] \notin Malformed
       /\ got' = Append(got, w.page[i])
       /\ walk' = [w EXCEPT !.at = "suspended", !.index = i]
       /\ UNCHANGED outcome

Limited(w, n) == w.limit # None /\ n >= w.limit

\* The first next(): the checks of the arguments.
Start ==
    /\ walk.at = "new"
    /\ \/ walk.size < 1 /\ End(walk, "bad_page_size")
       \/ walk.size >= 1 /\ Limited(walk, 0) /\ End(walk, "limit")
       \/ walk.size >= 1 /\ ~Limited(walk, 0) /\ Goto(walk, "request")
    /\ UNCHANGED <<catalogue, changes, since>>

Least(m, n) == IF m <= n THEN m ELSE n

Rows(w) == IF w.limit = None THEN w.size ELSE Least(w.size, w.limit - w.yielded)

\* The server's side: the page it has for a request.
Listing(start, rows) ==
    SubSeq(catalogue, start + 1, Least(start + Least(rows, ServerRows), Len(catalogue)))

\* Fault: an empty page does not end the walk.
EmptyPageIsAPage(w) == Goto(w, "request")

EmptyPage(w) == End(w, "exhausted")

\* package_search answers: with its page, or with none, and with a count that may
\* be absent or wrong.
Answer ==
    /\ walk.at = "request"
    /\ \E page \in {Listing(walk.start, Rows(walk)), <<>>},
          count \in {Len(catalogue), None} \cup StaleCounts :
        LET w == [walk EXCEPT !.page = page, !.count = count] IN
        /\ IF page = <<>> THEN EmptyPage(w) ELSE HandOut(w, 1)
        /\ since' = [since EXCEPT !.honest =
              /\ @ /\ count \in {Len(catalogue), None}
              /\ page = Listing(walk.start, Rows(walk))]
    /\ UNCHANGED <<catalogue, changes>>

\* request_with_retry or raise_for_status raises, or the payload says no success.
AnswerFails ==
    /\ walk.at = "request"
    /\ \E how \in {"http_error", "not_successful"} : End(walk, how)
    /\ UNCHANGED <<catalogue, changes, since>>

\* Fault: start counts the rows asked for.
NextFullPage(w) == w.start + w.size

NextStart(w) == w.start + Len(w.page)

\* Fault: the walk ends one dataset early.
CountedShort(start, count) == count # None /\ start + 1 >= count

Counted(start, count) == count # None /\ start >= count

\* The next(): the code after the yield.
Resume ==
    /\ walk.at = "suspended"
    /\ LET w == [walk EXCEPT !.yielded = @ + 1] IN
        \/ Limited(w, w.yielded) /\ End(w, "limit")
        \/ /\ ~Limited(w, w.yielded) /\ w.index < Len(w.page)
           /\ HandOut(w, w.index + 1)
        \/ /\ ~Limited(w, w.yielded) /\ w.index = Len(w.page)
           /\ LET next == [w EXCEPT !.start = NextStart(w)] IN
              IF Counted(next.start, w.count) THEN End(next, "exhausted")
              ELSE Goto(next, "request")
    /\ UNCHANGED <<catalogue, changes, since>>

\* The consumer has enough.
Close ==
    /\ walk.at = "suspended"
    /\ End(walk, "closed")
    /\ UNCHANGED <<catalogue, changes, since>>

-----------------------------------------------------------------------------
\* The catalogue

Change ==
    /\ outcome = "none" /\ changes < MaxChanges
    /\ changes' = changes + 1
    /\ UNCHANGED <<walk, got, outcome>>

Add ==
    /\ Change
    /\ \E d \in Datasets \ ToSet(catalogue), i \in 1..Len(catalogue) + 1 :
        /\ catalogue' = InsertAt(catalogue, i, d)
        /\ since' = [since EXCEPT !.inserted = @ \cup {d}]

Withdraw ==
    /\ Change
    /\ \E i \in DOMAIN catalogue :
        /\ catalogue' = RemoveAt(catalogue, i)
        /\ since' = [since EXCEPT !.removed = @ \cup {catalogue[i]}]

\* A dataset is edited and becomes the newest.
Edit ==
    /\ Change
    /\ \E i \in DOMAIN catalogue :
        /\ catalogue' = <<catalogue[i]>> \o RemoveAt(catalogue, i)
        /\ since' = [since EXCEPT !.moved = @ \cup {catalogue[i]}]

Search == Start \/ Answer \/ AnswerFails \/ Resume

Next == Search \/ Close \/ Add \/ Withdraw \/ Edit

Spec == Init /\ [][Next]_vars

\* A request is answered or fails (the timeouts of the client and its bounded
\* retries), and the consumer goes on asking (list(...), a for loop).
FairSpec == Spec /\ WF_vars(Search)

-----------------------------------------------------------------------------
\* Properties

\* "max_results caps the total yield", and no page is asked for that goes beyond
\* it or is empty by request, however the pages fall ("rows" near the limit).
WithinLimit ==
    /\ walk.limit # None => Len(got) <= walk.limit \/ got = <<>>
    /\ walk.at = "request" =>
          /\ Rows(walk) \in 1..walk.size
          /\ walk.limit # None => Len(got) + Rows(walk) <= walk.limit

\* Datasets that are added or edited while the consumer works through its pages
\* hide no other dataset: a search that ran to its end has handed out every one
\* that was there from the beginning and was not itself edited, although the
\* server caps its pages below page_size.  Removals do hide datasets.
NothingSkipped ==
    outcome = "exhausted" /\ since.honest /\ since.removed = {}
        => ToSet(since.listed) \ since.moved \subseteq ToSet(got)

\* Datasets that are removed make no other dataset appear twice.
NothingTwice ==
    since.inserted = {} /\ since.moved = {} => IsInjective(got)

\* Over a catalogue at rest the pages join without a seam: what was handed out
\* is the list from its top, no more of it than was asked for, and the whole list
\* at the end.
PagesJoin ==
    since.inserted \cup since.removed \cup since.moved = {}
        => /\ IsPrefix(got, since.listed)
           /\ walk.limit # None => Len(got) <= walk.limit \/ got = <<>>
           /\ outcome = "exhausted" /\ since.honest => got = since.listed

\* "a stale count cannot loop forever": whatever the server counts, the search
\* of a consumer that goes on asking ends.
SearchEnds == <>(outcome # "none")
=============================================================================
