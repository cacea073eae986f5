-------------------------- MODULE DiscoveryProofs --------------------------
(***************************************************************************)
(* Proofs about CatalogueSearch.tla: types, the caller's limit, and what a *)
(* catalogue that changes between two pages can and cannot do to a search; *)
(* and about DistributionReader.tla: that a table is of one resource, that *)
(* its measures stand under their names, and its columns in the place they *)
(* have in their file.                                                     *)
(*                                                                         *)
(* The argument about a search follows the catalogue position the pages    *)
(* have reached.  Ahead of it are datasets still to be listed, behind it   *)
(* what was handed out or is pending in the page.  Datasets that are added *)
(* only push others ahead, datasets that are withdrawn only pull others    *)
(* behind.  That a search is bounded does not rest on the server's count,  *)
(* but on the datasets there can be.  The argument about a read follows    *)
(* the distribution it has taken and the body it was served; that about    *)
(* measures pairs the rows of a table with the hours of its reply, one by  *)
(* one as both are flattened; that about columns rests on names of which   *)
(* no two are one, so that the cells under a name are those of one place.  *)
(***************************************************************************)
EXTENDS CatalogueSearch, DistributionReader, RecipesProofs, SequenceTheorems

\* The catalogue positions listed so far, what of them is still to be handed out,
\* and what is not listed yet.
Reached == IF walk.at = "suspended" THEN walk.start + Len(walk.page) ELSE walk.start
Pending == IF walk.at = "suspended"
           THEN {walk.page[i] : i \in walk.index + 1 .. Len(walk.page)} ELSE {}
Ahead == {catalogue[i] : i \in Reached + 1 .. Len(catalogue)}

\* The generator's counters agree with what the consumer has.
PlaceOK ==
    /\ walk.at = "new" => got = <<>> /\ walk.yielded = 0 /\ walk.start = 0
    /\ walk.at \in {"request", "suspended"} => walk.size >= 1 /\ ~Limited(walk, walk.yielded)
    /\ walk.at = "request" => Len(got) = walk.yielded
    /\ walk.at = "suspended" =>
          Len(got) = walk.yielded + 1 /\ walk.index \in 1..Len(walk.page)
    /\ walk.at = "ended" <=> outcome # "none"
    /\ walk.at = "ended" /\ walk.limit # None => Len(got) <= walk.limit \/ got = <<>>

\* What a search owes: the datasets that were there from the beginning and stayed
\* where they were.
Owed == ToSet(since.listed) \ since.moved

\* Nothing owed is behind the pages without having been handed out.
CoverOK ==
    since.honest /\ since.removed = {} =>
        /\ outcome = "none" => Owed \subseteq ToSet(got) \cup Pending \cup Ahead
        /\ walk.at = "suspended" /\ Counted(NextStart(walk), walk.count)
              => Owed \subseteq ToSet(got) \cup Pending
        /\ outcome = "exhausted" => Owed \subseteq ToSet(got)

\* Nothing handed out is still pending or ahead.
OnceOK ==
    since.inserted = {} /\ since.moved = {} =>
        /\ IsInjective(got)
        /\ outcome = "none" =>
              IsInjective(catalogue) /\ ToSet(got) \cap (Pending \cup Ahead) = {}
        /\ walk.at = "suspended" => IsInjective(walk.page) /\ Pending \cap Ahead = {}

\* Over a catalogue at rest: what was handed out is the list from its top, up to
\* where the pages and the index say.
JoinOK ==
    since.inserted = {} /\ since.removed = {} /\ since.moved = {} =>
        /\ Len(got) <= Len(since.listed)
        /\ \A i \in 1..Len(got) : got[i] = since.listed[i]
        /\ outcome = "none" => catalogue = since.listed
        /\ walk.at = "request" => Len(got) = walk.start
        /\ walk.at = "suspended" =>
              /\ Len(got) = walk.start + walk.index
              /\ walk.start + Len(walk.page) <= Len(since.listed)
              /\ \A i \in 1..Len(walk.page) : walk.page[i] = since.listed[walk.start + i]
              /\ since.honest /\ Counted(NextStart(walk), walk.count)
                    => walk.start + Len(walk.page) = Len(since.listed)
        /\ outcome = "exhausted" /\ since.honest => Len(got) = Len(since.listed)

Inv == TypeOK /\ PlaceOK /\ CoverOK /\ OnceOK /\ JoinOK

-----------------------------------------------------------------------------
\* Sequences

\* Where the elements of a list are after one was added, one was withdrawn, or one
\* was moved to the front.
LEMMA InsertProperties ==
  ASSUME NEW S, NEW s \in Seq(S), NEW d \in S, NEW i \in 1..Len(s) + 1
  PROVE  /\ InsertAt(s, i, d) \in Seq(S)
         /\ Len(InsertAt(s, i, d)) = Len(s) + 1
         /\ \A j \in 1..i - 1 : InsertAt(s, i, d)[j] = s[j]
         /\ \A j \in i..Len(s) : InsertAt(s, i, d)[j + 1] = s[j]
         /\ InsertAt(s, i, d)[i] = d
  <1> DEFINE a == SubSeq(s, 1, i - 1)
             b == SubSeq(s, i, Len(s))
             m == a \o <<d>>
  <1>1. Len(s) \in Nat /\ \A j \in 1..Len(s) : s[j] \in S
    BY LenProperties, ElementOfSeq
  <1>2. a \in Seq(S) /\ Len(a) = i - 1 /\ \A j \in 1..i - 1 : a[j] = s[j]
    <2>1. \A j \in 1..i - 1 : s[j] \in S
      BY <1>1
    <2>2. /\ SubSeq(s, 1, i - 1) \in Seq(S)
          /\ Len(SubSeq(s, 1, i - 1)) = IF 1 <= i - 1 THEN i - 1 - 1 + 1 ELSE 0
          /\ \A j \in 1 .. i - 1 - 1 + 1 : SubSeq(s, 1, i - 1)[j] = s[1 + j - 1]
      BY <2>1, SubSeqProperties, <1>1
    <2>3. QED
      BY <2>2, <1>1
  <1>3. b \in Seq(S) /\ Len(b) = Len(s) - i + 1 /\ \A j \in 1..Len(s) - i + 1 : b[j] = s[i + j - 1]
    <2>1. \A j \in i..Len(s) : s[j] \in S
      BY <1>1
    <2>2. /\ SubSeq(s, i, Len(s)) \in Seq(S)
          /\ Len(SubSeq(s, i, Len(s))) = IF i <= Len(s) THEN Len(s) - i + 1 ELSE 0
          /\ \A j \in 1 .. Len(s) - i + 1 : SubSeq(s, i, Len(s))[j] = s[i + j - 1]
      BY <2>1, SubSeqProperties, <1>1
    <2>3. QED
      BY <2>2, <1>1
  <1>4. m \in Seq(S) /\ Len(m) = i /\ (\A j \in 1..i - 1 : m[j] = s[j]) /\ m[i] = d
    <2>1. <<d>> \in Seq(S) /\ Len(<<d>>) = 1 /\ <<d>>[1] = d
      OBVIOUS
    <2>2. /\ a \o <<d>> \in Seq(S) /\ Len(a \o <<d>>) = Len(a) + 1
          /\ \A j \in 1 .. Len(a) + 1 : (a \o <<d>>)[j] =
                     IF j <= Len(a) THEN a[j] ELSE <<d>>[j - Len(a)]
      BY <2>1, <1>2, ConcatProperties
    <2>3. m \in Seq(S) /\ Len(m) = i /\ \A j \in 1..i - 1 : m[j] = s[j]
      BY <2>2, <1>2, <1>1
    <2>4. m[i] = d
      <3>1. i \in 1..Len(a) + 1 /\ ~(i <= Len(a)) /\ i - Len(a) = 1
        BY <1>1, <1>2
      <3>2. QED
        BY <2>1, <2>2, <3>1
    <2>5. QED
      BY <2>3, <2>4
  <1>5. /\ m \o b \in Seq(S) /\ Len(m \o b) = Len(m) + Len(b)
        /\ \A j \in 1 .. Len(m) + Len(b) : (m \o b)[j] =
                     IF j <= Len(m) THEN m[j] ELSE b[j - Len(m)]
    <2> HIDE DEF a, b, m
    <2> QED BY <1>3, <1>4, ConcatProperties
  <1>6. InsertAt(s, i, d) = m \o b
    BY DEF InsertAt
  <1> HIDE DEF a, b, m
  <1>7. \A j \in 1..i - 1 : (m \o b)[j] = s[j]
    BY <1>1, <1>3, <1>4, <1>5
  <1>8. \A j \in i..Len(s) : (m \o b)[j + 1] = s[j]
    <2> SUFFICES ASSUME NEW j \in i..Len(s) PROVE (m \o b)[j + 1] = s[j]
      OBVIOUS
    <2>1. j + 1 - i \in 1..Len(s) - i + 1 /\ j + 1 \in 1..Len(m) + Len(b) /\ ~(j + 1 <= Len(m))
      BY <1>1, <1>3, <1>4
    <2>2. (m \o b)[j + 1] = b[j + 1 - i]
      BY <2>1, <1>4, <1>5
    <2>3. QED
      BY <2>1, <2>2, <1>3, <1>1
  <1>9. (m \o b)[i] = d
    BY <1>1, <1>3, <1>4, <1>5
  <1>10. QED
    BY <1>1, <1>3, <1>4, <1>5, <1>6, <1>7, <1>8, <1>9

LEMMA RemoveProperties ==
  ASSUME NEW S, NEW s \in Seq(S), NEW i \in 1..Len(s)
  PROVE  /\ RemoveAt(s, i) \in Seq(S)
         /\ Len(RemoveAt(s, i)) = Len(s) - 1
         /\ \A j \in 1..i - 1 : RemoveAt(s, i)[j] = s[j]
         /\ \A j \in i..Len(s) - 1 : RemoveAt(s, i)[j] = s[j + 1]
  <1> DEFINE a == SubSeq(s, 1, i - 1)
             b == SubSeq(s, i + 1, Len(s))
  <1>1. Len(s) \in Nat /\ \A j \in 1..Len(s) : s[j] \in S
    BY LenProperties, ElementOfSeq
  <1>2. a \in Seq(S) /\ Len(a) = i - 1 /\ \A j \in 1..i - 1 : a[j] = s[j]
    <2>1. \A j \in 1..i - 1 : s[j] \in S
      BY <1>1
    <2>2. /\ SubSeq(s, 1, i - 1) \in Seq(S)
          /\ Len(SubSeq(s, 1, i - 1)) = IF 1 <= i - 1 THEN i - 1 - 1 + 1 ELSE 0
          /\ \A j \in 1 .. i - 1 - 1 + 1 : SubSeq(s, 1, i - 1)[j] = s[1 + j - 1]
      BY <2>1, SubSeqProperties, <1>1
    <2>3. QED
      BY <2>2, <1>1
  <1>3. b \in Seq(S) /\ Len(b) = Len(s) - i /\ \A j \in 1..Len(s) - i : b[j] = s[i + j]
    <2>1. \A j \in i + 1..Len(s) : s[j] \in S
      BY <1>1
    <2>2. /\ SubSeq(s, i + 1, Len(s)) \in Seq(S)
          /\ Len(SubSeq(s, i + 1, Len(s))) = IF i + 1 <= Len(s) THEN Len(s) - (i + 1) + 1 ELSE 0
          /\ \A j \in 1 .. Len(s) - (i + 1) + 1 : SubSeq(s, i + 1, Len(s))[j] = s[i + 1 + j - 1]
      BY <2>1, SubSeqProperties, <1>1
    <2>3. QED
      BY <2>2, <1>1
  <1>4. RemoveAt(s, i) = a \o b
    BY DEF RemoveAt
  <1> HIDE DEF a, b
  <1>5. /\ a \o b \in Seq(S) /\ Len(a \o b) = Len(a) + Len(b)
        /\ \A j \in 1 .. Len(a) + Len(b) : (a \o b)[j] =
                     IF j <= Len(a) THEN a[j] ELSE b[j - Len(a)]
    BY <1>2, <1>3, ConcatProperties
  <1>6. \A j \in 1..i - 1 : (a \o b)[j] = s[j]
    BY <1>1, <1>2, <1>3, <1>5
  <1>7. \A j \in i..Len(s) - 1 : (a \o b)[j] = s[j + 1]
    <2> SUFFICES ASSUME NEW j \in i..Len(s) - 1 PROVE (a \o b)[j] = s[j + 1]
      OBVIOUS
    <2>1. j - (i - 1) \in 1..Len(s) - i /\ j \in 1..Len(a) + Len(b) /\ ~(j <= Len(a))
      BY <1>1, <1>2, <1>3
    <2>2. (a \o b)[j] = b[j - (i - 1)]
      BY <2>1, <1>2, <1>5
    <2>3. QED
      BY <2>1, <2>2, <1>3, <1>1
  <1>8. QED
    BY <1>1, <1>2, <1>3, <1>4, <1>5, <1>6, <1>7

LEMMA MoveProperties ==
  ASSUME NEW S, NEW s \in Seq(S), NEW i \in 1..Len(s)
  PROVE  /\ <<s[i]>> \o RemoveAt(s, i) \in Seq(S)
         /\ Len(<<s[i]>> \o RemoveAt(s, i)) = Len(s)
         /\ \A j \in 1..i - 1 : (<<s[i]>> \o RemoveAt(s, i))[j + 1] = s[j]
         /\ \A j \in i + 1..Len(s) : (<<s[i]>> \o RemoveAt(s, i))[j] = s[j]
         /\ (<<s[i]>> \o RemoveAt(s, i))[1] = s[i]
  <1> DEFINE r == RemoveAt(s, i)
             f == <<s[i]>>
  <1>1. Len(s) \in Nat /\ s[i] \in S
    BY LenProperties, ElementOfSeq
  <1>2. /\ r \in Seq(S) /\ Len(r) = Len(s) - 1
        /\ \A j \in 1..i - 1 : r[j] = s[j]
        /\ \A j \in i..Len(s) - 1 : r[j] = s[j + 1]
    BY RemoveProperties
  <1>3. f \in Seq(S) /\ Len(f) = 1 /\ f[1] = s[i]
    BY <1>1
  <1> HIDE DEF r, f
  <1>9. f \in Seq(S) /\ r \in Seq(S)
    BY <1>2, <1>3
  <1>4. /\ f \o r \in Seq(S) /\ Len(f \o r) = Len(f) + Len(r)
        /\ \A j \in 1 .. Len(f) + Len(r) : (f \o r)[j] =
                     IF j <= Len(f) THEN f[j] ELSE r[j - Len(f)]
    BY <1>9, ConcatProperties
  <1>5. \A j \in 2..Len(s) : (f \o r)[j] = r[j - 1]
    BY <1>1, <1>2, <1>3, <1>4
  <1>6. \A j \in 1..i - 1 : (f \o r)[j + 1] = s[j]
    <2> SUFFICES ASSUME NEW j \in 1..i - 1 PROVE (f \o r)[j + 1] = s[j]
      OBVIOUS
    <2>1. PICK k \in 2..Len(s) : k = j + 1
      BY <1>1
    <2>2. (f \o r)[k] = r[k - 1]
      BY <1>5
    <2>3. k - 1 = j
      BY <2>1
    <2>4. QED
      BY <2>1, <2>2, <2>3, <1>2
  <1>7. \A j \in i + 1..Len(s) : (f \o r)[j] = s[j]
    <2> SUFFICES ASSUME NEW j \in i + 1..Len(s) PROVE (f \o r)[j] = s[j]
      OBVIOUS
    <2>1. j - 1 \in i..Len(s) - 1 /\ j \in 2..Len(s) /\ j - 1 + 1 = j
      BY <1>1
    <2>2. r[j - 1] = s[j - 1 + 1]
      BY <2>1, <1>2
    <2>3. QED
      BY <2>1, <2>2, <1>5
  <1>8. (f \o r)[1] = s[i]
    BY <1>1, <1>2, <1>3, <1>4
  <1>10. Len(f \o r) = Len(s)
    BY <1>1, <1>2, <1>3, <1>4
  <1>11. QED
    BY <1>4, <1>6, <1>7, <1>8, <1>10 DEF r, f

-----------------------------------------------------------------------------
\* One step of the generator

\* The server's page continues the catalogue from start on; it is empty only where
\* the catalogue ends.
LEMMA ListingProperties ==
  ASSUME catalogue \in Seq(Datasets), NEW start \in Nat, NEW rows \in Nat \ {0}
  PROVE  LET p == Listing(start, rows) IN
         /\ p \in Seq(Datasets)
         /\ p # <<>> => start + Len(p) <= Len(catalogue)
         /\ \A i \in 1..Len(p) : p[i] = catalogue[start + i]
         /\ p = <<>> => Len(catalogue) <= start
  <1> DEFINE n == Least(start + Least(rows, ServerRows), Len(catalogue))
             p == SubSeq(catalogue, start + 1, n)
  <1>1. Len(catalogue) \in Nat /\ \A i \in 1..Len(catalogue) : catalogue[i] \in Datasets
    BY LenProperties, ElementOfSeq
  <1>2. n \in Nat /\ n <= Len(catalogue) /\ (start < Len(catalogue) => start < n)
    BY <1>1, BoundsAreNat DEF Least
  <1> HIDE DEF n
  <1>3. \A i \in start + 1 .. n : catalogue[i] \in Datasets
    BY <1>1, <1>2
  <1>4. /\ SubSeq(catalogue, start + 1, n) \in Seq(Datasets)
        /\ Len(SubSeq(catalogue, start + 1, n)) =
              IF start + 1 <= n THEN n - (start + 1) + 1 ELSE 0
        /\ \A i \in 1 .. n - (start + 1) + 1 :
              SubSeq(catalogue, start + 1, n)[i] = catalogue[start + 1 + i - 1]
    BY <1>2, <1>3, SubSeqProperties
  <1>5. p \in Seq(Datasets) /\ Len(p) = IF start < n THEN n - start ELSE 0
    BY <1>2, <1>4
  <1>6. \A i \in 1..Len(p) : p[i] = catalogue[start + i]
    <2> SUFFICES ASSUME NEW i \in 1..Len(p) PROVE p[i] = catalogue[start + i]
      OBVIOUS
    <2>1. i \in 1 .. n - (start + 1) + 1 /\ start + 1 + i - 1 = start + i
      BY <1>2, <1>5
    <2>2. QED
      BY <2>1, <1>4
  <1>7. p # <<>> => start + Len(p) <= Len(catalogue)
    BY <1>1, <1>2, <1>5, EmptySeq
  <1>8. p = <<>> => Len(catalogue) <= start
    BY <1>1, <1>2, <1>5
  <1>9. QED
    BY <1>5, <1>6, <1>7, <1>8 DEF Listing, n

LEMMA RowsPositive ==
  ASSUME TypeOK, PlaceOK, walk.at = "request"
  PROVE  Rows(walk) \in 1..walk.size /\ Rows(walk) \in Nat \ {0}
  <1>1. /\ walk.size \in Int /\ walk.limit \in Int \cup {None} /\ walk.yielded \in Nat
        /\ walk.size >= 1 /\ ~(walk.limit # None /\ walk.yielded >= walk.limit)
    BY ArgumentsAreInts DEF TypeOK, Walks, PlaceOK, Limited
  <1>2. CASE walk.limit = None
    BY <1>1, <1>2 DEF Rows
  <1>3. CASE walk.limit # None
    BY <1>1, <1>3 DEF Rows, Least
  <1>4. QED
    BY <1>2, <1>3

\* A dataset is handed out: got grows by entry i of the page, and the generator is
\* suspended there.
Yielded(w, i) ==
    /\ w.page[i] \notin Malformed
    /\ got' = Append(got, w.page[i])
    /\ walk' = [w EXCEPT !.at = "suspended", !.index = i]
    /\ outcome' = outcome

\* The generator ends and hands out nothing.
SearchEnded(w, how) ==
    walk' = [w EXCEPT !.at = "ended"] /\ outcome' = how /\ got' = got

LEMMA HandOutCases ==
  ASSUME NEW w, NEW i, HandOut(w, i)
  PROVE  Yielded(w, i) \/ SearchEnded(w, "malformed")
  BY DEF HandOut, Yielded, SearchEnded, End

\* The ways a request can be answered.
LEMMA AnswerCases ==
  ASSUME TypeOK, PlaceOK, Answer
  PROVE  \E page \in Seq(Datasets), count \in Nat \cup {None} :
            LET w == [walk EXCEPT !.page = page, !.count = count] IN
            /\ walk.at = "request" /\ catalogue' = catalogue /\ changes' = changes
            /\ since' = [since EXCEPT !.honest = since'.honest]
            /\ since'.honest \in BOOLEAN
            /\ since'.honest => since.honest /\ count \in {Len(catalogue), None}
            /\ \/ /\ SearchEnded(w, "exhausted")
                  /\ since'.honest => Len(catalogue) <= walk.start
               \/ /\ page # <<>> /\ walk.start + Len(page) <= Len(catalogue)
                  /\ \A i \in 1..Len(page) : page[i] = catalogue[walk.start + i]
                  /\ Yielded(w, 1) \/ SearchEnded(w, "malformed")
  <1> DEFINE listing == Listing(walk.start, Rows(walk))
  <1>1. walk.at = "request" /\ catalogue' = catalogue /\ changes' = changes
    BY DEF Answer
  <1>2. PICK page \in {listing, <<>>}, count \in {Len(catalogue), None} \cup StaleCounts :
          LET w == [walk EXCEPT !.page = page, !.count = count] IN
          /\ IF page = <<>> THEN EmptyPage(w) ELSE HandOut(w, 1)
          /\ since' = [since EXCEPT !.honest =
                @ /\ count \in {Len(catalogue), None} /\ page = listing]
    BY DEF Answer
  <1>3. catalogue \in Seq(Datasets) /\ walk.start \in Nat /\ since \in Histories
    BY DEF TypeOK, Walks
  <1>4. /\ listing \in Seq(Datasets)
        /\ listing # <<>> => walk.start + Len(listing) <= Len(catalogue)
        /\ \A i \in 1..Len(listing) : listing[i] = catalogue[walk.start + i]
        /\ listing = <<>> => Len(catalogue) <= walk.start
    BY <1>1, <1>3, RowsPositive, ListingProperties
  <1> HIDE DEF listing
  <1>5. page \in Seq(Datasets) /\ count \in Nat \cup {None}
    <2>1. Len(catalogue) \in Nat
      BY <1>3, LenProperties
    <2>2. page \in Seq(Datasets)
      BY <1>4, EmptySeq
    <2>3. QED
      BY <2>1, <2>2, BoundsAreNat
  <1>6. /\ since' = [since EXCEPT !.honest = since'.honest] /\ since'.honest \in BOOLEAN
        /\ since'.honest => since.honest /\ count \in {Len(catalogue), None} /\ page = listing
    BY <1>2, <1>3 DEF Histories
  <1>7. CASE page = <<>>
    <2>1. SearchEnded([walk EXCEPT !.page = page, !.count = count], "exhausted")
      BY <1>2, <1>7 DEF EmptyPage, End, SearchEnded
    <2>2. QED
      BY <2>1, <1>1, <1>4, <1>5, <1>6, <1>7
  <1>8. CASE page # <<>>
    <2>1. page = listing
      BY <1>2, <1>8
    <2>2. \/ Yielded([walk EXCEPT !.page = page, !.count = count], 1)
          \/ SearchEnded([walk EXCEPT !.page = page, !.count = count], "malformed")
      BY <1>2, <1>8, HandOutCases
    <2>3. QED
      BY <2>1, <2>2, <1>1, <1>4, <1>5, <1>6, <1>8
  <1>9. QED
    BY <1>7, <1>8

\* The ways a next() after a yield can go on.
LEMMA ResumeCases ==
  ASSUME TypeOK, PlaceOK, Resume
  PROVE  LET w == [walk EXCEPT !.yielded = @ + 1]
             next == [w EXCEPT !.start = NextStart(w)]
         IN  /\ walk.at = "suspended" /\ UNCHANGED <<catalogue, changes, since>>
             /\ \/ Limited(w, w.yielded) /\ SearchEnded(w, "limit")
                \/ /\ ~Limited(w, w.yielded) /\ walk.index < Len(walk.page)
                   /\ Yielded(w, walk.index + 1) \/ SearchEnded(w, "malformed")
                \/ /\ walk.index = Len(walk.page) /\ Counted(NextStart(walk), walk.count)
                   /\ SearchEnded(next, "exhausted")
                \/ /\ ~Limited(w, w.yielded) /\ walk.index = Len(walk.page)
                   /\ walk' = [next EXCEPT !.at = "request"]
                   /\ UNCHANGED <<got, outcome>>
  <1> DEFINE w == [walk EXCEPT !.yielded = @ + 1]
             next == [w EXCEPT !.start = NextStart(w)]
  <1>1. walk \in Walks
    BY DEF TypeOK
  <1>2. /\ w.index = walk.index /\ w.page = walk.page /\ w.count = walk.count
        /\ NextStart(w) = NextStart(walk) /\ next.start = NextStart(walk)
        /\ next.count = walk.count
    BY <1>1 DEF Walks, NextStart
  <1>3. HandOut(w, w.index + 1) => Yielded(w, walk.index + 1) \/ SearchEnded(w, "malformed")
    BY <1>2, HandOutCases
  <1>4. QED
    BY <1>2, <1>3 DEF Resume, End, SearchEnded, Goto

-----------------------------------------------------------------------------
\* Types and counters

LEMMA InitInv == Init => Inv
  <1> SUFFICES ASSUME Init PROVE Inv
    OBVIOUS
  <1>1. PICK S \in SUBSET Datasets : catalogue \in SetToSeqs(S)
    BY DEF Init, Catalogues
  <1>2. Cardinality(S) \in Nat
    BY DatasetsAreFinite, FS_Subset, FS_CardinalityType
  <1>3. catalogue \in [1..Cardinality(S) -> Datasets] /\ IsInjective(catalogue)
    BY <1>1, <1>2 DEF SetToSeqs, IsInjective
  <1>4. catalogue \in Seq(Datasets)
    BY <1>2, <1>3
  <1>5. <<>> \in Seq(Datasets) /\ Len(<<>>) = 0
    BY EmptySeq
  <1>6. TypeOK
    BY <1>4, <1>5, BoundsAreNat DEF Init, TypeOK, Walks, Places, Outcomes, Histories
  <1>7. PlaceOK
    BY DEF Init, PlaceOK
  <1>8. Len(catalogue) \in Nat /\ DOMAIN catalogue = 1..Len(catalogue)
    BY <1>4, LenProperties
  <1>9. Ahead = ToSet(catalogue)
    BY <1>8 DEF Init, Ahead, Reached, ToSet
  <1>10. CoverOK
    BY <1>9 DEF Init, CoverOK, Owed
  <1>11. OnceOK
    BY <1>3 DEF Init, OnceOK, ToSet, IsInjective
  <1>12. JoinOK
    BY <1>5, <1>8 DEF Init, JoinOK
  <1>13. QED
    BY <1>6, <1>7, <1>10, <1>11, <1>12 DEF Inv

\* Handing out an entry of the page, or ending, keeps the types.
LEMMA YieldedTypes ==
  ASSUME NEW w \in Walks, NEW i \in 1..Len(w.page), got \in Seq(Datasets), outcome \in Outcomes,
         Yielded(w, i)
  PROVE  /\ walk' \in Walks /\ got' \in Seq(Datasets) /\ outcome' \in Outcomes
         /\ w.page[i] \in Datasets /\ Len(got') = Len(got) + 1
  <1>1. w.page \in Seq(Datasets) /\ Len(w.page) \in Nat
    BY LenProperties DEF Walks
  <1>2. w.page[i] \in Datasets
    BY <1>1, ElementOfSeq
  <1>3. got' \in Seq(Datasets) /\ Len(got') = Len(got) + 1
    BY <1>2, AppendProperties DEF Yielded
  <1>4. walk' \in Walks
    <2>1. i \in Nat /\ "suspended" \in Places
      BY <1>1 DEF Places
    <2>2. [w EXCEPT !.at = "suspended", !.index = i] \in Walks
      BY <2>1 DEF Walks
    <2>3. QED
      BY <2>2 DEF Yielded
  <1>5. QED
    BY <1>2, <1>3, <1>4 DEF Yielded

LEMMA EndedTypes ==
  ASSUME NEW w \in Walks, got \in Seq(Datasets), NEW how \in Outcomes, SearchEnded(w, how)
  PROVE  walk' \in Walks /\ got' \in Seq(Datasets) /\ outcome' \in Outcomes
  BY DEF SearchEnded, Walks, Places

LEMMA YieldedWalk ==
  ASSUME walk \in Walks
  PROVE  LET w == [walk EXCEPT !.yielded = @ + 1] IN
         /\ w \in Walks /\ w.page = walk.page /\ w.limit = walk.limit /\ w.size = walk.size
         /\ w.yielded = walk.yielded + 1
  <1>1. walk.yielded + 1 \in Nat
    BY DEF Walks
  <1>2. QED
    BY <1>1 DEF Walks

LEMMA TypeStep == Inv /\ [Next]_vars => TypeOK'
  <1> SUFFICES ASSUME Inv, [Next]_vars PROVE TypeOK'
    OBVIOUS
  <1> USE DEF Inv
  <1>0. /\ catalogue \in Seq(Datasets) /\ walk \in Walks /\ got \in Seq(Datasets)
        /\ outcome \in Outcomes /\ changes \in 0..MaxChanges /\ since \in Histories
    BY DEF TypeOK
  <1>1. CASE Start
    <2>1. walk' \in Walks /\ got' \in Seq(Datasets) /\ outcome' \in Outcomes
      BY <1>0, <1>1 DEF Start, End, Goto, Walks, Places, Outcomes, Errors
    <2>2. QED
      BY <1>0, <1>1, <2>1 DEF Start, TypeOK
  <1>2. CASE Answer
    <2>1. PICK page \in Seq(Datasets), count \in Nat \cup {None} :
            LET w == [walk EXCEPT !.page = page, !.count = count] IN
            /\ catalogue' = catalogue /\ changes' = changes
            /\ since' = [since EXCEPT !.honest = since'.honest]
            /\ since'.honest \in BOOLEAN
            /\ \/ SearchEnded(w, "exhausted")
               \/ page # <<>> /\ (Yielded(w, 1) \/ SearchEnded(w, "malformed"))
      BY <1>2, AnswerCases
    <2> DEFINE w == [walk EXCEPT !.page = page, !.count = count]
    <2>2. w \in Walks /\ w.page = page
      BY <1>0 DEF Walks
    <2> HIDE DEF w
    <2>3. walk' \in Walks /\ got' \in Seq(Datasets) /\ outcome' \in Outcomes
      <3>1. CASE SearchEnded(w, "exhausted") \/ SearchEnded(w, "malformed")
        BY <3>1, <1>0, <2>2, EndedTypes DEF Outcomes, Errors
      <3>2. CASE page # <<>> /\ Yielded(w, 1)
        <4>1. 1 \in 1..Len(w.page)
          BY <3>2, <2>2, EmptySeq
        <4>2. QED
          BY <4>1, <3>2, <1>0, <2>2, YieldedTypes
      <3>3. QED
        BY <2>1, <3>1, <3>2 DEF w
    <2>4. since' \in Histories
      BY <1>0, <2>1 DEF Histories
    <2>5. QED
      BY <1>0, <2>1, <2>3, <2>4 DEF TypeOK
  <1>3. CASE AnswerFails
    <2>1. walk' \in Walks /\ got' \in Seq(Datasets) /\ outcome' \in Outcomes
      BY <1>0, <1>3 DEF AnswerFails, End, Walks, Places, Outcomes, Errors
    <2>2. QED
      BY <1>0, <1>3, <2>1 DEF AnswerFails, TypeOK
  <1>4. CASE Resume
    <2> DEFINE w == [walk EXCEPT !.yielded = @ + 1]
               next == [w EXCEPT !.start = NextStart(w)]
    <2>1. /\ walk.at = "suspended" /\ UNCHANGED <<catalogue, changes, since>>
          /\ \/ SearchEnded(w, "limit")
             \/ /\ walk.index < Len(walk.page)
                /\ Yielded(w, walk.index + 1) \/ SearchEnded(w, "malformed")
             \/ SearchEnded(next, "exhausted")
             \/ walk' = [next EXCEPT !.at = "request"] /\ UNCHANGED <<got, outcome>>
      BY <1>4, ResumeCases
    <2>2. w \in Walks /\ w.page = walk.page
      BY <1>0, YieldedWalk
    <2>3. Len(walk.page) \in Nat /\ walk.index \in 1..Len(walk.page)
      BY <1>0, <2>1, LenProperties DEF Walks, PlaceOK
    <2>4. NextStart(w) \in Nat
      BY <2>2, <2>3 DEF NextStart, Walks
    <2>5. next \in Walks
      BY <2>2, <2>4 DEF Walks
    <2> HIDE DEF w, next
    <2>6. walk' \in Walks /\ got' \in Seq(Datasets) /\ outcome' \in Outcomes
      <3>1. CASE SearchEnded(w, "limit") \/ SearchEnded(w, "malformed") \/ SearchEnded(next, "exhausted")
        BY <3>1, <1>0, <2>2, <2>5, EndedTypes DEF Outcomes, Errors
      <3>2. CASE walk.index < Len(walk.page) /\ Yielded(w, walk.index + 1)
        <4>1. walk.index + 1 \in 1..Len(w.page)
          BY <3>2, <2>2, <2>3
        <4>2. QED
          BY <4>1, <3>2, <1>0, <2>2, YieldedTypes
      <3>3. CASE walk' = [next EXCEPT !.at = "request"] /\ UNCHANGED <<got, outcome>>
        BY <3>3, <1>0, <2>5 DEF Walks, Places
      <3>4. QED
        BY <2>1, <3>1, <3>2, <3>3
    <2>7. QED
      BY <1>0, <2>1, <2>6 DEF TypeOK
  <1>5. CASE Close
    <2>1. walk' \in Walks /\ got' \in Seq(Datasets) /\ outcome' \in Outcomes
      BY <1>0, <1>5 DEF Close, End, Walks, Places, Outcomes
    <2>2. QED
      BY <1>0, <1>5, <2>1 DEF Close, TypeOK
  <1>6. CASE Add
    <2>1. PICK d \in Datasets, i \in 1..Len(catalogue) + 1 :
            catalogue' = InsertAt(catalogue, i, d) /\ since' = [since EXCEPT !.inserted = @ \cup {d}]
      BY <1>6 DEF Add
    <2>2. catalogue' \in Seq(Datasets)
      BY <1>0, <2>1, InsertProperties
    <2>3. since' \in Histories
      BY <1>0, <2>1 DEF Histories
    <2>4. QED
      BY <1>0, <1>6, <2>2, <2>3, BoundsAreNat DEF Add, Change, TypeOK
  <1>7. CASE Withdraw
    <2>1. PICK i \in 1..Len(catalogue) :
            catalogue' = RemoveAt(catalogue, i)
            /\ since' = [since EXCEPT !.removed = @ \cup {catalogue[i]}]
      BY <1>0, <1>7, LenProperties DEF Withdraw
    <2>2. catalogue' \in Seq(Datasets) /\ catalogue[i] \in Datasets
      BY <1>0, <2>1, RemoveProperties, ElementOfSeq
    <2>3. since' \in Histories
      BY <1>0, <2>1, <2>2 DEF Histories
    <2>4. QED
      BY <1>0, <1>7, <2>2, <2>3, BoundsAreNat DEF Withdraw, Change, TypeOK
  <1>8. CASE Edit
    <2>1. PICK i \in 1..Len(catalogue) :
            catalogue' = <<catalogue[i]>> \o RemoveAt(catalogue, i)
            /\ since' = [since EXCEPT !.moved = @ \cup {catalogue[i]}]
      BY <1>0, <1>8, LenProperties DEF Edit
    <2>2. catalogue' \in Seq(Datasets) /\ catalogue[i] \in Datasets
      BY <1>0, <2>1, MoveProperties, ElementOfSeq
    <2>3. since' \in Histories
      BY <1>0, <2>1, <2>2 DEF Histories
    <2>4. QED
      BY <1>0, <1>8, <2>2, <2>3, BoundsAreNat DEF Edit, Change, TypeOK
  <1>9. CASE UNCHANGED vars
    BY <1>0, <1>9 DEF vars, TypeOK
  <1>10. QED
    BY <1>1, <1>2, <1>3, <1>4, <1>5, <1>6, <1>7, <1>8, <1>9 DEF Next, Search

LEMMA PlaceStep == Inv /\ [Next]_vars => PlaceOK'
  <1> SUFFICES ASSUME Inv, [Next]_vars PROVE PlaceOK'
    OBVIOUS
  <1> USE DEF Inv
  <1>0. /\ catalogue \in Seq(Datasets) /\ walk \in Walks /\ got \in Seq(Datasets)
        /\ walk.limit \in Int \cup {None} /\ walk.size \in Int /\ walk.yielded \in Nat
        /\ Len(got) \in Nat /\ Len(walk.page) \in Nat
    BY LenProperties, ArgumentsAreInts DEF TypeOK, Walks
  <1>1. CASE Start
    BY <1>0, <1>1, EmptySeq DEF Start, End, Goto, Walks, PlaceOK, Limited
  <1>2. CASE Answer
    <2>1. PICK page \in Seq(Datasets), count \in Nat \cup {None} :
            LET w == [walk EXCEPT !.page = page, !.count = count] IN
            /\ walk.at = "request"
            /\ \/ SearchEnded(w, "exhausted")
               \/ page # <<>> /\ (Yielded(w, 1) \/ SearchEnded(w, "malformed"))
      BY <1>2, AnswerCases
    <2> DEFINE w == [walk EXCEPT !.page = page, !.count = count]
    <2>2. /\ w \in Walks /\ w.page = page /\ w.limit = walk.limit /\ w.size = walk.size
          /\ w.yielded = walk.yielded
      BY <1>0 DEF Walks
    <2>3. Len(got) = walk.yielded /\ walk.size >= 1 /\ ~Limited(walk, walk.yielded)
      BY <2>1 DEF PlaceOK
    <2> HIDE DEF w
    <2>4. CASE SearchEnded(w, "exhausted") \/ SearchEnded(w, "malformed")
      BY <2>4, <1>0, <2>2, <2>3 DEF SearchEnded, PlaceOK, Walks, Limited
    <2>5. CASE page # <<>> /\ Yielded(w, 1)
      <3>1. Len(page) \in Nat \ {0} /\ 1 \in 1..Len(w.page)
        BY <2>5, <2>2, EmptySeq
      <3>2. Len(got') = Len(got) + 1
        BY <3>1, <2>5, <1>0, <2>2, YieldedTypes DEF TypeOK
      <3>3. /\ walk'.at = "suspended" /\ walk'.index = 1 /\ walk'.page = page
            /\ walk'.yielded = walk.yielded /\ walk'.limit = walk.limit /\ walk'.size = walk.size
        BY <2>5, <2>2 DEF Yielded, Walks
      <3>4. outcome' = "none"
        BY <2>1, <2>5 DEF Yielded, PlaceOK
      <3>5. QED
        BY <3>1, <3>2, <3>3, <3>4, <2>2, <2>3 DEF PlaceOK, Limited
    <2>6. QED
      BY <2>1, <2>4, <2>5 DEF w
  <1>3. CASE AnswerFails
    BY <1>0, <1>3 DEF AnswerFails, End, PlaceOK, Walks, Limited
  <1>4. CASE Resume
    <2> DEFINE w == [walk EXCEPT !.yielded = @ + 1]
               next == [w EXCEPT !.start = NextStart(w)]
    <2>1. /\ walk.at = "suspended"
          /\ \/ SearchEnded(w, "limit")
             \/ /\ ~Limited(w, w.yielded) /\ walk.index < Len(walk.page)
                /\ Yielded(w, walk.index + 1) \/ SearchEnded(w, "malformed")
             \/ SearchEnded(next, "exhausted")
             \/ /\ ~Limited(w, w.yielded) /\ walk' = [next EXCEPT !.at = "request"]
                /\ UNCHANGED <<got, outcome>>
      BY <1>4, ResumeCases
    <2>2. /\ w \in Walks /\ w.page = walk.page /\ w.limit = walk.limit /\ w.size = walk.size
          /\ w.yielded = walk.yielded + 1
          /\ next.limit = walk.limit /\ next.size = walk.size /\ next.yielded = walk.yielded + 1
      <3>1. /\ w \in Walks /\ w.page = walk.page /\ w.limit = walk.limit /\ w.size = walk.size
            /\ w.yielded = walk.yielded + 1
        BY <1>0, YieldedWalk
      <3> HIDE DEF w
      <3>2. next.limit = w.limit /\ next.size = w.size /\ next.yielded = w.yielded
        BY <3>1 DEF Walks
      <3>3. QED
        BY <3>1, <3>2
    <2>3. /\ Len(got) = walk.yielded + 1 /\ walk.size >= 1 /\ ~Limited(walk, walk.yielded)
          /\ walk.index \in 1..Len(walk.page) /\ outcome = "none"
      BY <2>1 DEF PlaceOK
    <2>4. walk.limit # None => Len(got) <= walk.limit
      BY <1>0, <2>3 DEF Limited
    <2>5. CASE SearchEnded(w, "limit") \/ SearchEnded(w, "malformed")
      <3>1. walk'.at = "ended" /\ walk'.limit = walk.limit /\ outcome' # "none" /\ got' = got
        BY <2>5, <2>2 DEF SearchEnded, Walks
      <3>2. QED
        BY <3>1, <2>4 DEF PlaceOK
    <2>6. CASE SearchEnded(next, "exhausted")
      <3>1. walk'.at = "ended" /\ walk'.limit = walk.limit /\ outcome' # "none" /\ got' = got
        BY <2>6, <1>0 DEF SearchEnded, Walks
      <3>2. QED
        BY <3>1, <2>4 DEF PlaceOK
    <2>7. CASE /\ ~Limited(w, w.yielded) /\ walk.index < Len(walk.page)
               /\ Yielded(w, walk.index + 1)
      <3> HIDE DEF w
      <3>1. walk.index + 1 \in 1..Len(w.page)
        BY <2>7, <2>2, <2>3, <1>0
      <3>2. Len(got') = Len(got) + 1
        BY <3>1, <2>7, <1>0, <2>2, YieldedTypes DEF TypeOK
      <3>3. /\ walk'.at = "suspended" /\ walk'.index = walk.index + 1 /\ walk'.page = walk.page
            /\ walk'.yielded = walk.yielded + 1 /\ walk'.limit = walk.limit
            /\ walk'.size = walk.size /\ outcome' = "none"
        BY <2>7, <2>2, <2>3 DEF Yielded, Walks
      <3>4. QED
        BY <3>1, <3>2, <3>3, <2>2, <2>3, <2>7 DEF PlaceOK, Limited
    <2>8. CASE /\ ~Limited(w, w.yielded) /\ walk' = [next EXCEPT !.at = "request"]
               /\ UNCHANGED <<got, outcome>>
      <3>1. /\ walk'.at = "request" /\ walk'.limit = walk.limit /\ walk'.size = walk.size
            /\ walk'.yielded = walk.yielded + 1
        <4>1. /\ walk'.at = "request" /\ walk'.limit = next.limit /\ walk'.size = next.size
              /\ walk'.yielded = next.yielded
          BY <2>8, <1>0 DEF Walks, NextStart
        <4>2. QED
          BY <4>1, <2>2
      <3>2. ~Limited(walk', walk'.yielded)
        BY <2>8, <2>2, <3>1 DEF Limited
      <3>3. QED
        BY <3>1, <3>2, <2>3, <2>8 DEF PlaceOK
    <2>9. QED
      BY <2>1, <2>5, <2>6, <2>7, <2>8
  <1>5. CASE Close
    BY <1>0, <1>5 DEF Close, End, PlaceOK, Walks, Limited
  <1>6. CASE Add \/ Withdraw \/ Edit
    BY <1>6 DEF Add, Withdraw, Edit, Change, PlaceOK
  <1>7. CASE UNCHANGED vars
    BY <1>7 DEF vars, PlaceOK
  <1>8. QED
    BY <1>1, <1>2, <1>3, <1>4, <1>5, <1>6, <1>7 DEF Next, Search

-----------------------------------------------------------------------------
\* What a step does to the datasets handed out, pending and ahead

LEMMA AppendSet ==
  ASSUME NEW s \in Seq(Datasets), NEW d \in Datasets
  PROVE  ToSet(Append(s, d)) = ToSet(s) \cup {d}
  <1>1. /\ Append(s, d) \in Seq(Datasets) /\ Len(Append(s, d)) = Len(s) + 1
        /\ \A i \in 1..Len(s) : Append(s, d)[i] = s[i]
        /\ Append(s, d)[Len(s) + 1] = d
    BY AppendProperties
  <1>2. /\ Len(s) \in Nat /\ DOMAIN s = 1..Len(s)
        /\ DOMAIN Append(s, d) = 1..Len(s) + 1
    BY <1>1, LenProperties
  <1>3. QED
    BY <1>1, <1>2 DEF ToSet

\* A fresh page: its first dataset is handed out, the others are pending, and the
\* pages have reached its end.
LEMMA FirstOfPage ==
  ASSUME TypeOK, PlaceOK, walk.at = "request", catalogue' = catalogue,
         NEW page \in Seq(Datasets), NEW count \in Nat \cup {None}, page # <<>>,
         walk.start + Len(page) <= Len(catalogue),
         \A i \in 1..Len(page) : page[i] = catalogue[walk.start + i],
         Yielded([walk EXCEPT !.page = page, !.count = count], 1)
  PROVE  /\ Pending = {} /\ page[1] \in Datasets /\ page[1] \in Ahead
         /\ got' = Append(got, page[1]) /\ ToSet(got') = ToSet(got) \cup {page[1]}
         /\ Ahead = {page[1]} \cup Pending' \cup Ahead'
         /\ Pending' = {page[i] : i \in 2..Len(page)}
         /\ Ahead' = {catalogue[i] : i \in walk.start + Len(page) + 1 .. Len(catalogue)}
         /\ walk'.at = "suspended" /\ walk'.page = page /\ walk'.index = 1
         /\ walk'.start = walk.start /\ walk'.count = count /\ outcome' = "none"
  <1>1. /\ walk \in Walks /\ walk.start \in Nat /\ got \in Seq(Datasets)
        /\ Len(catalogue) \in Nat /\ Len(page) \in Nat \ {0}
    BY LenProperties, EmptySeq DEF TypeOK, Walks
  <1>2. /\ walk'.at = "suspended" /\ walk'.page = page /\ walk'.index = 1
        /\ walk'.start = walk.start /\ walk'.count = count
        /\ got' = Append(got, page[1])
    BY <1>1 DEF Yielded, Walks
  <1>3. outcome' = "none"
    BY DEF Yielded, PlaceOK
  <1>4. page[1] \in Datasets
    BY <1>1, ElementOfSeq
  <1>5. Ahead = {catalogue[i] : i \in walk.start + 1 .. Len(catalogue)} /\ Pending = {}
    BY DEF Ahead, Reached, Pending
  <1>6. Pending' = {page[i] : i \in 2..Len(page)}
    BY <1>2 DEF Pending
  <1>7. Ahead' = {catalogue[i] : i \in walk.start + Len(page) + 1 .. Len(catalogue)}
    BY <1>2 DEF Ahead, Reached
  <1>8. {catalogue[i] : i \in walk.start + 1 .. walk.start + Len(page)} = {page[i] : i \in 1..Len(page)}
    <2>1. ASSUME NEW i \in walk.start + 1 .. walk.start + Len(page)
          PROVE  catalogue[i] \in {page[k] : k \in 1..Len(page)}
      <3>1. i - walk.start \in 1..Len(page) /\ walk.start + (i - walk.start) = i
        BY <1>1
      <3>2. page[i - walk.start] = catalogue[walk.start + (i - walk.start)]
        BY <3>1
      <3>3. QED
        BY <3>1, <3>2
    <2>2. ASSUME NEW i \in 1..Len(page)
          PROVE  page[i] \in {catalogue[k] : k \in walk.start + 1 .. walk.start + Len(page)}
      <3>1. walk.start + i \in walk.start + 1 .. walk.start + Len(page)
        BY <1>1
      <3>2. QED
        BY <3>1
    <2>3. QED
      BY <2>1, <2>2
  <1>9. walk.start + 1 .. Len(catalogue) =
          (walk.start + 1 .. walk.start + Len(page)) \cup (walk.start + Len(page) + 1 .. Len(catalogue))
    BY <1>1
  <1>10. 1..Len(page) = {1} \cup 2..Len(page)
    BY <1>1
  <1>11. Ahead = {page[i] : i \in 1..Len(page)} \cup Ahead'
    BY <1>5, <1>7, <1>8, <1>9
  <1>12. {page[i] : i \in 1..Len(page)} = {page[1]} \cup Pending'
    BY <1>6, <1>10
  <1>13. QED
    BY <1>1, <1>2, <1>3, <1>4, <1>5, <1>6, <1>7, <1>11, <1>12, AppendSet

\* The next dataset of the page: it is handed out and no longer pending.
LEMMA NextOfPage ==
  ASSUME TypeOK, PlaceOK, walk.at = "suspended", catalogue' = catalogue,
         walk.index < Len(walk.page),
         Yielded([walk EXCEPT !.yielded = @ + 1], walk.index + 1)
  PROVE  LET d == walk.page[walk.index + 1] IN
         /\ d \in Datasets /\ got' = Append(got, d) /\ ToSet(got') = ToSet(got) \cup {d}
         /\ Pending = {d} \cup Pending' /\ Ahead' = Ahead
         /\ Pending' = {walk.page[i] : i \in walk.index + 2 .. Len(walk.page)}
         /\ walk'.at = "suspended" /\ walk'.page = walk.page /\ walk'.index = walk.index + 1
         /\ walk'.start = walk.start /\ walk'.count = walk.count /\ outcome' = "none"
  <1> DEFINE d == walk.page[walk.index + 1]
  <1>1. /\ walk \in Walks /\ walk.start \in Nat /\ got \in Seq(Datasets)
        /\ walk.page \in Seq(Datasets) /\ Len(walk.page) \in Nat /\ walk.index \in Nat
    BY LenProperties DEF TypeOK, Walks
  <1>2. /\ walk'.at = "suspended" /\ walk'.page = walk.page /\ walk'.index = walk.index + 1
        /\ walk'.start = walk.start /\ walk'.count = walk.count
        /\ got' = Append(got, d)
    BY <1>1 DEF Yielded, Walks
  <1>3. outcome' = "none"
    BY DEF Yielded, PlaceOK
  <1>4. walk.index + 1 \in 1..Len(walk.page)
    BY <1>1
  <1>5. d \in Datasets
    BY <1>1, <1>4, ElementOfSeq
  <1>6. Pending = {walk.page[i] : i \in walk.index + 1 .. Len(walk.page)}
    BY DEF Pending
  <1>7. Pending' = {walk.page[i] : i \in walk.index + 2 .. Len(walk.page)}
    BY <1>1, <1>2 DEF Pending
  <1>8. walk.index + 1 .. Len(walk.page) = {walk.index + 1} \cup (walk.index + 2 .. Len(walk.page))
    BY <1>1, <1>4
  <1>9. Pending = {d} \cup Pending'
    BY <1>6, <1>7, <1>8
  <1>10. Ahead' = Ahead
    BY <1>2 DEF Ahead, Reached
  <1>11. QED
    BY <1>1, <1>2, <1>3, <1>5, <1>7, <1>9, <1>10, AppendSet

\* The page is used up: nothing is pending, and the next request starts where the
\* pages have reached.
LEMMA PageUsedUp ==
  ASSUME TypeOK, PlaceOK, walk.at = "suspended", catalogue' = catalogue,
         walk.index = Len(walk.page),
         walk' = [walk EXCEPT !.yielded = @ + 1, !.start = NextStart(walk), !.at = "request"]
  PROVE  /\ Pending = {} /\ Pending' = {} /\ Ahead' = Ahead
         /\ walk'.at = "request" /\ walk'.start = walk.start + Len(walk.page)
  <1>1. walk \in Walks /\ walk.index \in Nat
    BY DEF TypeOK, Walks
  <1>2. walk'.at = "request" /\ walk'.start = walk.start + Len(walk.page)
    BY <1>1 DEF Walks, NextStart
  <1>3. Pending = {} /\ Pending' = {}
    BY <1>1, <1>2 DEF Pending
  <1>4. Ahead' = Ahead
    BY <1>2 DEF Ahead, Reached
  <1>5. QED
    BY <1>2, <1>3, <1>4

LEMMA ReachedType == TypeOK => Reached \in Nat
  BY LenProperties DEF TypeOK, Walks, Reached

\* What the publisher's changes do to the datasets ahead.
LEMMA AddPushes ==
  ASSUME TypeOK, Add
  PROVE  /\ Ahead \subseteq Ahead' /\ Pending' = Pending
         /\ since'.inserted # {}
         /\ since' = [since EXCEPT !.inserted = since'.inserted]
  <1>1. PICK d \in Datasets, i \in 1..Len(catalogue) + 1 :
          catalogue' = InsertAt(catalogue, i, d) /\ since' = [since EXCEPT !.inserted = @ \cup {d}]
    BY DEF Add
  <1>2. /\ Len(catalogue) \in Nat /\ Reached \in Nat /\ Reached' = Reached /\ Pending' = Pending
        /\ since \in Histories
    BY LenProperties, ReachedType DEF Add, Change, Reached, Pending, TypeOK
  <1>3. /\ Len(catalogue') = Len(catalogue) + 1
        /\ \A j \in 1..i - 1 : catalogue'[j] = catalogue[j]
        /\ \A j \in i..Len(catalogue) : catalogue'[j + 1] = catalogue[j]
    BY <1>1, InsertProperties DEF TypeOK
  <1>4. ASSUME NEW j \in Reached + 1 .. Len(catalogue)
        PROVE  catalogue[j] \in {catalogue'[k] : k \in Reached + 1 .. Len(catalogue')}
    <2>1. CASE j < i
      <3>1. catalogue'[j] = catalogue[j] /\ j \in Reached + 1 .. Len(catalogue')
        BY <2>1, <1>2, <1>3
      <3>2. QED
        BY <3>1
    <2>2. CASE j >= i
      <3>1. catalogue'[j + 1] = catalogue[j] /\ j + 1 \in Reached + 1 .. Len(catalogue')
        BY <2>2, <1>2, <1>3
      <3>2. QED
        BY <3>1
    <2>3. QED
      BY <2>1, <2>2, <1>2
  <1>5. Ahead \subseteq Ahead'
    BY <1>2, <1>4 DEF Ahead
  <1>6. QED
    BY <1>1, <1>2, <1>5 DEF Histories

LEMMA WithdrawPulls ==
  ASSUME TypeOK, Withdraw
  PROVE  /\ Ahead' \subseteq Ahead /\ Pending' = Pending
         /\ IsInjective(catalogue) => IsInjective(catalogue')
         /\ since'.removed # {}
         /\ since' = [since EXCEPT !.removed = since'.removed]
  <1>1. PICK i \in 1..Len(catalogue) :
          catalogue' = RemoveAt(catalogue, i)
          /\ since' = [since EXCEPT !.removed = @ \cup {catalogue[i]}]
    BY LenProperties DEF Withdraw, TypeOK
  <1>2. /\ Len(catalogue) \in Nat /\ Reached \in Nat /\ Reached' = Reached /\ Pending' = Pending
        /\ since \in Histories
    BY LenProperties, ReachedType DEF Withdraw, Change, Reached, Pending, TypeOK
  <1>3. /\ catalogue' \in Seq(Datasets)
        /\ Len(catalogue') = Len(catalogue) - 1
        /\ \A j \in 1..i - 1 : catalogue'[j] = catalogue[j]
        /\ \A j \in i..Len(catalogue) - 1 : catalogue'[j] = catalogue[j + 1]
    BY <1>1, RemoveProperties DEF TypeOK
  <1>4. ASSUME NEW j \in Reached + 1 .. Len(catalogue')
        PROVE  catalogue'[j] \in {catalogue[k] : k \in Reached + 1 .. Len(catalogue)}
    <2>1. CASE j < i
      <3>1. catalogue'[j] = catalogue[j] /\ j \in Reached + 1 .. Len(catalogue)
        BY <2>1, <1>2, <1>3
      <3>2. QED
        BY <3>1
    <2>2. CASE j >= i
      <3>1. catalogue'[j] = catalogue[j + 1] /\ j + 1 \in Reached + 1 .. Len(catalogue)
        BY <2>2, <1>2, <1>3
      <3>2. QED
        BY <3>1
    <2>3. QED
      BY <2>1, <2>2, <1>2
  <1>5. Ahead' \subseteq Ahead
    BY <1>2, <1>4 DEF Ahead
  <1>6. IsInjective(catalogue) => IsInjective(catalogue')
    <2>1. DOMAIN catalogue = 1..Len(catalogue) /\ DOMAIN catalogue' = 1..Len(catalogue) - 1
      BY <1>3, LenProperties DEF TypeOK
    <2> SUFFICES ASSUME IsInjective(catalogue),
                        NEW a \in 1..Len(catalogue) - 1, NEW b \in 1..Len(catalogue) - 1,
                        catalogue'[a] = catalogue'[b]
                 PROVE  a = b
      BY <2>1 DEF IsInjective
    <2>2. \A m, n \in 1..Len(catalogue) : catalogue[m] = catalogue[n] => m = n
      BY <2>1 DEF IsInjective
    <2>3. CASE a < i /\ b < i
      BY <2>2, <2>3, <1>2, <1>3
    <2>4. CASE a >= i /\ b >= i
      BY <2>2, <2>4, <1>2, <1>3
    <2>5. CASE a < i /\ b >= i
      BY <2>2, <2>5, <1>2, <1>3
    <2>6. CASE a >= i /\ b < i
      BY <2>2, <2>6, <1>2, <1>3
    <2>7. QED
      BY <2>3, <2>4, <2>5, <2>6, <1>2
  <1>7. QED
    BY <1>1, <1>2, <1>5, <1>6 DEF Histories

LEMMA EditPushes ==
  ASSUME TypeOK, Edit
  PROVE  /\ Ahead \ since'.moved \subseteq Ahead' /\ Pending' = Pending
         /\ since'.moved # {} /\ since.moved \subseteq since'.moved
         /\ since' = [since EXCEPT !.moved = since'.moved]
  <1>1. PICK i \in 1..Len(catalogue) :
          catalogue' = <<catalogue[i]>> \o RemoveAt(catalogue, i)
          /\ since' = [since EXCEPT !.moved = @ \cup {catalogue[i]}]
    BY LenProperties DEF Edit, TypeOK
  <1>2. /\ Len(catalogue) \in Nat /\ Reached \in Nat /\ Reached' = Reached /\ Pending' = Pending
        /\ since \in Histories
    BY LenProperties, ReachedType DEF Edit, Change, Reached, Pending, TypeOK
  <1>3. /\ Len(catalogue') = Len(catalogue)
        /\ \A j \in 1..i - 1 : catalogue'[j + 1] = catalogue[j]
        /\ \A j \in i + 1..Len(catalogue) : catalogue'[j] = catalogue[j]
    BY <1>1, MoveProperties DEF TypeOK
  <1>4. ASSUME NEW j \in Reached + 1 .. Len(catalogue), j # i
        PROVE  catalogue[j] \in {catalogue'[k] : k \in Reached + 1 .. Len(catalogue')}
    <2>1. CASE j < i
      <3>1. catalogue'[j + 1] = catalogue[j] /\ j + 1 \in Reached + 1 .. Len(catalogue')
        BY <2>1, <1>2, <1>3
      <3>2. QED
        BY <3>1
    <2>2. CASE j > i
      <3>1. catalogue'[j] = catalogue[j] /\ j \in Reached + 1 .. Len(catalogue')
        BY <2>2, <1>2, <1>3
      <3>2. QED
        BY <3>1
    <2>3. QED
      BY <2>1, <2>2, <1>2, <1>4
  <1>5. since'.moved = since.moved \cup {catalogue[i]}
    BY <1>1, <1>2 DEF Histories
  <1>6. Ahead \ since'.moved \subseteq Ahead'
    BY <1>2, <1>4, <1>5 DEF Ahead
  <1>7. QED
    BY <1>1, <1>2, <1>5, <1>6 DEF Histories

-----------------------------------------------------------------------------
\* Nothing owed is passed by, nothing comes twice

LEMMA CoverStep == Inv /\ [Next]_vars => CoverOK'
  <1> SUFFICES ASSUME Inv, [Next]_vars, since'.honest, since'.removed = {}
               PROVE  /\ outcome' = "none" => Owed' \subseteq ToSet(got') \cup Pending' \cup Ahead'
                      /\ walk'.at = "suspended" /\ Counted(NextStart(walk'), walk'.count)
                            => Owed' \subseteq ToSet(got') \cup Pending'
                      /\ outcome' = "exhausted" => Owed' \subseteq ToSet(got')
    BY DEF CoverOK
  <1> USE DEF Inv
  <1>0. /\ walk \in Walks /\ since \in Histories /\ Len(catalogue) \in Nat
        /\ Len(walk.page) \in Nat /\ walk.start \in Nat
    BY LenProperties DEF TypeOK, Walks
  <1>1. CASE Start \/ AnswerFails \/ Close
    <2>1. /\ since' = since /\ catalogue' = catalogue /\ got' = got
          /\ walk'.at \in {"request", "ended"} /\ walk'.start = walk.start
          /\ outcome' # "exhausted"
          /\ walk.at # "suspended" \/ outcome' # "none"
          /\ outcome' = "none" => outcome = "none" /\ walk'.at = "request"
      BY <1>0, <1>1 DEF Start, AnswerFails, Close, End, Goto, Walks, PlaceOK
    <2>2. outcome' = "none" => Pending' = Pending /\ Ahead' = Ahead
      BY <2>1 DEF Pending, Ahead, Reached
    <2>3. since.honest /\ since.removed = {} /\ Owed' = Owed
      BY <2>1 DEF Owed
    <2>4. QED
      BY <2>1, <2>2, <2>3 DEF CoverOK
  <1>2. CASE Answer
    <2>1. PICK page \in Seq(Datasets), count \in Nat \cup {None} :
            LET w == [walk EXCEPT !.page = page, !.count = count] IN
            /\ walk.at = "request" /\ catalogue' = catalogue
            /\ since' = [since EXCEPT !.honest = since'.honest]
            /\ since'.honest => since.honest /\ count \in {Len(catalogue), None}
            /\ \/ /\ SearchEnded(w, "exhausted")
                  /\ since'.honest => Len(catalogue) <= walk.start
               \/ /\ page # <<>> /\ walk.start + Len(page) <= Len(catalogue)
                  /\ \A i \in 1..Len(page) : page[i] = catalogue[walk.start + i]
                  /\ Yielded(w, 1) \/ SearchEnded(w, "malformed")
      BY <1>2, AnswerCases
    <2> DEFINE w == [walk EXCEPT !.page = page, !.count = count]
    <2>2. since.honest /\ since.removed = {} /\ Owed' = Owed /\ outcome = "none"
      BY <2>1, <1>0 DEF Histories, Owed, PlaceOK
    <2>3. Owed \subseteq ToSet(got) \cup Pending \cup Ahead
      BY <2>2 DEF CoverOK
    <2>4. Pending = {}
      BY <2>1 DEF Pending
    <2>5. CASE SearchEnded(w, "exhausted") /\ Len(catalogue) <= walk.start
      <3>1. Ahead = {}
        BY <2>1, <2>5, <1>0 DEF Ahead, Reached
      <3>2. walk'.at = "ended" /\ outcome' = "exhausted" /\ got' = got
        BY <2>5, <1>0 DEF SearchEnded, Walks
      <3>3. QED
        BY <3>1, <3>2, <2>2, <2>3, <2>4
    <2>6. CASE SearchEnded(w, "malformed")
      <3>1. walk'.at = "ended" /\ outcome' = "malformed"
        BY <2>6, <1>0 DEF SearchEnded, Walks
      <3>2. QED
        BY <3>1
    <2>7. CASE /\ page # <<>> /\ walk.start + Len(page) <= Len(catalogue)
               /\ \A i \in 1..Len(page) : page[i] = catalogue[walk.start + i]
               /\ Yielded(w, 1)
      <3>1. /\ ToSet(got') = ToSet(got) \cup {page[1]}
            /\ Ahead = {page[1]} \cup Pending' \cup Ahead'
            /\ Ahead' = {catalogue[i] : i \in walk.start + Len(page) + 1 .. Len(catalogue)}
            /\ walk'.page = page /\ walk'.start = walk.start /\ walk'.count = count
            /\ outcome' = "none"
        BY <2>1, <2>7, FirstOfPage
      <3>2. Counted(NextStart(walk'), walk'.count) => Ahead' = {}
        <4>1. NextStart(walk') = walk.start + Len(page) /\ Len(page) \in Nat
          BY <3>1, LenProperties DEF NextStart
        <4>2. count \in {Len(catalogue), None}
          BY <2>1
        <4>3. QED
          BY <4>1, <4>2, <3>1, <1>0 DEF Counted
      <3>3. QED
        BY <3>1, <3>2, <2>2, <2>3, <2>4
    <2>8. QED
      BY <2>1, <2>5, <2>6, <2>7
  <1>3. CASE Resume
    <2> DEFINE w == [walk EXCEPT !.yielded = @ + 1]
               next == [w EXCEPT !.start = NextStart(w)]
    <2>1. /\ walk.at = "suspended" /\ UNCHANGED <<catalogue, changes, since>>
          /\ \/ SearchEnded(w, "limit")
             \/ /\ walk.index < Len(walk.page)
                /\ Yielded(w, walk.index + 1) \/ SearchEnded(w, "malformed")
             \/ /\ walk.index = Len(walk.page) /\ Counted(NextStart(walk), walk.count)
                /\ SearchEnded(next, "exhausted")
             \/ /\ walk.index = Len(walk.page) /\ walk' = [next EXCEPT !.at = "request"]
                /\ UNCHANGED <<got, outcome>>
      BY <1>3, ResumeCases
    <2>2. since.honest /\ since.removed = {} /\ Owed' = Owed /\ outcome = "none"
      BY <2>1 DEF Owed, PlaceOK
    <2>3. /\ Owed \subseteq ToSet(got) \cup Pending \cup Ahead
          /\ Counted(NextStart(walk), walk.count) => Owed \subseteq ToSet(got) \cup Pending
      BY <2>1, <2>2 DEF CoverOK
    <2>4. CASE SearchEnded(w, "limit") \/ SearchEnded(w, "malformed")
      <3>1. walk'.at = "ended" /\ outcome' \in {"limit", "malformed"}
        BY <2>4, <1>0 DEF SearchEnded, Walks
      <3>2. QED
        BY <3>1
    <2>5. CASE walk.index < Len(walk.page) /\ Yielded(w, walk.index + 1)
      <3> DEFINE d == walk.page[walk.index + 1]
      <3>1. /\ ToSet(got') = ToSet(got) \cup {d} /\ Pending = {d} \cup Pending' /\ Ahead' = Ahead
            /\ walk'.page = walk.page /\ walk'.start = walk.start /\ walk'.count = walk.count
            /\ outcome' = "none"
        BY <2>1, <2>5, NextOfPage
      <3>2. NextStart(walk') = NextStart(walk)
        BY <3>1 DEF NextStart
      <3>3. QED
        BY <3>1, <3>2, <2>2, <2>3
    <2>6. CASE /\ walk.index = Len(walk.page) /\ Counted(NextStart(walk), walk.count)
               /\ SearchEnded(next, "exhausted")
      <3>1. walk'.at = "ended" /\ outcome' = "exhausted" /\ got' = got
        BY <2>6, <1>0 DEF SearchEnded, Walks
      <3>2. walk.index \in Nat
        BY <1>0 DEF Walks
      <3>3. Pending = {}
        BY <2>6, <3>2 DEF Pending
      <3>4. QED
        BY <3>1, <3>3, <2>2, <2>3, <2>6
    <2>7. CASE /\ walk.index = Len(walk.page) /\ walk' = [next EXCEPT !.at = "request"]
               /\ UNCHANGED <<got, outcome>>
      <3>1. walk' = [walk EXCEPT !.yielded = @ + 1, !.start = NextStart(walk), !.at = "request"]
        BY <2>7, <1>0 DEF Walks, NextStart
      <3>2. Pending = {} /\ Pending' = {} /\ Ahead' = Ahead /\ walk'.at = "request"
        BY <2>1, <2>7, <3>1, PageUsedUp
      <3>3. QED
        BY <3>2, <2>2, <2>3, <2>7
    <2>8. QED
      BY <2>1, <2>4, <2>5, <2>6, <2>7
  <1>4. CASE Add
    <2>1. /\ Ahead \subseteq Ahead' /\ Pending' = Pending
          /\ since' = [since EXCEPT !.inserted = since'.inserted]
          /\ UNCHANGED <<walk, got, outcome>>
      BY <1>4, AddPushes DEF Add, Change
    <2>2. since.honest /\ since.removed = {} /\ Owed' = Owed
      BY <2>1, <1>0 DEF Histories, Owed
    <2>3. QED
      BY <2>1, <2>2 DEF CoverOK
  <1>5. CASE Withdraw
    BY <1>5, WithdrawPulls
  <1>6. CASE Edit
    <2>1. /\ Ahead \ since'.moved \subseteq Ahead' /\ Pending' = Pending
          /\ since.moved \subseteq since'.moved
          /\ since' = [since EXCEPT !.moved = since'.moved]
          /\ UNCHANGED <<walk, got, outcome>>
      BY <1>6, EditPushes DEF Edit, Change
    <2>2. /\ since.honest /\ since.removed = {}
          /\ Owed' \subseteq Owed /\ Owed' \cap since'.moved = {}
      BY <2>1, <1>0 DEF Histories, Owed
    <2>3. QED
      BY <2>1, <2>2 DEF CoverOK
  <1>7. CASE UNCHANGED vars
    BY <1>7 DEF vars, CoverOK, Owed, Pending, Ahead, Reached
  <1>8. QED
    BY <1>1, <1>2, <1>3, <1>4, <1>5, <1>6, <1>7 DEF Next, Search

\* What is handed out next was not handed out before.
LEMMA AppendOnce ==
  ASSUME NEW s \in Seq(Datasets), NEW d \in Datasets, IsInjective(s), d \notin ToSet(s)
  PROVE  IsInjective(Append(s, d))
  <1>1. /\ Append(s, d) \in Seq(Datasets) /\ Len(Append(s, d)) = Len(s) + 1
        /\ \A i \in 1..Len(s) : Append(s, d)[i] = s[i]
        /\ Append(s, d)[Len(s) + 1] = d
    BY AppendProperties
  <1>2. /\ Len(s) \in Nat /\ DOMAIN s = 1..Len(s)
        /\ DOMAIN Append(s, d) = 1..Len(s) + 1
    BY <1>1, LenProperties
  <1>3. \A i \in 1..Len(s) : s[i] # d
    BY <1>2 DEF ToSet
  <1> SUFFICES ASSUME NEW a \in 1..Len(s) + 1, NEW b \in 1..Len(s) + 1,
                      Append(s, d)[a] = Append(s, d)[b]
               PROVE  a = b
    BY <1>2 DEF IsInjective
  <1>4. CASE a <= Len(s) /\ b <= Len(s)
    BY <1>1, <1>2, <1>4 DEF IsInjective
  <1>5. CASE a = Len(s) + 1 /\ b <= Len(s)
    BY <1>1, <1>2, <1>3, <1>5
  <1>6. CASE a <= Len(s) /\ b = Len(s) + 1
    BY <1>1, <1>2, <1>3, <1>6
  <1>7. QED
    BY <1>2, <1>4, <1>5, <1>6

LEMMA OnceStep == Inv /\ [Next]_vars => OnceOK'
  <1> SUFFICES ASSUME Inv, [Next]_vars, since'.inserted = {}, since'.moved = {}
               PROVE  /\ IsInjective(got')
                      /\ outcome' = "none" =>
                            IsInjective(catalogue') /\ ToSet(got') \cap (Pending' \cup Ahead') = {}
                      /\ walk'.at = "suspended"
                            => IsInjective(walk'.page) /\ Pending' \cap Ahead' = {}
    BY DEF OnceOK
  <1> USE DEF Inv
  <1>0. /\ walk \in Walks /\ since \in Histories /\ catalogue \in Seq(Datasets)
        /\ got \in Seq(Datasets) /\ Len(catalogue) \in Nat
        /\ Len(walk.page) \in Nat /\ walk.start \in Nat /\ walk.index \in Nat
    BY LenProperties DEF TypeOK, Walks
  <1>1. CASE Start \/ AnswerFails \/ Close
    <2>1. /\ since' = since /\ catalogue' = catalogue /\ got' = got
          /\ walk'.at \in {"request", "ended"} /\ walk'.start = walk.start
          /\ outcome' = "none" => outcome = "none" /\ walk.at # "suspended"
      BY <1>0, <1>1 DEF Start, AnswerFails, Close, End, Goto, Walks
    <2>2. outcome' = "none" => Pending' = Pending /\ Ahead' = Ahead
      BY <2>1 DEF Pending, Ahead, Reached
    <2>3. QED
      BY <2>1, <2>2 DEF OnceOK
  <1>2. CASE Answer
    <2>1. PICK page \in Seq(Datasets), count \in Nat \cup {None} :
            LET w == [walk EXCEPT !.page = page, !.count = count] IN
            /\ walk.at = "request" /\ catalogue' = catalogue
            /\ since' = [since EXCEPT !.honest = since'.honest]
            /\ \/ SearchEnded(w, "exhausted")
               \/ /\ page # <<>> /\ walk.start + Len(page) <= Len(catalogue)
                  /\ \A i \in 1..Len(page) : page[i] = catalogue[walk.start + i]
                  /\ Yielded(w, 1) \/ SearchEnded(w, "malformed")
      BY <1>2, AnswerCases
    <2> DEFINE w == [walk EXCEPT !.page = page, !.count = count]
    <2>2. /\ since.inserted = {} /\ since.moved = {} /\ outcome = "none"
      BY <2>1, <1>0 DEF Histories, PlaceOK
    <2>3. /\ IsInjective(got) /\ IsInjective(catalogue) /\ ToSet(got) \cap Ahead = {}
      BY <2>2 DEF OnceOK
    <2>4. CASE SearchEnded(w, "exhausted") \/ SearchEnded(w, "malformed")
      <3>1. walk'.at = "ended" /\ outcome' # "none" /\ got' = got
        BY <2>4, <1>0 DEF SearchEnded, Walks
      <3>2. QED
        BY <3>1, <2>3
    <2>5. CASE /\ page # <<>> /\ walk.start + Len(page) <= Len(catalogue)
               /\ \A i \in 1..Len(page) : page[i] = catalogue[walk.start + i]
               /\ Yielded(w, 1)
      <3>1. /\ page[1] \in Datasets /\ page[1] \in Ahead
            /\ got' = Append(got, page[1]) /\ ToSet(got') = ToSet(got) \cup {page[1]}
            /\ Ahead = {page[1]} \cup Pending' \cup Ahead'
            /\ Pending' = {page[i] : i \in 2..Len(page)}
            /\ Ahead' = {catalogue[i] : i \in walk.start + Len(page) + 1 .. Len(catalogue)}
            /\ walk'.page = page
        BY <2>1, <2>5, FirstOfPage
      <3>2. Len(page) \in Nat \ {0} /\ DOMAIN page = 1..Len(page)
        BY <2>5, EmptySeq, LenProperties
      <3>3. \A m, n \in 1..Len(catalogue) : catalogue[m] = catalogue[n] => m = n
        BY <2>3, <1>0, LenProperties DEF IsInjective
      <3>4. ASSUME NEW m \in 1..Len(page), NEW n \in 1..Len(page), page[m] = page[n]
            PROVE  m = n
        <4>0. PICK last, size : last = Len(catalogue) /\ size = Len(page)
          OBVIOUS
        <4>1. walk.start + m \in 1..Len(catalogue) /\ walk.start + n \in 1..Len(catalogue)
          <5>1. last \in Nat /\ size \in Nat /\ walk.start \in Nat /\ walk.start + size <= last
            BY <1>0, <2>5, <3>2, <4>0
          <5>2. m \in 1..size /\ n \in 1..size
            BY <4>0
          <5>3. walk.start + m \in 1..last /\ walk.start + n \in 1..last
            BY ONLY <5>1, <5>2
          <5> QED BY <4>0, <5>3
        <4>2. catalogue[walk.start + m] = catalogue[walk.start + n]
          BY <3>4, <2>5
        <4>3. walk.start + m = walk.start + n
          BY <4>1, <4>2, <3>3
        <4>4. QED
          BY <4>3, <3>2, <1>0
      <3>5. IsInjective(page)
        BY <3>2, <3>4 DEF IsInjective
      <3>6. ASSUME NEW m \in 1..Len(page), NEW n \in walk.start + Len(page) + 1 .. Len(catalogue)
            PROVE  page[m] # catalogue[n]
        <4>1. walk.start + m \in 1..Len(catalogue) /\ n \in 1..Len(catalogue) /\ walk.start + m # n
          BY <2>5, <3>2, <1>0
        <4>2. QED
          BY <4>1, <3>3, <2>5
      <3>7. page[1] \notin Pending' /\ page[1] \notin Ahead' /\ Pending' \cap Ahead' = {}
        <4>1. 1 \in 1..Len(page) /\ \A i \in 2..Len(page) : i \in 1..Len(page) /\ i # 1
          BY <3>2
        <4>2. page[1] \notin Pending'
          BY <3>1, <3>4, <4>1
        <4>3. page[1] \notin Ahead'
          BY <3>1, <3>6, <4>1
        <4>4. Pending' \cap Ahead' = {}
          BY <3>1, <3>6, <4>1
        <4>5. QED
          BY <4>2, <4>3, <4>4
      <3>8. IsInjective(got')
        BY <3>1, <2>3, <1>0, AppendOnce
      <3>9. ToSet(got') \cap (Pending' \cup Ahead') = {}
        BY <3>1, <3>7, <2>3
      <3>10. IsInjective(catalogue') /\ IsInjective(walk'.page)
        BY <3>1, <3>5, <2>1, <2>3
      <3>11. QED
        BY <3>7, <3>8, <3>9, <3>10
    <2>6. QED
      BY <2>1, <2>4, <2>5
  <1>3. CASE Resume
    <2> DEFINE w == [walk EXCEPT !.yielded = @ + 1]
               next == [w EXCEPT !.start = NextStart(w)]
    <2>1. /\ walk.at = "suspended" /\ UNCHANGED <<catalogue, changes, since>>
          /\ \/ SearchEnded(w, "limit")
             \/ /\ walk.index < Len(walk.page)
                /\ Yielded(w, walk.index + 1) \/ SearchEnded(w, "malformed")
             \/ SearchEnded(next, "exhausted")
             \/ /\ walk.index = Len(walk.page) /\ walk' = [next EXCEPT !.at = "request"]
                /\ UNCHANGED <<got, outcome>>
      BY <1>3, ResumeCases
    <2>2. /\ IsInjective(got) /\ IsInjective(catalogue) /\ outcome = "none"
          /\ ToSet(got) \cap (Pending \cup Ahead) = {}
          /\ IsInjective(walk.page) /\ Pending \cap Ahead = {}
      BY <2>1 DEF OnceOK, PlaceOK
    <2>3. CASE SearchEnded(w, "limit") \/ SearchEnded(w, "malformed") \/ SearchEnded(next, "exhausted")
      <3>1. walk'.at = "ended" /\ outcome' # "none" /\ got' = got
        BY <2>3, <1>0 DEF SearchEnded, Walks
      <3>2. QED
        BY <3>1, <2>2
    <2>4. CASE walk.index < Len(walk.page) /\ Yielded(w, walk.index + 1)
      <3> DEFINE d == walk.page[walk.index + 1]
      <3>1. /\ d \in Datasets /\ got' = Append(got, d) /\ ToSet(got') = ToSet(got) \cup {d}
            /\ Pending = {d} \cup Pending' /\ Ahead' = Ahead
            /\ Pending' = {walk.page[i] : i \in walk.index + 2 .. Len(walk.page)}
            /\ walk'.page = walk.page
        BY <2>1, <2>4, NextOfPage
      <3>2. DOMAIN walk.page = 1..Len(walk.page)
        BY <1>0, LenProperties DEF Walks
      <3>3. \A i \in walk.index + 2 .. Len(walk.page) : walk.page[i] # d
        BY <2>2, <2>4, <3>2, <1>0 DEF IsInjective
      <3>4. d \notin Pending'
        BY <3>1, <3>3
      <3>5. IsInjective(got')
        BY <3>1, <2>2, <1>0, AppendOnce
      <3>6. ToSet(got') \cap (Pending' \cup Ahead') = {}
        BY <3>1, <3>4, <2>2
      <3>7. IsInjective(walk'.page) /\ Pending' \cap Ahead' = {}
        BY <3>1, <3>4, <2>2
      <3>8. QED
        BY <3>5, <3>6, <3>7, <2>1, <2>2
    <2>5. CASE /\ walk.index = Len(walk.page) /\ walk' = [next EXCEPT !.at = "request"]
               /\ UNCHANGED <<got, outcome>>
      <3>1. walk' = [walk EXCEPT !.yielded = @ + 1, !.start = NextStart(walk), !.at = "request"]
        BY <2>5, <1>0 DEF Walks, NextStart
      <3>2. Pending = {} /\ Pending' = {} /\ Ahead' = Ahead /\ walk'.at = "request"
        BY <2>1, <2>5, <3>1, PageUsedUp
      <3>3. QED
        BY <3>2, <2>1, <2>2, <2>5
    <2>6. QED
      BY <2>1, <2>3, <2>4, <2>5
  <1>4. CASE Add
    BY <1>4, AddPushes
  <1>5. CASE Withdraw
    <2>1. /\ Ahead' \subseteq Ahead /\ Pending' = Pending
          /\ IsInjective(catalogue) => IsInjective(catalogue')
          /\ since' = [since EXCEPT !.removed = since'.removed]
          /\ UNCHANGED <<walk, got, outcome>>
      BY <1>5, WithdrawPulls DEF Withdraw, Change
    <2>2. since.inserted = {} /\ since.moved = {}
      BY <2>1, <1>0 DEF Histories
    <2>3. QED
      BY <2>1, <2>2 DEF OnceOK
  <1>6. CASE Edit
    BY <1>6, EditPushes
  <1>7. CASE UNCHANGED vars
    <2>1. UNCHANGED <<catalogue, walk, got, outcome, since>>
      BY <1>7 DEF vars
    <2>2. Pending' = Pending /\ Ahead' = Ahead
      BY <2>1 DEF Pending, Ahead, Reached
    <2>3. QED
      BY <2>1, <2>2 DEF OnceOK
  <1>8. QED
    BY <1>1, <1>2, <1>3, <1>4, <1>5, <1>6, <1>7 DEF Next, Search

\* What is handed out next is what the list has next.
LEMMA AppendJoins ==
  ASSUME NEW s \in Seq(Datasets), NEW l \in Seq(Datasets), NEW d \in Datasets,
         \A i \in 1..Len(s) : s[i] = l[i], d = l[Len(s) + 1]
  PROVE  Len(Append(s, d)) = Len(s) + 1 /\ \A i \in 1..Len(s) + 1 : Append(s, d)[i] = l[i]
  <1>1. /\ Len(Append(s, d)) = Len(s) + 1
        /\ \A i \in 1..Len(s) : Append(s, d)[i] = s[i]
        /\ Append(s, d)[Len(s) + 1] = d
    BY AppendProperties
  <1>2. Len(s) \in Nat /\ \A i \in 1..Len(s) + 1 : i \in 1..Len(s) \/ i = Len(s) + 1
    BY LenProperties
  <1>3. QED
    BY <1>1, <1>2

LEMMA JoinStep == Inv /\ [Next]_vars => JoinOK'
  <1> SUFFICES ASSUME Inv, [Next]_vars,
                      since'.inserted = {}, since'.removed = {}, since'.moved = {}
               PROVE  /\ Len(got') <= Len(since'.listed)
                      /\ \A i \in 1..Len(got') : got'[i] = since'.listed[i]
                      /\ outcome' = "none" => catalogue' = since'.listed
                      /\ walk'.at = "request" => Len(got') = walk'.start
                      /\ walk'.at = "suspended" =>
                            /\ Len(got') = walk'.start + walk'.index
                            /\ walk'.start + Len(walk'.page) <= Len(since'.listed)
                            /\ \A i \in 1..Len(walk'.page) :
                                  walk'.page[i] = since'.listed[walk'.start + i]
                            /\ since'.honest /\ Counted(NextStart(walk'), walk'.count)
                                  => walk'.start + Len(walk'.page) = Len(since'.listed)
                      /\ outcome' = "exhausted" /\ since'.honest
                            => Len(got') = Len(since'.listed)
    BY DEF JoinOK
  <1> USE DEF Inv
  <1>0. /\ walk \in Walks /\ since \in Histories /\ catalogue \in Seq(Datasets)
        /\ got \in Seq(Datasets) /\ Len(catalogue) \in Nat /\ Len(got) \in Nat
        /\ Len(walk.page) \in Nat /\ walk.start \in Nat /\ walk.index \in Nat
        /\ since.listed \in Seq(Datasets) /\ Len(since.listed) \in Nat
    BY LenProperties DEF TypeOK, Walks, Histories
  <1>1. CASE Start \/ AnswerFails \/ Close
    <2>1. /\ since' = since /\ catalogue' = catalogue /\ got' = got
          /\ \/ walk.at = "new" /\ walk'.at = "request" /\ outcome' = outcome
                /\ walk'.start = walk.start
             \/ walk'.at = "ended" /\ outcome' \notin {"none", "exhausted"}
      BY <1>0, <1>1 DEF Start, AnswerFails, Close, End, Goto, Walks
    <2>2. walk.at = "new" => Len(got) = walk.start /\ outcome = "none"
      BY EmptySeq DEF PlaceOK
    <2>3. QED
      BY <2>1, <2>2 DEF JoinOK
  <1>2. CASE Answer
    <2>1. PICK page \in Seq(Datasets), count \in Nat \cup {None} :
            LET w == [walk EXCEPT !.page = page, !.count = count] IN
            /\ walk.at = "request" /\ catalogue' = catalogue
            /\ since' = [since EXCEPT !.honest = since'.honest]
            /\ since'.honest => since.honest /\ count \in {Len(catalogue), None}
            /\ \/ /\ SearchEnded(w, "exhausted")
                  /\ since'.honest => Len(catalogue) <= walk.start
               \/ /\ page # <<>> /\ walk.start + Len(page) <= Len(catalogue)
                  /\ \A i \in 1..Len(page) : page[i] = catalogue[walk.start + i]
                  /\ Yielded(w, 1) \/ SearchEnded(w, "malformed")
      BY <1>2, AnswerCases
    <2> DEFINE w == [walk EXCEPT !.page = page, !.count = count]
    <2>2. /\ since.inserted = {} /\ since.removed = {} /\ since.moved = {}
          /\ since'.listed = since.listed /\ outcome = "none"
      BY <2>1, <1>0 DEF Histories, PlaceOK
    <2>3. /\ catalogue = since.listed /\ Len(got) = walk.start /\ Len(got) <= Len(since.listed)
          /\ \A i \in 1..Len(got) : got[i] = since.listed[i]
      BY <2>1, <2>2 DEF JoinOK
    <2>4. CASE SearchEnded(w, "exhausted") /\ (since'.honest => Len(catalogue) <= walk.start)
      <3>1. walk'.at = "ended" /\ outcome' = "exhausted" /\ got' = got
        BY <2>4, <1>0 DEF SearchEnded, Walks
      <3>2. since'.honest => Len(got) = Len(since.listed)
        BY <2>3, <2>4, <1>0
      <3>3. QED
        BY <3>1, <3>2, <2>2, <2>3
    <2>5. CASE SearchEnded(w, "malformed")
      <3>1. walk'.at = "ended" /\ outcome' = "malformed" /\ got' = got
        BY <2>5, <1>0 DEF SearchEnded, Walks
      <3>2. QED
        BY <3>1, <2>2, <2>3
    <2>6. CASE /\ page # <<>> /\ walk.start + Len(page) <= Len(catalogue)
               /\ \A i \in 1..Len(page) : page[i] = catalogue[walk.start + i]
               /\ Yielded(w, 1)
      <3>1. /\ page[1] \in Datasets /\ got' = Append(got, page[1])
            /\ walk'.at = "suspended" /\ walk'.page = page /\ walk'.index = 1
            /\ walk'.start = walk.start /\ walk'.count = count /\ outcome' = "none"
        BY <2>1, <2>6, FirstOfPage
      <3>2. Len(page) \in Nat \ {0} /\ 1 \in 1..Len(page)
        BY <2>6, EmptySeq, LenProperties
      <3>3. page[1] = since.listed[Len(got) + 1]
        BY <2>3, <2>6, <3>2
      <3>4. Len(got') = Len(got) + 1 /\ \A i \in 1..Len(got) + 1 : got'[i] = since.listed[i]
        BY <3>1, <3>3, <2>3, <1>0, AppendJoins
      <3>5. Len(got') <= Len(since.listed)
        BY <3>2, <3>4, <2>3, <2>6, <1>0
      <3>6. /\ walk'.start + Len(walk'.page) <= Len(since.listed)
            /\ \A i \in 1..Len(walk'.page) : walk'.page[i] = since.listed[walk'.start + i]
        BY <3>1, <2>3, <2>6
      <3>7. since'.honest /\ Counted(NextStart(walk'), walk'.count)
               => walk'.start + Len(walk'.page) = Len(since.listed)
        <4>1. NextStart(walk') = walk.start + Len(page)
          BY <3>1 DEF NextStart
        <4>2. since'.honest => count \in {Len(since.listed), None}
          BY <2>1, <2>3
        <4>3. Counted(walk.start + Len(page), count) => count # None /\ walk.start + Len(page) >= count
          BY DEF Counted
        <4>4. ASSUME count = Len(since.listed), walk.start + Len(page) >= count
              PROVE  walk.start + Len(page) = Len(since.listed)
          <5>1. walk.start + Len(page) <= Len(since.listed)
            BY <2>3, <2>6
          <5>2. walk.start + Len(page) >= Len(since.listed)
            BY <4>4
          <5>3. walk.start + Len(page) \in Nat /\ Len(since.listed) \in Nat
            BY <3>2, <1>0
          <5> QED
            BY <5>1, <5>2, <5>3
        <4>5. QED
          BY <4>1, <4>2, <4>3, <4>4, <3>1
      <3>8. QED
        BY <3>1, <3>4, <3>5, <3>6, <3>7, <2>1, <2>2, <2>3
    <2>7. QED
      BY <2>1, <2>4, <2>5, <2>6
  <1>3. CASE Resume
    <2> DEFINE w == [walk EXCEPT !.yielded = @ + 1]
               next == [w EXCEPT !.start = NextStart(w)]
    <2>1. /\ walk.at = "suspended" /\ UNCHANGED <<catalogue, changes, since>>
          /\ \/ SearchEnded(w, "limit")
             \/ /\ walk.index < Len(walk.page)
                /\ Yielded(w, walk.index + 1) \/ SearchEnded(w, "malformed")
             \/ /\ walk.index = Len(walk.page) /\ Counted(NextStart(walk), walk.count)
                /\ SearchEnded(next, "exhausted")
             \/ /\ walk.index = Len(walk.page) /\ walk' = [next EXCEPT !.at = "request"]
                /\ UNCHANGED <<got, outcome>>
      BY <1>3, ResumeCases
    <2>2. since' = since /\ catalogue' = catalogue /\ outcome = "none"
      BY <2>1 DEF PlaceOK
    <2>3. /\ catalogue = since.listed /\ Len(got) = walk.start + walk.index
          /\ Len(got) <= Len(since.listed)
          /\ \A i \in 1..Len(got) : got[i] = since.listed[i]
          /\ walk.start + Len(walk.page) <= Len(since.listed)
          /\ \A i \in 1..Len(walk.page) : walk.page[i] = since.listed[walk.start + i]
          /\ since.honest /\ Counted(NextStart(walk), walk.count)
                => walk.start + Len(walk.page) = Len(since.listed)
      BY <2>1, <2>2 DEF JoinOK
    <2>4. CASE SearchEnded(w, "limit") \/ SearchEnded(w, "malformed")
      <3>1. walk'.at = "ended" /\ outcome' \in {"limit", "malformed"} /\ got' = got
        BY <2>4, <1>0 DEF SearchEnded, Walks
      <3>2. QED
        BY <3>1, <2>2, <2>3
    <2>5. CASE walk.index < Len(walk.page) /\ Yielded(w, walk.index + 1)
      <3> DEFINE d == walk.page[walk.index + 1]
      <3>1. /\ d \in Datasets /\ got' = Append(got, d)
            /\ walk'.at = "suspended" /\ walk'.page = walk.page /\ walk'.index = walk.index + 1
            /\ walk'.start = walk.start /\ walk'.count = walk.count /\ outcome' = "none"
        BY <2>1, <2>5, NextOfPage
      <3>2. walk.index + 1 \in 1..Len(walk.page) /\ walk.start + (walk.index + 1) = Len(got) + 1
        BY <2>3, <2>5, <1>0
      <3>3. d = since.listed[Len(got) + 1]
        <4>1. d = since.listed[walk.start + (walk.index + 1)]
          BY <3>2, <2>3
        <4>2. QED
          BY <4>1, <3>2
      <3> HIDE DEF d
      <3>4. Len(got') = Len(got) + 1 /\ \A i \in 1..Len(got) + 1 : got'[i] = since.listed[i]
        BY <3>1, <3>3, <2>3, <1>0, AppendJoins
      <3>5. Len(got') <= Len(since.listed) /\ Len(got') = walk'.start + walk'.index
        BY <3>1, <3>2, <3>4, <2>3, <1>0
      <3>6. NextStart(walk') = NextStart(walk)
        BY <3>1 DEF NextStart
      <3>7. QED
        BY <3>1, <3>4, <3>5, <3>6, <2>2, <2>3
    <2>6. CASE /\ walk.index = Len(walk.page) /\ Counted(NextStart(walk), walk.count)
               /\ SearchEnded(next, "exhausted")
      <3>1. walk'.at = "ended" /\ outcome' = "exhausted" /\ got' = got
        BY <2>6, <1>0 DEF SearchEnded, Walks
      <3>2. since.honest => Len(got) = Len(since.listed)
        BY <2>3, <2>6
      <3>3. QED
        BY <3>1, <3>2, <2>2, <2>3
    <2>7. CASE /\ walk.index = Len(walk.page) /\ walk' = [next EXCEPT !.at = "request"]
               /\ UNCHANGED <<got, outcome>>
      <3>1. walk' = [walk EXCEPT !.yielded = @ + 1, !.start = NextStart(walk), !.at = "request"]
        BY <2>7, <1>0 DEF Walks, NextStart
      <3>2. walk'.at = "request" /\ walk'.start = walk.start + Len(walk.page)
        BY <2>1, <2>2, <2>7, <3>1, PageUsedUp
      <3>3. QED
        BY <3>2, <2>2, <2>3, <2>7
    <2>8. QED
      BY <2>1, <2>4, <2>5, <2>6, <2>7
  <1>4. CASE Add
    BY <1>4, AddPushes
  <1>5. CASE Withdraw
    BY <1>5, WithdrawPulls
  <1>6. CASE Edit
    BY <1>6, EditPushes
  <1>7. CASE UNCHANGED vars
    <2>1. UNCHANGED <<catalogue, walk, got, outcome, since>>
      BY <1>7 DEF vars
    <2>2. QED
      BY <2>1 DEF JoinOK
  <1>8. QED
    BY <1>1, <1>2, <1>3, <1>4, <1>5, <1>6, <1>7 DEF Next, Search

-----------------------------------------------------------------------------
\* Theorems

LEMMA InvStep == Inv /\ [Next]_vars => Inv'
  BY TypeStep, PlaceStep, CoverStep, OnceStep, JoinStep DEF Inv

\* The invariant the others follow from: the generator's counters agree with what
\* its consumer has, and every dataset is accounted for by where the pages stand.
THEOREM Invariance == Spec => []Inv
  BY InitInv, InvStep, PTL DEF Spec

\* The state of a search (discovery.py 97-143) keeps its types, whatever the
\* catalogue, the arguments and the answers are.
THEOREM TypeCorrect == Spec => []TypeOK
  <1>1. Inv => TypeOK
    BY DEF Inv
  <1>2. QED
    BY <1>1, Invariance, PTL

\* The counters of the invariant keep within the limit, and so does every request.
LEMMA LimitOfInv == Inv => WithinLimit
  <1>1. ASSUME Inv PROVE WithinLimit
    <2>1. /\ walk \in Walks /\ walk.limit \in Int \cup {None} /\ walk.size \in Int
          /\ walk.yielded \in Nat /\ Len(got) \in Nat
      BY <1>1, ArgumentsAreInts, LenProperties DEF Inv, TypeOK, Walks
    <2>2. walk.limit # None => Len(got) <= walk.limit \/ got = <<>>
      <3>1. CASE walk.at \in {"new", "ended"}
        BY <3>1, <1>1 DEF Inv, PlaceOK
      <3>2. CASE walk.at \in {"request", "suspended"}
        BY <3>2, <1>1, <2>1 DEF Inv, PlaceOK, Limited
      <3>3. QED
        BY <3>1, <3>2, <2>1 DEF Walks, Places
    <2>3. ASSUME walk.at = "request"
          PROVE  /\ Rows(walk) \in 1..walk.size
                 /\ walk.limit # None => Len(got) + Rows(walk) <= walk.limit
      <3>1. Rows(walk) \in 1..walk.size /\ Len(got) = walk.yielded
        BY <2>3, <1>1, RowsPositive DEF Inv, PlaceOK
      <3>2. walk.limit # None => walk.yielded + Rows(walk) <= walk.limit
        BY <2>1 DEF Rows, Least
      <3>3. QED
        BY <3>1, <3>2
    <2>4. QED
      BY <2>2, <2>3 DEF WithinLimit
  <1>2. QED
    BY <1>1

\* A caller never gets more than max_results datasets, and no request asks for more
\* than is still missing, or for no rows (discovery.py 119 and 137).
THEOREM Limiting == Spec => []WithinLimit
  BY LimitOfInv, Invariance, PTL

\* However long the list, however the server cuts its pages and whatever is added
\* or edited between two requests, a search that ran to its end hands out every
\* dataset that was there and stayed put (discovery.py 139: start counts what was
\* received, not what was asked for).
THEOREM Covering == Spec => []NothingSkipped
  <1>1. Inv => NothingSkipped
    BY DEF Inv, CoverOK, Owed, NothingSkipped
  <1>2. QED
    BY <1>1, Invariance, PTL

\* Removals between two requests never make a dataset appear twice.
THEOREM Once == Spec => []NothingTwice
  <1>1. Inv => NothingTwice
    BY DEF Inv, OnceOK, NothingTwice
  <1>2. QED
    BY <1>1, Invariance, PTL

\* Over a catalogue at rest a search hands out the list from its top, and at the
\* end of an honest server's pages all of it.
THEOREM Joining == Spec => []PagesJoin
  <1>1. ASSUME Inv PROVE PagesJoin
    <2> SUFFICES ASSUME since.inserted = {}, since.removed = {}, since.moved = {}
                 PROVE  /\ IsPrefix(got, since.listed)
                        /\ walk.limit # None => Len(got) <= walk.limit \/ got = <<>>
                        /\ outcome = "exhausted" /\ since.honest => got = since.listed
      BY DEF PagesJoin
    <2> DEFINE l == since.listed
    <2>1. got \in Seq(Datasets) /\ l \in Seq(Datasets) /\ Len(got) \in Nat /\ Len(l) \in Nat
      BY <1>1, LenProperties DEF Inv, TypeOK, Histories
    <2>2. /\ Len(got) <= Len(l) /\ \A i \in 1..Len(got) : got[i] = l[i]
          /\ outcome = "exhausted" /\ since.honest => Len(got) = Len(l)
      BY <1>1 DEF Inv, JoinOK
    <2> HIDE DEF l
    <2>3. \A i \in 1..Len(got) : l[i] \in Datasets
      BY <2>1, <2>2, ElementOfSeq
    <2>4. /\ SubSeq(l, 1, Len(got)) \in Seq(Datasets)
          /\ Len(SubSeq(l, 1, Len(got))) = IF 1 <= Len(got) THEN Len(got) - 1 + 1 ELSE 0
          /\ \A i \in 1 .. Len(got) - 1 + 1 : SubSeq(l, 1, Len(got))[i] = l[1 + i - 1]
      BY <2>1, <2>3, SubSeqProperties
    <2>5. SubSeq(l, 1, Len(got)) = got
      <3> DEFINE p == SubSeq(l, 1, Len(got))
      <3>1. /\ p \in Seq(Datasets) /\ Len(p) = Len(got)
            /\ \A i \in 1..Len(got) : p[i] = l[i]
        BY <2>1, <2>4
      <3> HIDE DEF p
      <3>2. p = got
        BY <3>1, <2>1, <2>2, SeqEqual
      <3>3. QED
        BY <3>2 DEF p
    <2>6. IsPrefix(got, l)
      BY <2>1, <2>2, <2>5 DEF IsPrefix
    <2>7. outcome = "exhausted" /\ since.honest => got = l
      BY <2>1, <2>2, SeqEqual
    <2>8. walk.limit # None => Len(got) <= walk.limit \/ got = <<>>
      BY <1>1, LimitOfInv DEF WithinLimit
    <2>9. QED
      BY <2>6, <2>7, <2>8 DEF l
  <1>2. QED
    BY <1>1, Invariance, PTL
-----------------------------------------------------------------------------
\* Towards the end of a search: what its liveness rests on, without the fairness

\* The catalogue lists no dataset twice, so that the pages do not reach beyond the
\* number of datasets, whatever is added, withdrawn or moved behind their back.
RoomOK ==
    /\ IsInjective(catalogue)
    /\ walk.at = "request" => walk.start <= Cardinality(Datasets)
    /\ walk.at = "suspended" => walk.start + Len(walk.page) <= Cardinality(Datasets)

\* The steps a search has before it, at most: two for each dataset it has not reached.
NextsLeft ==
    IF walk.at = "new" THEN 2 * Cardinality(Datasets) + 2
    ELSE IF walk.at = "request" THEN 2 * (Cardinality(Datasets) - walk.start) + 1
    ELSE IF walk.at = "suspended" THEN 2 * (Cardinality(Datasets) - walk.start - walk.index) + 2
    ELSE 0

\* Every step of the generator brings the search nearer to its end, and nothing that
\* happens to the catalogue takes it further away.
ComesToAnEnd ==
    /\ Search \/ Close => NextsLeft' < NextsLeft
    /\ NextsLeft' <= NextsLeft

\* A list of different datasets is no longer than their number.
LEMMA DifferentAreFew ==
  ASSUME NEW s \in Seq(Datasets), IsInjective(s)
  PROVE  Len(s) \in Nat /\ Cardinality(Datasets) \in Nat /\ Len(s) <= Cardinality(Datasets)
  <1>1. Len(s) \in Nat /\ s \in [1..Len(s) -> Datasets]
    BY LenProperties
  <1>2. s \in Injection(1..Len(s), Datasets)
    BY <1>1 DEF Injection
  <1>3. Cardinality(1..Len(s)) <= Cardinality(Datasets)
    BY <1>2, DatasetsAreFinite, FS_Injection
  <1>4. Cardinality(1..Len(s)) = IF 1 > Len(s) THEN 0 ELSE Len(s) - 1 + 1
    BY <1>1, FS_Interval
  <1>5. Cardinality(Datasets) \in Nat
    BY DatasetsAreFinite, FS_CardinalityType
  <1>6. QED
    BY <1>1, <1>3, <1>4, <1>5

LEMMA AddKeepsApart ==
  ASSUME TypeOK, IsInjective(catalogue), Add
  PROVE  IsInjective(catalogue')
  <1>1. PICK d \in Datasets, i \in 1..Len(catalogue) + 1 :
          d \notin ToSet(catalogue) /\ catalogue' = InsertAt(catalogue, i, d)
    BY DEF Add
  <1>2. /\ catalogue \in Seq(Datasets) /\ Len(catalogue) \in Nat
        /\ DOMAIN catalogue = 1..Len(catalogue)
    BY LenProperties DEF TypeOK
  <1>3. /\ catalogue' \in Seq(Datasets)
        /\ Len(catalogue') = Len(catalogue) + 1
        /\ \A j \in 1..i - 1 : catalogue'[j] = catalogue[j]
        /\ \A j \in i..Len(catalogue) : catalogue'[j + 1] = catalogue[j]
        /\ catalogue'[i] = d
    <2>1. PICK s : s = InsertAt(catalogue, i, d)
      OBVIOUS
    <2>2. /\ s \in Seq(Datasets) /\ Len(s) = Len(catalogue) + 1
          /\ \A j \in 1..i - 1 : s[j] = catalogue[j]
          /\ \A j \in i..Len(catalogue) : s[j + 1] = catalogue[j]
          /\ s[i] = d
      <3>1. catalogue \in Seq(Datasets) /\ d \in Datasets /\ i \in 1..Len(catalogue) + 1
        BY <1>1, <1>2
      <3>2. /\ InsertAt(catalogue, i, d) \in Seq(Datasets)
            /\ Len(InsertAt(catalogue, i, d)) = Len(catalogue) + 1
            /\ \A j \in 1..i - 1 : InsertAt(catalogue, i, d)[j] = catalogue[j]
            /\ \A j \in i..Len(catalogue) : InsertAt(catalogue, i, d)[j + 1] = catalogue[j]
            /\ InsertAt(catalogue, i, d)[i] = d
        BY ONLY <3>1, InsertProperties
      <3>3. QED
        BY ONLY <2>1, <3>2
    <2>3. QED
      BY <1>1, <2>1, <2>2
  <1>4. DOMAIN catalogue' = 1..Len(catalogue) + 1
    BY <1>3, LenProperties
  <1>5. \A m, n \in 1..Len(catalogue) : catalogue[m] = catalogue[n] => m = n
    BY <1>2 DEF IsInjective
  <1>6. \A m \in 1..Len(catalogue) : catalogue[m] # d
    BY <1>1, <1>2 DEF ToSet
  <1>7. ASSUME NEW a \in 1..Len(catalogue) + 1, a # i
        PROVE  \E m \in 1..Len(catalogue) :
                  m = (IF a < i THEN a ELSE a - 1) /\ catalogue'[a] = catalogue[m]
    <2>1. CASE a < i
      BY <1>2, <1>3, <2>1
    <2>2. CASE a > i
      <3>1. a - 1 \in i..Len(catalogue) /\ a - 1 + 1 = a
        BY <1>2, <2>2
      <3>2. catalogue'[a] = catalogue[a - 1]
        BY <1>3, <3>1
      <3>3. QED
        BY <1>2, <2>2, <3>1, <3>2
    <2>3. QED
      BY <1>2, <1>7, <2>1, <2>2
  <1>8. ASSUME NEW a \in 1..Len(catalogue) + 1, NEW b \in 1..Len(catalogue) + 1,
               catalogue'[a] = catalogue'[b]
        PROVE  a = b
    <2>1. CASE a = i \/ b = i
      BY <1>3, <1>6, <1>7, <1>8, <2>1
    <2>2. CASE a # i /\ b # i
      <3>1. (IF a < i THEN a ELSE a - 1) = (IF b < i THEN b ELSE b - 1)
        BY <1>5, <1>7, <1>8, <2>2
      <3>2. QED
        BY <1>2, <2>2, <3>1
    <2>3. QED
      BY <2>1, <2>2
  <1>9. QED
    BY <1>4, <1>8 DEF IsInjective

LEMMA EditKeepsApart ==
  ASSUME TypeOK, IsInjective(catalogue), Edit
  PROVE  IsInjective(catalogue')
  <1>1. PICK i \in 1..Len(catalogue) : catalogue' = <<catalogue[i]>> \o RemoveAt(catalogue, i)
    BY LenProperties DEF Edit, TypeOK
  <1>2. /\ catalogue \in Seq(Datasets) /\ Len(catalogue) \in Nat
        /\ DOMAIN catalogue = 1..Len(catalogue)
    BY LenProperties DEF TypeOK
  <1>3. /\ catalogue' \in Seq(Datasets)
        /\ Len(catalogue') = Len(catalogue)
        /\ \A j \in 1..i - 1 : catalogue'[j + 1] = catalogue[j]
        /\ \A j \in i + 1..Len(catalogue) : catalogue'[j] = catalogue[j]
        /\ catalogue'[1] = catalogue[i]
    BY <1>1, <1>2, MoveProperties
  <1>4. DOMAIN catalogue' = 1..Len(catalogue)
    BY <1>3, LenProperties
  <1>5. \A m, n \in 1..Len(catalogue) : catalogue[m] = catalogue[n] => m = n
    BY <1>2 DEF IsInjective
  <1> DEFINE Was(a) == IF a = 1 THEN i ELSE IF a <= i THEN a - 1 ELSE a
  <1>6. ASSUME NEW a \in 1..Len(catalogue)
        PROVE  Was(a) \in 1..Len(catalogue) /\ catalogue'[a] = catalogue[Was(a)]
    <2>1. CASE a = 1
      BY <1>3, <2>1
    <2>2. CASE a # 1 /\ a <= i
      <3>1. a - 1 \in 1..i - 1 /\ a - 1 + 1 = a /\ Was(a) = a - 1
        BY <1>2, <2>2
      <3>2. QED
        BY <1>2, <1>3, <3>1
    <2>3. CASE a > i
      <3>1. a \in i + 1..Len(catalogue) /\ Was(a) = a
        BY <1>2, <2>3
      <3>2. QED
        BY <1>3, <3>1
    <2>4. QED
      BY <1>2, <2>1, <2>2, <2>3
  <1>7. ASSUME NEW a \in 1..Len(catalogue), NEW b \in 1..Len(catalogue),
               catalogue'[a] = catalogue'[b]
        PROVE  a = b
    <2>1. Was(a) = Was(b)
      <3> HIDE DEF Was
      <3>1. QED
        BY <1>5, <1>6, <1>7
    <2>2. QED
      BY <1>2, <2>1
  <1>8. QED
    BY <1>4, <1>7 DEF IsInjective

LEMMA RoomInit == Init => RoomOK
  <1> SUFFICES ASSUME Init PROVE RoomOK
    OBVIOUS
  <1>1. PICK S \in SUBSET Datasets : catalogue \in SetToSeqs(S)
    BY DEF Init, Catalogues
  <1>2. IsInjective(catalogue)
    BY <1>1 DEF SetToSeqs, IsInjective
  <1>3. QED
    BY <1>2 DEF Init, RoomOK

\* A step of the generator stays within the datasets and brings it nearer to its end.
LEMMA GeneratorStep ==
  ASSUME Inv, Inv', RoomOK, Search \/ Close
  PROVE  RoomOK' /\ NextsLeft' < NextsLeft /\ NextsLeft' \in Int
  <1> DEFINE N == Cardinality(Datasets)
  <1>1. /\ walk \in Walks /\ walk.start \in Nat /\ walk.index \in Nat /\ Len(walk.page) \in Nat
        /\ catalogue \in Seq(Datasets) /\ N \in Nat /\ Len(catalogue) <= N /\ Len(catalogue) \in Nat
    BY DifferentAreFew, LenProperties DEF Inv, TypeOK, Walks, RoomOK
  <1>2. catalogue' = catalogue /\ IsInjective(catalogue)
    BY DEF Search, Start, Answer, AnswerFails, Resume, Close, RoomOK
  <1>3. walk.at = "suspended" => walk.index \in 1..Len(walk.page) /\ walk.start + Len(walk.page) <= N
    BY DEF Inv, PlaceOK, RoomOK
  <1>4. walk.at = "request" => walk.start <= N
    BY DEF RoomOK
  <1> HIDE DEF N
  <1> SUFFICES RoomOK' /\ NextsLeft' < NextsLeft
    <2>1. walk'.start \in Nat /\ walk'.index \in Nat
      BY DEF Inv, TypeOK, Walks
    <2>2. NextsLeft' \in Int
      <3>1. /\ N \in Int /\ walk'.start \in Int /\ walk'.index \in Int
        BY <1>1, <2>1
      <3>2. /\ 2 * N + 2 \in Int /\ 2 * (N - walk'.start) + 1 \in Int
            /\ 2 * (N - walk'.start - walk'.index) + 2 \in Int /\ 0 \in Int
        BY ONLY <3>1
      <3>3. NextsLeft' \in {2 * N + 2, 2 * (N - walk'.start) + 1,
                           2 * (N - walk'.start - walk'.index) + 2, 0}
        BY ONLY DEF NextsLeft, N
      <3>4. QED
        BY ONLY <3>2, <3>3
    <2>3. QED
      BY <2>2
  <1>5. CASE walk'.at = "ended" /\ walk.at # "ended"
    <2>1. NextsLeft' = 0
      BY <1>5 DEF NextsLeft
    <2>2. NextsLeft > 0
      BY <1>1, <1>3, <1>4, <1>5 DEF NextsLeft, N, Walks, Places
    <2>3. QED
      BY <1>2, <1>5, <2>1, <2>2 DEF RoomOK
  <1>6. CASE Start
    <2>1. walk.at = "new" /\ (walk'.at = "ended" \/ walk' = [walk EXCEPT !.at = "request"])
      BY <1>1, <1>6 DEF Start, End, Goto, Walks
    <2>2. CASE walk' = [walk EXCEPT !.at = "request"]
      <3>1. walk'.at = "request" /\ walk'.start = 0
        BY <1>1, <2>1, <2>2 DEF Walks, Inv, PlaceOK
      <3>2. QED
        BY <1>1, <1>2, <2>1, <3>1 DEF RoomOK, NextsLeft, N
    <2>3. QED
      BY <1>5, <2>1, <2>2
  <1>7. CASE Answer
    <2>1. TypeOK /\ PlaceOK
      BY DEF Inv
    <2>2. PICK page \in Seq(Datasets), count \in Nat \cup {None} :
            LET w == [walk EXCEPT !.page = page, !.count = count] IN
            /\ walk.at = "request"
            /\ \/ SearchEnded(w, "exhausted")
               \/ /\ page # <<>> /\ walk.start + Len(page) <= Len(catalogue)
                  /\ Yielded(w, 1) \/ SearchEnded(w, "malformed")
      BY <1>7, <2>1, AnswerCases
    <2> DEFINE w == [walk EXCEPT !.page = page, !.count = count]
    <2>3. CASE \E how : SearchEnded(w, how)
      <3>1. walk'.at = "ended"
        BY <1>1, <2>3 DEF SearchEnded, Walks
      <3>2. QED
        BY <1>5, <2>2, <3>1
    <2>4. CASE page # <<>> /\ walk.start + Len(page) <= Len(catalogue) /\ Yielded(w, 1)
      <3>1. walk'.at = "suspended" /\ walk'.index = 1 /\ walk'.start = walk.start /\ walk'.page = page
        BY <1>1, <2>4 DEF Yielded, Walks
      <3>2. Len(page) \in Nat
        BY LenProperties
      <3>3. walk'.start + Len(walk'.page) <= N
        BY <1>1, <2>4, <3>1, <3>2
      <3>4. RoomOK'
        BY <1>2, <3>1, <3>3 DEF RoomOK, N
      <3>5. NextsLeft = 2 * (N - walk.start) + 1 /\ NextsLeft' = 2 * (N - walk.start - 1) + 2
        BY <2>2, <3>1 DEF NextsLeft, N
      <3>6. QED
        BY <1>1, <3>4, <3>5
    <2>5. QED
      BY <2>2, <2>3, <2>4
  <1>8. CASE AnswerFails \/ Close
    <2>1. walk.at \in {"request", "suspended"} /\ walk'.at = "ended"
      BY <1>1, <1>8 DEF AnswerFails, Close, End, Walks
    <2>2. QED
      BY <1>5, <2>1
  <1>9. N \in Int /\ walk.start \in Int /\ walk.index \in Int
    BY <1>1
  <1>10. CASE Resume
    <2>1. TypeOK /\ PlaceOK
      BY DEF Inv
    <2> DEFINE w == [walk EXCEPT !.yielded = @ + 1]
    <2> DEFINE next == [w EXCEPT !.start = NextStart(w)]
    <2>2. /\ walk.at = "suspended"
          /\ \/ \E how : SearchEnded(w, how)
             \/ walk.index < Len(walk.page) /\ Yielded(w, walk.index + 1)
             \/ \E how : SearchEnded(next, how)
             \/ walk.index = Len(walk.page) /\ walk' = [next EXCEPT !.at = "request"]
      BY <1>10, <2>1, ResumeCases
    <2>3. CASE \E how : SearchEnded(w, how) \/ SearchEnded(next, how)
      <3>1. walk'.at = "ended"
        BY <1>1, <2>3 DEF SearchEnded, Walks
      <3>2. QED
        BY <1>5, <2>2, <3>1
    <2>4. CASE walk.index < Len(walk.page) /\ Yielded(w, walk.index + 1)
      <3>1. /\ walk'.at = "suspended" /\ walk'.index = walk.index + 1
            /\ walk'.start = walk.start /\ walk'.page = walk.page
        BY <1>1, <2>4 DEF Yielded, Walks
      <3>2. RoomOK'
        BY <1>2, <1>3, <2>2, <3>1 DEF RoomOK, N
      <3>3. /\ NextsLeft = 2 * (N - walk.start - walk.index) + 2
            /\ NextsLeft' = 2 * (N - walk.start - (walk.index + 1)) + 2
        BY <2>2, <3>1 DEF NextsLeft, N
      <3>4. 2 * (N - walk.start - (walk.index + 1)) + 2 < 2 * (N - walk.start - walk.index) + 2
        BY ONLY <1>9
      <3>5. QED
        BY ONLY <3>2, <3>3, <3>4
    <2>5. CASE walk.index = Len(walk.page) /\ walk' = [next EXCEPT !.at = "request"]
      <3>1. walk'.at = "request" /\ walk'.start = walk.start + Len(walk.page)
        BY <1>1, <2>5 DEF Walks, NextStart
      <3>2. RoomOK'
        BY <1>2, <1>3, <2>2, <3>1 DEF RoomOK, N
      <3>3. /\ NextsLeft = 2 * (N - walk.start - walk.index) + 2
            /\ NextsLeft' = 2 * (N - (walk.start + walk.index)) + 1
        BY <2>2, <2>5, <3>1 DEF NextsLeft, N
      <3>4. 2 * (N - (walk.start + walk.index)) + 1 < 2 * (N - walk.start - walk.index) + 2
        BY ONLY <1>9
      <3>5. QED
        BY ONLY <3>2, <3>3, <3>4
    <2>6. QED
      BY <2>2, <2>3, <2>4, <2>5
  <1>11. QED
    BY <1>6, <1>7, <1>8, <1>10 DEF Search

LEMMA CatalogueStep ==
  ASSUME Inv, RoomOK, Add \/ Withdraw \/ Edit \/ UNCHANGED vars
  PROVE  RoomOK' /\ NextsLeft' = NextsLeft
  <1>1. walk' = walk
    BY DEF Add, Withdraw, Edit, Change, vars
  <1>2. IsInjective(catalogue')
    <2>1. IsInjective(catalogue) /\ TypeOK
      BY DEF RoomOK, Inv
    <2>2. CASE Add
      BY <2>1, <2>2, AddKeepsApart
    <2>3. CASE Withdraw
      BY <2>1, <2>3, WithdrawPulls
    <2>4. CASE Edit
      BY <2>1, <2>4, EditKeepsApart
    <2>5. CASE UNCHANGED vars
      BY <2>1, <2>5 DEF vars
    <2>6. QED
      BY <2>2, <2>3, <2>4, <2>5
  <1>3. QED
    BY <1>1, <1>2 DEF RoomOK, NextsLeft

LEMMA NextsAreCounted ==
  ASSUME Inv, RoomOK
  PROVE  /\ NextsLeft \in 0..2 * Cardinality(Datasets) + 2
         /\ (NextsLeft = 0 <=> outcome # "none")
  <1> DEFINE N == Cardinality(Datasets)
  <1>1. /\ walk \in Walks /\ walk.start \in Nat /\ walk.index \in Nat /\ Len(walk.page) \in Nat
        /\ N \in Nat /\ walk.at \in Places
    BY DifferentAreFew, LenProperties DEF Inv, TypeOK, Walks, RoomOK
  <1>2. /\ walk.at = "suspended" => walk.index \in 1..Len(walk.page) /\ walk.start + Len(walk.page) <= N
        /\ walk.at = "request" => walk.start <= N
        /\ walk.at = "ended" <=> outcome # "none"
    BY DEF Inv, PlaceOK, RoomOK
  <1> HIDE DEF N
  <1>3. NextsLeft \in 0..2 * N + 2 /\ (NextsLeft = 0 <=> walk.at = "ended")
    <2>1. CASE walk.at = "new" \/ walk.at = "ended"
      BY <1>1, <2>1 DEF NextsLeft, N
    <2>2. CASE walk.at = "request"
      BY <1>1, <1>2, <2>2 DEF NextsLeft, N
    <2>3. CASE walk.at = "suspended"
      <3>1. NextsLeft = 2 * (N - walk.start - walk.index) + 2
        BY <2>3 DEF NextsLeft, N
      <3>2. walk.index \in 1..Len(walk.page) /\ walk.start + Len(walk.page) <= N /\ walk.at # "ended"
        BY <1>2, <2>3
      <3>3. QED
        BY ONLY <1>1, <3>1, <3>2
    <2>4. QED
      BY <1>1, <2>1, <2>2, <2>3 DEF Places
  <1>4. QED
    BY <1>2, <1>3 DEF N

\* Whatever the server counts, however it pages and however the catalogue changes
\* meanwhile, a search has at most two steps for each dataset there can be, and two
\* more: a stale count cannot make it loop (discovery.py 115-143).
THEOREM SearchIsBounded ==
  Spec => /\ [](/\ NextsLeft \in 0..2 * Cardinality(Datasets) + 2
                /\ (NextsLeft = 0 <=> outcome # "none"))
          /\ [][ComesToAnEnd]_vars
  <1>1. Inv /\ Inv' /\ RoomOK /\ [Next]_vars => RoomOK' /\ [ComesToAnEnd]_vars
    <2> SUFFICES ASSUME Inv, Inv', RoomOK, [Next]_vars PROVE RoomOK' /\ [ComesToAnEnd]_vars
      OBVIOUS
    <2>1. NextsLeft \in Int
      BY NextsAreCounted
    <2>2. CASE Search \/ Close
      <3>1. RoomOK' /\ NextsLeft' < NextsLeft /\ NextsLeft' \in Int
        BY <2>2, GeneratorStep
      <3>2. NextsLeft' <= NextsLeft
        BY ONLY <2>1, <3>1
      <3>3. QED
        BY <3>1, <3>2 DEF ComesToAnEnd
    <2>3. CASE (Add \/ Withdraw \/ Edit \/ UNCHANGED vars) /\ ~(Search \/ Close)
      BY <2>1, <2>3, CatalogueStep DEF ComesToAnEnd
    <2>4. QED
      BY <2>2, <2>3 DEF Next
  <1>2. Inv /\ RoomOK => /\ NextsLeft \in 0..2 * Cardinality(Datasets) + 2
                         /\ (NextsLeft = 0 <=> outcome # "none")
    BY NextsAreCounted
  <1>3. QED
    BY <1>1, <1>2, RoomInit, Invariance, PTL DEF Spec

-----------------------------------------------------------------------------
\* Reading a distribution

\* CKAN has answered with a record whose resource this distribution is.
OfARecord(d) ==
    \E resources \in shown.records : \E r \in ToSet(resources) :
        /\ r.url = d.url /\ NormalizeLicense(r.license) = d.license
        /\ r.csv \/ \A q \in ToSet(resources) : ~q.csv

Resolved(d) ==
    /\ d = Distributed(d.url, d.license, d.source)
    /\ d.source = "ckan" => OfARecord(d)

ReadOK ==
    /\ read.at \in {"idle", "resolve", "download", "parse"}
    /\ read.at # "idle" => {"at", "reader", "locator", "options", "wanted"} \subseteq DOMAIN read
    /\ read.at \in {"download", "parse"} =>
          /\ "distribution" \in DOMAIN read
          /\ Resolved(read.distribution)
          /\ ~OtherLicense(read.reader, read.distribution.license)
    /\ read.at = "parse" =>
          /\ "body" \in DOMAIN read
          /\ <<read.distribution.url, read.body>> \in shown.served

HistoryOK ==
    /\ record \in Records
    /\ shown = [records |-> shown.records, served |-> shown.served]
    /\ \A u \in DOMAIN body : <<u, body[u]>> \in shown.served

RInv == HistoryOK /\ ReadOK /\ LicenceOfTheResourceRead

LEMMA StrippedIsThere ==
  ASSUME NEW license, license # Absent PROVE Strip(license) # Absent
<1>1. CASE license \in {InBlanks(t) : t \in Tables \cup Codes}
  <2>1. PICK t \in Tables \cup Codes : license = InBlanks(t)
    BY <1>1
  <2>2. Strip(license) = t
    BY <1>1, <2>1 DEF Strip, InBlanks
  <2> QED BY <2>2, NamesAreApart
<1>2. CASE license \notin {InBlanks(t) : t \in Tables \cup Codes}
  BY <1>2 DEF Strip
<1> QED BY <1>1, <1>2

\* The resource selected is one of the record, and a CSV if there is one.
LEMMA SelectedIsCsv ==
  ASSUME NEW resources, resources \in Seq(ToSet(resources)), NEW index \in 0..Len(resources) - 1
  PROVE  /\ SelectResource(resources, index) \in ToSet(resources)
         /\ \/ SelectResource(resources, index).csv
            \/ \A q \in ToSet(resources) : ~q.csv
<1> DEFINE csv == {i \in DOMAIN resources : resources[i].csv}
<1>1. DOMAIN resources \subseteq Nat /\ index + 1 \in DOMAIN resources
  OBVIOUS
<1>2. ToSet(resources) = {resources[i] : i \in DOMAIN resources}
  BY DEF ToSet
<1>3. CASE index + 1 \in csv
  BY <1>1, <1>2, <1>3 DEF SelectResource
<1>4. CASE csv = {}
  <2>1. SelectResource(resources, index) = resources[index + 1]
    BY <1>4 DEF SelectResource
  <2>2. \A q \in ToSet(resources) : ~q.csv
    BY <1>2, <1>4
  <2> QED BY <1>1, <1>2, <2>1, <2>2
<1>5. CASE index + 1 \notin csv /\ csv # {}
  <2> DEFINE i == CHOOSE i \in csv : \A j \in csv : i <= j
  <2>1. SelectResource(resources, index) = resources[i]
    BY <1>5 DEF SelectResource
  <2>2. \E k \in csv : \A j \in csv : k <= j
    BY <1>1, <1>5, LeastElement
  <2>3. i \in csv
    BY <2>2
  <2> QED BY <1>2, <2>1, <2>3
<1> QED BY <1>3, <1>4, <1>5

LEMMA InitRInv == ReaderInit => RInv
<1> SUFFICES ASSUME ReaderInit PROVE RInv
  OBVIOUS
<1>1. HistoryOK
  BY DEF ReaderInit, HistoryOK
<1>2. ReadOK
  BY DEF ReaderInit, ReadOK, NoRead
<1>3. LicenceOfTheResourceRead
  BY DEF ReaderInit, LicenceOfTheResourceRead, Ended
<1> QED BY <1>1, <1>2, <1>3 DEF RInv

\* What has been shown stays shown.
MoreShown ==
  /\ shown.records \subseteq shown'.records
  /\ shown.served \subseteq shown'.served

LEMMA StaysOfARecord ==
  ASSUME NEW d, MoreShown, Resolved(d) PROVE Resolved(d)'
BY DEF Resolved, OfARecord, MoreShown

LEMMA ReadStays ==
  ASSUME ReadOK, MoreShown, UNCHANGED read PROVE ReadOK'
<1>1. ASSUME read.at \in {"download", "parse"}
      PROVE  Resolved(read.distribution)'
  <2>1. Resolved(read.distribution)
    BY <1>1 DEF ReadOK
  <2> DEFINE d == read.distribution
  <2> HIDE DEF d
  <2>2. Resolved(d)'
    BY <2>1, StaysOfARecord DEF d
  <2> QED BY <2>2 DEF d
<1> QED BY <1>1 DEF ReadOK, MoreShown

LEMMA TableStays ==
  ASSUME LicenceOfTheResourceRead, MoreShown, UNCHANGED table PROVE LicenceOfTheResourceRead'
BY DEF LicenceOfTheResourceRead, MoreShown

LEMMA FinishKeeps ==
  ASSUME NEW how, how # "loaded", Finish(Ended(how)) PROVE ReadOK' /\ LicenceOfTheResourceRead'
BY DEF Finish, Ended, NoRead, ReadOK, LicenceOfTheResourceRead

LEMMA CallKeeps ==
  ASSUME RInv, NEW reader, NEW access, NEW o, NEW wanted, Call(reader, access, o, wanted)
  PROVE  RInv'
<1>1. HistoryOK'
  BY DEF Call, RInv, HistoryOK
<1>2. CASE Finish(Ended("unclaimed")) \/ Finish(Ended("bad_arguments"))
  BY <1>1, <1>2, FinishKeeps DEF RInv
<1>3. CASE /\ read' = [at |-> "resolve", reader |-> reader,
                       locator |-> LocatorOf(reader, access, o, wanted = {}),
                       options |-> o, wanted |-> wanted]
           /\ table' = Ended("none")
  <2>1. ReadOK'
    BY <1>3 DEF ReadOK
  <2>2. LicenceOfTheResourceRead'
    BY <1>3 DEF LicenceOfTheResourceRead, Ended
  <2> QED BY <1>1, <2>1, <2>2 DEF RInv
<1> QED BY <1>2, <1>3 DEF Call

\* A distribution that is taken is kept until it has been downloaded and parsed.
LEMMA TakeKeeps ==
  ASSUME ReadOK, LicenceOfTheResourceRead, MoreShown, read.at = "resolve", NEW d, Resolved(d)', Take(d)
  PROVE  ReadOK' /\ LicenceOfTheResourceRead'
<1>1. CASE OtherLicense(read.reader, d.license)
  BY <1>1, FinishKeeps DEF Take
<1>2. CASE ~OtherLicense(read.reader, d.license)
  <2>1. /\ read' = [k \in DOMAIN read \cup {"distribution"} |->
                        IF k = "at" THEN "download" ELSE IF k = "distribution" THEN d ELSE read[k]]
        /\ UNCHANGED table
    BY <1>2 DEF Take
  <2>2. {"at", "reader", "locator", "options", "wanted"} \subseteq DOMAIN read
    BY DEF ReadOK
  <2>3. /\ DOMAIN read' = DOMAIN read \cup {"distribution"}
        /\ read'.at = "download" /\ read'.reader = read.reader /\ read'.distribution = d
    BY <2>1, <2>2
  <2>4. ReadOK'
    <3>1. Resolved(read.distribution)'
      BY <2>3 DEF Resolved, OfARecord
    <3>2. ~OtherLicense(read.reader, read.distribution.license)'
      BY <1>2, <2>3 DEF OtherLicense
    <3> QED BY <2>2, <2>3, <3>1, <3>2 DEF ReadOK
  <2> QED BY <2>1, <2>4, TableStays
<1> QED BY <1>1, <1>2

LEMMA ResolveKeeps ==
  ASSUME RInv, Resolve PROVE RInv'
<1> DEFINE loc == read.locator
<1>1. read.at = "resolve" /\ UNCHANGED <<record, body, revisions, reads>>
  BY DEF Resolve
<1>2. CASE shown' = shown /\ (Finish(Ended("http_error")) \/ Finish(Ended("no_resource")))
  BY <1>1, <1>2, FinishKeeps DEF RInv, HistoryOK
<1>3. CASE /\ shown' = shown
           /\ Take(Distributed(loc.distribution_url, Absent,
                               IF read.reader = "DestatisReader" THEN "genesis" ELSE "url"))
  <2>0. PICK d : d = Distributed(loc.distribution_url, Absent,
                                 IF read.reader = "DestatisReader" THEN "genesis" ELSE "url")
    OBVIOUS
  <2>1. d = Distributed(d.url, d.license, d.source) /\ d.source # "ckan"
    BY <2>0 DEF Distributed
  <2>2. Resolved(d)'
    BY <2>1 DEF Resolved
  <2>3. MoreShown
    BY <1>3 DEF MoreShown
  <2>4. Take(d)
    BY <1>3, <2>0
  <2>5. ReadOK' /\ LicenceOfTheResourceRead'
    BY <1>1, <2>2, <2>3, <2>4, TakeKeeps DEF RInv
  <2> QED BY <1>1, <1>3, <2>5 DEF RInv, HistoryOK
<1>4. CASE /\ loc.resource_index \in 0..Len(record) - 1
           /\ shown' = [shown EXCEPT !.records = @ \cup {record}]
           /\ Take(FoundIn(record, loc.resource_index))
  <2> DEFINE s == SelectResource(record, loc.resource_index)
  <2>0. PICK r, d : r = s /\ d = FoundIn(record, loc.resource_index)
    OBVIOUS
  <2>1. /\ shown'.records = shown.records \cup {record} /\ shown'.served = shown.served
        /\ shown' = [records |-> shown'.records, served |-> shown'.served]
    BY <1>4 DEF RInv, HistoryOK
  <2>2. HistoryOK'
    BY <1>1, <2>1 DEF RInv, HistoryOK
  <2>3. record \in Seq(ToSet(record))
    BY RecordsAreLists DEF RInv, HistoryOK, IsList
  <2>4. r \in ToSet(record) /\ (r.csv \/ \A q \in ToSet(record) : ~q.csv)
    BY <1>4, <2>0, <2>3, SelectedIsCsv
  <2>5. d.url = r.url /\ d.license = NormalizeLicense(r.license) /\ d = Distributed(d.url, d.license, d.source)
    BY <2>0 DEF FoundIn, Distributed
  <2>6. Take(d)
    BY <1>4, <2>0
  <2> HIDE DEF s
  <2>7. OfARecord(d)'
    <3>1. record \in shown'.records
      BY <2>1
    <3> QED BY <2>4, <2>5, <3>1 DEF OfARecord
  <2>8. Resolved(d)'
    BY <2>5, <2>7 DEF Resolved
  <2>9. MoreShown
    BY <2>1 DEF MoreShown
  <2>10. ReadOK' /\ LicenceOfTheResourceRead'
    BY <1>1, <2>6, <2>8, <2>9, TakeKeeps DEF RInv
  <2> QED BY <2>2, <2>10 DEF RInv
<1> QED BY <1>2, <1>3, <1>4 DEF Resolve

LEMMA DownloadKeeps ==
  ASSUME RInv, Download PROVE RInv'
<1>1. read.at = "download" /\ UNCHANGED <<record, body, shown, revisions, reads>>
  BY DEF Download
<1>2. HistoryOK'
  BY <1>1 DEF RInv, HistoryOK
<1>3. CASE Finish(Ended("http_error"))
  BY <1>2, <1>3, FinishKeeps DEF RInv
<1>4. CASE /\ read.distribution.url \in DOMAIN body
           /\ read' = [k \in DOMAIN read \cup {"body"} |->
                         IF k = "at" THEN "parse" ELSE IF k = "body" THEN body[read.distribution.url] ELSE read[k]]
           /\ UNCHANGED table
  <2>1. {"at", "reader", "locator", "options", "wanted", "distribution"} \subseteq DOMAIN read
    BY <1>1 DEF RInv, ReadOK
  <2>2. /\ DOMAIN read' = DOMAIN read \cup {"body"} /\ read'.at = "parse"
        /\ read'.reader = read.reader /\ read'.distribution = read.distribution
        /\ read'.body = body[read.distribution.url]
    BY <1>4, <2>1
  <2>3. Resolved(read.distribution)'
    BY <1>1, <2>2 DEF RInv, ReadOK, Resolved, OfARecord
  <2>4. ~OtherLicense(read.reader, read.distribution.license)'
    BY <1>1, <2>2 DEF RInv, ReadOK, OtherLicense
  <2>5. <<read'.distribution.url, read'.body>> \in shown'.served
    BY <1>1, <1>4, <2>2 DEF RInv, HistoryOK
  <2>6. ReadOK'
    BY <2>1, <2>2, <2>3, <2>4, <2>5 DEF ReadOK
  <2>7. LicenceOfTheResourceRead'
    BY <1>1, <1>4 DEF RInv, LicenceOfTheResourceRead
  <2> QED BY <1>2, <2>6, <2>7 DEF RInv
<1> QED BY <1>3, <1>4 DEF Download

\* What is reported of a distribution that was resolved.
LEMMA ReportedAsFound ==
  ASSUME NEW d, NEW reader, Resolved(d), ~OtherLicense(reader, d.license)
  PROVE  LET p == Provenance(d, reader)
         IN /\ p.url = d.url
            /\ License(reader) \in {Absent, p.license}
            /\ p.source = "ckan" =>
                  \E resources \in shown.records : \E r \in ToSet(resources) :
                      /\ r.url = p.url
                      /\ r.license # Absent => Strip(r.license) = p.license
                      /\ r.license = Absent => p.license = License(reader)
                      /\ r.csv \/ \A q \in ToSet(resources) : ~q.csv
<1> DEFINE p == Provenance(d, reader)
<1>1. /\ p.url = d.url /\ p.source = d.source
      /\ p.license = IF d.license = Absent THEN License(reader) ELSE d.license
  BY DEF Provenance, Resolved, Distributed
<1> HIDE DEF p
<1>2. License(reader) \in {Absent, p.license}
  BY <1>1 DEF OtherLicense
<1>3. ASSUME p.source = "ckan"
      PROVE  \E resources \in shown.records : \E r \in ToSet(resources) :
                /\ r.url = p.url
                /\ r.license # Absent => Strip(r.license) = p.license
                /\ r.license = Absent => p.license = License(reader)
                /\ r.csv \/ \A q \in ToSet(resources) : ~q.csv
  <2>1. PICK resources \in shown.records : \E r \in ToSet(resources) :
            /\ r.url = d.url /\ NormalizeLicense(r.license) = d.license
            /\ r.csv \/ \A q \in ToSet(resources) : ~q.csv
    BY <1>1, <1>3 DEF Resolved, OfARecord
  <2>2. PICK r \in ToSet(resources) :
            /\ r.url = d.url /\ NormalizeLicense(r.license) = d.license
            /\ r.csv \/ \A q \in ToSet(resources) : ~q.csv
    BY <2>1
  <2>3. r.license # Absent => Strip(r.license) = p.license
    BY <1>1, <2>2, StrippedIsThere DEF NormalizeLicense
  <2>4. r.license = Absent => p.license = License(reader)
    BY <1>1, <2>2 DEF NormalizeLicense
  <2> QED BY <1>1, <2>2, <2>3, <2>4
<1> QED BY <1>1, <1>2, <1>3 DEF p

LEMMA TypedTableEnds ==
  ASSUME NEW cells, NEW spec PROVE TypedTable(cells, spec).ended # "loaded"
BY DEF TypedTable, NoTable

LEMMA ReadCsvEnds ==
  ASSUME NEW rows PROVE ReadCsv(rows).ended # "loaded"
BY Zenon DEF ReadCsv, NoTable

LEMMA GermanCsvEnds ==
  ASSUME NEW csv, NEW schema PROVE ParseGermanCsv(csv, schema).ended # "loaded"
BY ReadCsvEnds, TypedTableEnds, Zenon DEF ParseGermanCsv

LEMMA MultiHeaderCsvEnds ==
  ASSUME NEW csv, NEW g PROVE ParseMultiHeaderCsv(csv, g).ended # "loaded"
<1>1. NoTable("no_header").ended # "loaded" /\ NoTable("no_column").ended # "loaded"
  BY DEF NoTable
<1> QED BY <1>1, TypedTableEnds, Zenon DEF ParseMultiHeaderCsv

LEMMA UbaMeasuresEnds ==
  ASSUME NEW reply PROVE ParseUbaMeasures(reply).ended # "loaded"
BY DEF ParseUbaMeasures

LEMMA FfcsvEnds ==
  ASSUME NEW csv PROVE ParseFfcsv(csv).ended # "loaded"
<1>1. \A why \in {"layout", "no_time", "blank_value"} : NoTable(why).ended # "loaded"
  BY DEF NoTable
<1>2. ASSUME NEW t, t.ended # "loaded", NEW more PROVE [t EXCEPT !.columns = more].ended # "loaded"
  BY <1>2
<1> QED BY <1>1, <1>2, ReadCsvEnds, TypedTableEnds, Zenon DEF ParseFfcsv

LEMMA FfcsvZipEnds ==
  ASSUME NEW reply PROVE ParseFfcsvZip(reply).ended # "loaded"
<1>1. ExtractFfcsvCsv(reply).ended # "loaded"
  BY DEF ExtractFfcsvCsv, NoTable
<1> QED BY <1>1, FfcsvEnds DEF ParseFfcsvZip

\* No parser ends a read as a table does.
LEMMA ParsersEnd ==
  ASSUME NEW reader, NEW o, NEW b PROVE ParseBody(reader, o, b).ended # "loaded"
<1>1. NoTable("other").ended # "loaded"
  BY DEF NoTable
<1> QED BY <1>1, GermanCsvEnds, MultiHeaderCsvEnds, UbaMeasuresEnds, FfcsvZipEnds DEF ParseBody

LEMMA ParseKeeps ==
  ASSUME RInv, Parse PROVE RInv'
<1>1. read.at = "parse" /\ UNCHANGED <<record, body, shown, revisions, reads>>
  BY DEF Parse
<1>2. HistoryOK'
  BY <1>1 DEF RInv, HistoryOK
<1>3. ASSUME NEW how, how # "loaded", Finish(Ended(how)) PROVE RInv'
  BY <1>2, <1>3, FinishKeeps DEF RInv
<1>4. ASSUME NEW columns,
             Finish([ended |-> "loaded", reader |-> read.reader, columns |-> columns,
                     provenance |-> Provenance(read.distribution, read.reader), body |-> read.body,
                     options |-> read.options])
      PROVE  RInv'
  <2>1. /\ read' = NoRead /\ table'.ended = "loaded"
        /\ table'.reader = read.reader /\ table'.body = read.body
        /\ table'.provenance = Provenance(read.distribution, read.reader)
    BY <1>4 DEF Finish
  <2>2. ReadOK'
    BY <2>1 DEF ReadOK, NoRead
  <2>3. PICK d, reader, p :
          d = read.distribution /\ reader = read.reader /\ p = Provenance(d, reader)
    OBVIOUS
  <2>4. Resolved(d) /\ ~OtherLicense(reader, d.license) /\ <<d.url, read.body>> \in shown.served
    BY <1>1, <2>3 DEF RInv, ReadOK
  <2>5. /\ p.url = d.url
        /\ License(reader) \in {Absent, p.license}
        /\ p.source = "ckan" =>
              \E resources \in shown.records : \E r \in ToSet(resources) :
                  /\ r.url = p.url
                  /\ r.license # Absent => Strip(r.license) = p.license
                  /\ r.license = Absent => p.license = License(reader)
                  /\ r.csv \/ \A q \in ToSet(resources) : ~q.csv
    BY <2>3, <2>4, ReportedAsFound
  <2>6. table'.provenance = p /\ table'.reader = reader /\ <<p.url, table'.body>> \in shown'.served
    BY <1>1, <2>1, <2>3, <2>4, <2>5
  <2>7. LicenceOfTheResourceRead'
    BY <1>1, <2>5, <2>6 DEF LicenceOfTheResourceRead
  <2> QED BY <1>2, <2>2, <2>7 DEF RInv
<1>5. PICK t : t = ParseBody(read.reader, read.options, Content[read.body])
  OBVIOUS
<1>6. \/ Finish(Ended(t.ended)) \/ Finish(Ended("unknown_feature"))
      \/ \E columns :
            Finish([ended |-> "loaded", reader |-> read.reader, columns |-> columns,
                    provenance |-> Provenance(read.distribution, read.reader), body |-> read.body,
                    options |-> read.options])
  BY <1>5 DEF Parse
<1>7. t.ended # "loaded"
  BY <1>5, ParsersEnd
<1> QED BY <1>3, <1>4, <1>6, <1>7

LEMMA RepublishKeeps ==
  ASSUME RInv, Republish PROVE RInv'
<1>1. MoreShown /\ HistoryOK'
  BY DEF Republish, RInv, HistoryOK, MoreShown
<1> QED BY <1>1, ReadStays, TableStays DEF Republish, RInv

LEMMA ReviseKeeps ==
  ASSUME RInv, Revise PROVE RInv'
<1>1. PICK u \in DOMAIN body, b \in DOMAIN Content :
          /\ body' = [body EXCEPT ![u] = b]
          /\ shown' = [shown EXCEPT !.served = @ \cup {<<u, b>>}]
  BY DEF Revise
<1>2. /\ shown'.records = shown.records /\ shown'.served = shown.served \cup {<<u, b>>}
      /\ shown' = [records |-> shown'.records, served |-> shown'.served]
  BY <1>1 DEF RInv, HistoryOK
<1>3. \A v \in DOMAIN body' : v \in DOMAIN body /\ body'[v] = IF v = u THEN b ELSE body[v]
  BY <1>1
<1>4. MoreShown /\ HistoryOK'
  BY <1>2, <1>3 DEF Revise, RInv, HistoryOK, MoreShown
<1> QED BY <1>4, ReadStays, TableStays DEF Revise, RInv

LEMMA StepKeepsRInv ==
  ASSUME RInv, [ReaderNext]_readerVars PROVE RInv'
<1>1. CASE ReaderNext
  BY <1>1, CallKeeps, ResolveKeeps, DownloadKeeps, ParseKeeps, RepublishKeeps, ReviseKeeps DEF ReaderNext
<1>2. CASE UNCHANGED readerVars
  <2>1. MoreShown /\ HistoryOK'
    BY <1>2 DEF readerVars, RInv, HistoryOK, MoreShown
  <2> QED BY <1>2, <2>1, ReadStays, TableStays DEF readerVars, RInv
<1> QED BY <1>1, <1>2

\* The inductive invariant: from the moment a distribution is taken to the moment it is
\* parsed, it is a resource of a record that was shown and the reader may read it.
THEOREM ReaderInvariance == ReaderSpec => []RInv
  BY InitRInv, StepKeepsRInv, PTL DEF ReaderSpec

\* For any records, files and readers, and however often the publisher edits the record and
\* revises the files between the steps of a read: a table is of one resource, read from
\* what its URL has served, under the license that resource had in a record CKAN answered
\* with and that its reader declares (reader.py:_fetch, discovery.py:_select_resource).
THEOREM TablesHaveTheirLicence == ReaderSpec => []LicenceOfTheResourceRead
  BY ReaderInvariance, PTL DEF RInv

-----------------------------------------------------------------------------
\* Measures under their names

\* Two sequences of sequences that go together element by element do so when flattened.
LEMMA FlatteningPairs ==
  ASSUME NEW A, NEW B, NEW R, NEW a \in Seq(Seq(A)), NEW b \in Seq(Seq(B)), Len(a) = Len(b),
         \A i \in 1..Len(a) : /\ Len(a[i]) = Len(b[i])
                              /\ \A j \in 1..Len(a[i]) : <<a[i][j], b[i][j]>> \in R
  PROVE  /\ FlattenSeq(a) \in Seq(A) /\ FlattenSeq(b) \in Seq(B)
         /\ Len(FlattenSeq(a)) = Len(FlattenSeq(b))
         /\ \A n \in 1..Len(FlattenSeq(a)) : <<FlattenSeq(a)[n], FlattenSeq(b)[n]>> \in R
<1> DEFINE N == Len(a)
           Pair(s, t) == /\ s \in Seq(A) /\ t \in Seq(B) /\ Len(s) = Len(t)
                         /\ \A n \in 1..Len(s) : <<s[n], t[n]>> \in R
<1>1. N \in Nat
  OBVIOUS
<1>2. \A i \in 1..N : Pair(a[i], b[i])
  OBVIOUS
<1>3. CASE N = 0
  <2>1. FlattenSeq(a) = << >> /\ FlattenSeq(b) = << >>
    <3>1. Len(a) = 0 /\ Len(b) = 0
      BY <1>3
    <3>2. a = << >> /\ b = << >>
      BY <3>1
    <3> QED BY <3>1, <3>2 DEF FlattenSeq
  <2> QED BY <2>1
<1>4. CASE N # 0
  <2> DEFINE g == CHOOSE g : FlattensTo(a, N, g)
             h == CHOOSE h : FlattensTo(b, N, h)
  <2>1. FlattensTo(a, N, g) /\ FlattensTo(b, N, h)
    BY <1>1, FlattenedOnce
  <2>2. FlattenSeq(a) = g[N]
    BY <1>4 DEF FlattenSeq, FlattensTo
  <2>3. FlattenSeq(b) = h[N]
    BY <1>4 DEF FlattenSeq, FlattensTo
  <2> HIDE DEF g, h, Pair
  <2> DEFINE S == {k \in Nat : k \in 1..N => Pair(g[k], h[k])}
  <2>4. 0 \in S
    OBVIOUS
  <2>5. ASSUME NEW k \in S, k < N PROVE k + 1 \in S
    <3>1. k \in Nat /\ k + 1 \in 1..N
      BY <1>1, <2>5
    <3>2. CASE k = 0
      <4>1. g[1] = a[1] /\ h[1] = b[1]
        BY <2>1, <3>1, <3>2 DEF FlattensTo
      <4> QED BY <1>2, <3>1, <3>2, <4>1
    <3>3. CASE k # 0
      <4>1. k \in 1..N /\ k + 1 # 1 /\ (k + 1) - 1 = k
        BY <3>1, <3>3
      <4>2. g[k + 1] = g[k] \o a[k + 1] /\ h[k + 1] = h[k] \o b[k + 1]
        <5>1. g[k + 1] = g[(k + 1) - 1] \o a[k + 1] /\ h[k + 1] = h[(k + 1) - 1] \o b[k + 1]
          BY <2>1, <3>1, <4>1 DEF FlattensTo
        <5> QED BY <4>1, <5>1
      <4>3. Pair(g[k], h[k]) /\ Pair(a[k + 1], b[k + 1])
        BY <1>2, <3>1, <4>1
      <4>4. ASSUME NEW s, NEW t, NEW u, NEW v, Pair(s, t), Pair(u, v) PROVE Pair(s \o u, t \o v)
        <5>1. /\ s \in Seq(A) /\ u \in Seq(A) /\ t \in Seq(B) /\ v \in Seq(B)
              /\ Len(s) = Len(t) /\ Len(u) = Len(v)
          BY <4>4 DEF Pair
        <5>2. s \o u \in Seq(A) /\ Len(s \o u) = Len(s) + Len(u)
          BY <5>1, ConcatProperties
        <5>2a. t \o v \in Seq(B) /\ Len(t \o v) = Len(s) + Len(u)
          <6>1. t \o v \in Seq(B) /\ Len(t \o v) = Len(t) + Len(v)
            BY <5>1, ConcatProperties
          <6> QED BY <5>1, <6>1
        <5>2b. Len(s) \in Nat /\ Len(u) \in Nat
          BY <5>1
        <5>3. ASSUME NEW n \in 1..Len(s) + Len(u) PROVE <<(s \o u)[n], (t \o v)[n]>> \in R
          <6>1. CASE n <= Len(s)
            <7>1. (s \o u)[n] = s[n] /\ (t \o v)[n] = t[n] /\ n \in 1..Len(s)
              BY <5>1, <6>1
            <7> QED BY <4>4, <7>1 DEF Pair
          <6>2. CASE n > Len(s)
            <7>1. /\ (s \o u)[n] = u[n - Len(s)] /\ (t \o v)[n] = v[n - Len(s)]
                  /\ n - Len(s) \in 1..Len(u)
              BY <5>1, <6>2
            <7> QED BY <4>4, <7>1 DEF Pair
          <6>3. n <= Len(s) \/ n > Len(s)
            BY <5>2b
          <6> QED BY <6>1, <6>2, <6>3, Zenon
        <5> QED BY <5>2, <5>2a, <5>3 DEF Pair
      <4>5. Pair(g[k + 1], h[k + 1])
        BY <4>2, <4>3, <4>4
      <4> QED BY <3>1, <4>5
    <3> QED BY <3>2, <3>3
  <2> HIDE DEF S
  <2>6. N \in S
    <3>1. S \in SUBSET Nat
      BY DEF S
    <3> QED BY <1>1, <2>4, <2>5, <3>1, FromZeroOn
  <2>7. Pair(g[N], h[N])
    BY <1>1, <1>4, <2>6 DEF S
  <2> QED BY <2>2, <2>3, <2>7 DEF Pair
<1> QED BY <1>3, <1>4

\* t is x, y and then s.
IsTwoThenMore(t, x, y, s) ==
    /\ DOMAIN t = 1..Len(s) + 2
    /\ t[1] = x /\ t[2] = y
    /\ \A i \in 1..Len(s) : t[i + 2] = s[i]

LEMMA TwoThenMore ==
  ASSUME NEW T, NEW x, NEW y, NEW s \in Seq(T) PROVE IsTwoThenMore(<<x, y>> \o s, x, y, s)
<1> DEFINE U == T \cup {x, y}
<1>1. PICK two : two = <<x, y>>
  OBVIOUS
<1>2. two \in Seq(U) /\ Len(two) = 2 /\ two[1] = x /\ two[2] = y
  BY <1>1
<1>3. s \in Seq(U) /\ Len(s) \in Nat
  OBVIOUS
<1> HIDE DEF U
<1>4. two \o s \in Seq(U) /\ Len(two \o s) = Len(two) + Len(s)
  BY <1>2, <1>3, ConcatProperties
<1>4a. \A i \in 1..Len(two) + Len(s) : (two \o s)[i] = IF i <= Len(two) THEN two[i] ELSE s[i - Len(two)]
  BY <1>2, <1>3, ConcatProperties
<1>5. DOMAIN (two \o s) = 1..Len(s) + 2
  BY <1>2, <1>3, <1>4
<1>6. (two \o s)[1] = x /\ (two \o s)[2] = y
  <2>1. 1 \in 1..Len(two) + Len(s) /\ 1 <= Len(two) /\ 2 \in 1..Len(two) + Len(s) /\ 2 <= Len(two)
    BY <1>2, <1>3
  <2>2. (two \o s)[1] = two[1]
    BY <1>4a, <2>1
  <2>3. (two \o s)[2] = two[2]
    BY <1>4a, <2>1
  <2> QED BY <1>2, <2>2, <2>3
<1>7. ASSUME NEW i \in 1..Len(s) PROVE (two \o s)[i + 2] = s[i]
  <2>1. i + 2 \in 1..Len(two) + Len(s) /\ ~(i + 2 <= Len(two)) /\ (i + 2) - Len(two) = i
    BY <1>2, <1>3
  <2>2. (two \o s)[i + 2] = s[(i + 2) - Len(two)]
    BY <1>4a, <2>1
  <2> QED BY <2>1, <2>2
<1> QED BY <1>1, <1>5, <1>6, <1>7 DEF IsTwoThenMore

LEMMA LeafNames ==
  /\ LeafFields[1] = "component_id" /\ LeafFields[2] = "scope_id" /\ LeafFields[3] = "value"
  /\ LeafFields[4] = "date_end" /\ LeafFields[5] = "index"
BY DEF LeafFields

LEMMA LeafIsASequence ==
  LeafFields \in Seq(ToSet(LeafFields)) /\ Len(LeafFields) = 5 /\ DOMAIN LeafFields = 1..5
<1>1. Len(LeafFields) = 5 /\ DOMAIN LeafFields = 1..5 /\ LeafFields = [i \in DOMAIN LeafFields |-> LeafFields[i]]
  BY DEF LeafFields
<1>2. LeafFields \in [1..5 -> ToSet(LeafFields)]
  BY <1>1 DEF ToSet
<1>3. LeafFields \in Seq(ToSet(LeafFields))
  BY <1>2, IsASequence
<1> QED BY <1>1, <1>3, Zenon

LEMMA ColumnsInOrder ==
  /\ DOMAIN MeasureColumns = 1..7
  /\ MeasureColumns[1] = "station_id" /\ MeasureColumns[2] = "date_start"
  /\ \A i \in 1..5 : MeasureColumns[i + 2] = LeafFields[i]
<1> DEFINE T == ToSet(LeafFields)
           L == LeafFields
<1>1. L \in Seq(T) /\ Len(L) = 5 /\ MeasureColumns = <<"station_id", "date_start">> \o L
  BY LeafIsASequence DEF MeasureColumns
<1> HIDE DEF T, L
<1>2. IsTwoThenMore(MeasureColumns, "station_id", "date_start", L)
  BY <1>1, TwoThenMore
<1>3. DOMAIN MeasureColumns = 1..7
  BY <1>1, <1>2 DEF IsTwoThenMore
<1>4. \A i \in 1..5 : MeasureColumns[i + 2] = L[i]
  BY <1>1, <1>2 DEF IsTwoThenMore
<1>5. MeasureColumns[1] = "station_id" /\ MeasureColumns[2] = "date_start"
  BY <1>2 DEF IsTwoThenMore
<1> QED BY <1>3, <1>4, <1>5 DEF L

\* The cells of a row are those of its hour, each under its name.
LEMMA RowOfAnHour ==
  ASSUME NEW id, NEW hour, NEW k \in 1..7
  PROVE  (<<id, hour.start>> \o [i \in DOMAIN LeafFields |-> IF i \in DOMAIN hour.leaf THEN hour.leaf[i] ELSE NoCell])[k]
            = Measured(LeafFields, MeasureColumns[k], <<id, hour>>)
<1> DEFINE Leaf(i) == IF i \in DOMAIN hour.leaf THEN hour.leaf[i] ELSE NoCell
           leaf == [i \in DOMAIN LeafFields |-> Leaf(i)]
           T == {Leaf(i) : i \in 1..5}
           row == <<id, hour.start>> \o leaf
<1>1. leaf \in [1..5 -> T]
  BY LeafIsASequence
<1>1a. \A i \in 1..5 : leaf[i] = Leaf(i)
  BY LeafIsASequence
<1> HIDE DEF T, leaf
<1>2. leaf \in Seq(T) /\ Len(leaf) = 5
  <2>1. leaf \in Seq(T)
    BY <1>1, IsASequence
  <2> QED BY <1>1, <2>1
<1>3. IsTwoThenMore(row, id, hour.start, leaf)
  BY <1>2, TwoThenMore
<1> HIDE DEF row
<1>4. CASE k = 1
  <2>1. Measured(LeafFields, "station_id", <<id, hour>>) = id
    BY DEF Measured
  <2> QED BY <1>3, <1>4, <2>1, ColumnsInOrder DEF IsTwoThenMore, row, leaf
<1>5. CASE k = 2
  <2>1. Measured(LeafFields, "date_start", <<id, hour>>) = hour.start
    BY DEF Measured
  <2> QED BY <1>3, <1>5, <2>1, ColumnsInOrder DEF IsTwoThenMore, row, leaf
<1>6. ASSUME NEW i \in 1..5, k = i + 2 PROVE row[k] = Measured(LeafFields, MeasureColumns[k], <<id, hour>>)
  <2>1. PICK c : c = LeafFields[i]
    OBVIOUS
  <2>2. c \notin {"station_id", "date_start"} /\ \A j \in 1..5 : LeafFields[j] = c => j = i
    <3>1. i = 1 \/ i = 2 \/ i = 3 \/ i = 4 \/ i = 5
      OBVIOUS
    <3>2. \A j \in 1..5 : j = 1 \/ j = 2 \/ j = 3 \/ j = 4 \/ j = 5
      OBVIOUS
    <3> QED BY <2>1, <3>1, <3>2, LeafNames
  <2>3. Measured(LeafFields, c, <<id, hour>>) = FieldOf(LeafFields, c, hour.leaf)
    BY <2>2 DEF Measured
  <2>4. {j \in DOMAIN LeafFields : LeafFields[j] = c} = {i}
    BY <2>1, <2>2, LeafIsASequence
  <2>5. FieldOf(LeafFields, c, hour.leaf) = Leaf(i)
    BY <2>4 DEF FieldOf
  <2>6. row[k] = Leaf(i) /\ MeasureColumns[k] = c
    BY <1>1a, <1>2, <1>3, <1>6, <2>1, ColumnsInOrder DEF IsTwoThenMore
  <2> QED BY <2>3, <2>5, <2>6
<1>7. k = 1 \/ k = 2 \/ \E i \in 1..5 : k = i + 2
  <2>1. k > 2 => k - 2 \in 1..5 /\ k = (k - 2) + 2
    OBVIOUS
  <2> QED BY <2>1
<1> QED BY <1>4, <1>5, <1>6, <1>7 DEF row, leaf

\* A function over the places of a list is a list as long.
LEMMA ListLike ==
  ASSUME NEW l, IsList(l), NEW f, DOMAIN f = DOMAIN l, f = [i \in DOMAIN f |-> f[i]]
  PROVE  f \in Seq(ToSet(f)) /\ Len(f) = Len(l)
<1>1. Len(l) \in Nat /\ DOMAIN l = 1..Len(l)
  BY DEF IsList
<1>2. f \in [1..Len(l) -> ToSet(f)]
  BY <1>1 DEF ToSet
<1>3. f \in Seq(ToSet(f))
  BY <1>1, <1>2, IsASequence
<1>4. Len(f) = Len(l)
  BY <1>1, <1>2
<1> QED BY <1>3, <1>4

LEMMA ListOfLists ==
  ASSUME NEW l, IsList(l), NEW a, DOMAIN a = DOMAIN l, a = [i \in DOMAIN a |-> a[i]],
         \A i \in DOMAIN a : a[i] \in Seq(ToSet(a[i]))
  PROVE  a \in Seq(Seq(UNION {ToSet(a[i]) : i \in DOMAIN a})) /\ Len(a) = Len(l)
<1> DEFINE T == UNION {ToSet(a[i]) : i \in DOMAIN a}
<1>1. Len(l) \in Nat /\ DOMAIN l = 1..Len(l)
  BY DEF IsList
<1>2. ASSUME NEW i \in DOMAIN a PROVE a[i] \in Seq(T)
  <2>1. PICK e, S : e = a[i] /\ S = ToSet(a[i])
    OBVIOUS
  <2>2. e \in Seq(S) /\ S \subseteq T
    BY <2>1
  <2> HIDE DEF T
  <2> QED BY <2>1, <2>2, SeqMonotonic
<1> HIDE DEF T
<1>3. a \in [1..Len(l) -> Seq(T)]
  BY <1>1, <1>2
<1>4. a \in Seq(Seq(T))
  BY <1>1, <1>3, IsASequence
<1>5. Len(a) = Len(l)
  BY <1>1, <1>3
<1> QED BY <1>4, <1>5 DEF T

StationsAreLists(reply) ==
    IsList(reply.stations) /\ \A s \in DOMAIN reply.stations : IsList(reply.stations[s].hours)

\* There is a row for every hour, in the same order, and the cells are the hour's.
LEMMA RowsOfHours ==
  ASSUME NEW reply, StationsAreLists(reply)
  PROVE  /\ DOMAIN Flattened(reply) = DOMAIN Hours(reply)
         /\ \A r \in DOMAIN Flattened(reply) : \A k \in 1..7 :
               Flattened(reply)[r][k] = Measured(LeafFields, MeasureColumns[k], Hours(reply)[r])
<1> DEFINE S == reply.stations
           Row(s, h) == <<S[s].id, S[s].hours[h].start>>
                        \o [i \in DOMAIN LeafFields |-> IF i \in DOMAIN S[s].hours[h].leaf
                                                      THEN S[s].hours[h].leaf[i] ELSE NoCell]
           Hour(s, h) == <<S[s].id, S[s].hours[h]>>
           a == [s \in DOMAIN S |-> [h \in DOMAIN S[s].hours |-> Row(s, h)]]
           b == [s \in DOMAIN S |-> [h \in DOMAIN S[s].hours |-> Hour(s, h)]]
           A == UNION {ToSet(a[s]) : s \in DOMAIN a}
           B == UNION {ToSet(b[s]) : s \in DOMAIN b}
           R == {p \in A \X B : \A k \in 1..7 : p[1][k] = Measured(LeafFields, MeasureColumns[k], p[2])}
<1>1. Flattened(reply) = FlattenSeq(a) /\ Hours(reply) = FlattenSeq(b)
  BY DEF Flattened, Hours
<1>2. ASSUME NEW s \in DOMAIN S, NEW h \in DOMAIN S[s].hours, NEW k \in 1..7
      PROVE  Row(s, h)[k] = Measured(LeafFields, MeasureColumns[k], Hour(s, h))
  BY RowOfAnHour
<1> HIDE DEF Row, Hour
<1>3. IsList(S) /\ \A s \in DOMAIN S : IsList(S[s].hours)
  BY DEF StationsAreLists
<1>4. ASSUME NEW s \in DOMAIN S
      PROVE  /\ a[s] \in Seq(ToSet(a[s])) /\ Len(a[s]) = Len(S[s].hours)
             /\ DOMAIN a[s] = DOMAIN S[s].hours /\ \A h \in DOMAIN a[s] : a[s][h] = Row(s, h)
  <2>1. PICK e : e = a[s]
    OBVIOUS
  <2>2. e = [h \in DOMAIN e |-> e[h]] /\ DOMAIN e = DOMAIN S[s].hours /\ \A h \in DOMAIN e : e[h] = Row(s, h)
    BY <2>1
  <2>3. e \in Seq(ToSet(e)) /\ Len(e) = Len(S[s].hours)
    BY <1>3, <2>2, ListLike
  <2> HIDE DEF a
  <2> QED BY <2>1, <2>2, <2>3
<1>5. ASSUME NEW s \in DOMAIN S
      PROVE  /\ b[s] \in Seq(ToSet(b[s])) /\ Len(b[s]) = Len(S[s].hours)
             /\ DOMAIN b[s] = DOMAIN S[s].hours /\ \A h \in DOMAIN b[s] : b[s][h] = Hour(s, h)
  <2>1. PICK e : e = b[s]
    OBVIOUS
  <2>2. e = [h \in DOMAIN e |-> e[h]] /\ DOMAIN e = DOMAIN S[s].hours /\ \A h \in DOMAIN e : e[h] = Hour(s, h)
    BY <2>1
  <2>3. e \in Seq(ToSet(e)) /\ Len(e) = Len(S[s].hours)
    BY <1>3, <2>2, ListLike
  <2> HIDE DEF b
  <2> QED BY <2>1, <2>2, <2>3
<1>6. /\ DOMAIN a = DOMAIN S /\ a = [s \in DOMAIN a |-> a[s]]
      /\ DOMAIN b = DOMAIN S /\ b = [s \in DOMAIN b |-> b[s]]
  OBVIOUS
<1> HIDE DEF a, b, S
<1>7. a \in Seq(Seq(A)) /\ Len(a) = Len(S)
  BY <1>3, <1>4, <1>6, ListOfLists
<1>8. b \in Seq(Seq(B)) /\ Len(b) = Len(S)
  BY <1>3, <1>5, <1>6, ListOfLists
<1>9. ASSUME NEW s \in DOMAIN S, NEW h \in DOMAIN S[s].hours PROVE <<a[s][h], b[s][h]>> \in R
  <2>1. a[s][h] = Row(s, h) /\ b[s][h] = Hour(s, h)
    BY <1>4, <1>5
  <2>2. a[s][h] \in A /\ b[s][h] \in B
    <3>1. h \in DOMAIN a[s] /\ h \in DOMAIN b[s] /\ s \in DOMAIN a /\ s \in DOMAIN b
      BY <1>4, <1>5, <1>6
    <3>2. a[s][h] \in ToSet(a[s]) /\ b[s][h] \in ToSet(b[s])
      BY <3>1, Zenon DEF ToSet
    <3> QED BY <3>1, <3>2
  <2> HIDE DEF A, B
  <2> QED BY <1>2, <2>1, <2>2
<1> HIDE DEF A, B, R
<1>10. ASSUME NEW s \in 1..Len(a)
       PROVE  Len(a[s]) = Len(b[s]) /\ \A h \in 1..Len(a[s]) : <<a[s][h], b[s][h]>> \in R
  <2>1. s \in DOMAIN S
    BY <1>3, <1>7 DEF IsList
  <2>2. 1..Len(a[s]) = DOMAIN S[s].hours
    BY <1>3, <1>4, <2>1 DEF IsList
  <2> QED BY <1>4, <1>5, <1>9, <2>1, <2>2
<1>11. /\ FlattenSeq(a) \in Seq(A) /\ FlattenSeq(b) \in Seq(B)
       /\ Len(FlattenSeq(a)) = Len(FlattenSeq(b))
       /\ \A n \in 1..Len(FlattenSeq(a)) : <<FlattenSeq(a)[n], FlattenSeq(b)[n]>> \in R
  BY <1>7, <1>8, <1>10, FlatteningPairs
<1>12. PICK rows, hours : rows = FlattenSeq(a) /\ hours = FlattenSeq(b)
  OBVIOUS
<1>13. DOMAIN rows = 1..Len(rows) /\ DOMAIN hours = 1..Len(rows)
  BY <1>11, <1>12
<1>14. \A n \in 1..Len(rows) : <<rows[n], hours[n]>> \in R
  BY <1>11, <1>12
<1>15. \A n \in 1..Len(rows) : \A k \in 1..7 : rows[n][k] = Measured(LeafFields, MeasureColumns[k], hours[n])
  BY <1>14 DEF R
<1> QED BY <1>1, <1>12, <1>13, <1>15

\* The place a name is looked up at.
PlaceOf(c) == CHOOSE k \in DOMAIN MeasureColumns : <<MeasureColumns[k]>> = <<c>>

LEMMA PlaceIsItsOwn ==
  ASSUME NEW c \in ToSet(MeasureColumns) PROVE PlaceOf(c) \in 1..7 /\ MeasureColumns[PlaceOf(c)] = c
<1>1. \E k \in DOMAIN MeasureColumns : <<MeasureColumns[k]>> = <<c>>
  BY DEF ToSet
<1>2. PlaceOf(c) \in DOMAIN MeasureColumns /\ <<MeasureColumns[PlaceOf(c)]>> = <<c>>
  BY <1>1 DEF PlaceOf
<1> QED BY <1>2, ColumnsInOrder

\* What a column of a reply's table holds.
LEMMA ColumnOfMeasures ==
  ASSUME NEW reply, StationsAreLists(reply), NEW t, t = ParseUbaMeasures(reply), t.ended = "table",
         LET fields == IF reply.labels = << >> THEN LeafFields ELSE reply.labels
         IN Len(fields) = Len(LeafFields) => fields = LeafFields,
         NEW c \in ToSet(MeasureColumns)
  PROVE  LET fields == IF reply.labels = << >> THEN LeafFields ELSE reply.labels
         IN [r \in DOMAIN t.rows |-> t.rows[r][PlaceOf(c)]]
              = [r \in DOMAIN Hours(reply) |-> CellValue(c, Measured(fields, c, Hours(reply)[r]))]
<1>1. PICK fields : fields = IF reply.labels = << >> THEN LeafFields ELSE reply.labels
  OBVIOUS
<1>2. PICK rows, hours : rows = Flattened(reply) /\ hours = Hours(reply)
  OBVIOUS
<1>3. /\ ~LayoutChanged(reply)
      /\ t.rows = [r \in DOMAIN rows |-> [k \in DOMAIN MeasureColumns |-> CellValue(MeasureColumns[k], rows[r][k])]]
  BY <1>2, Zenon DEF ParseUbaMeasures
<1>4. fields = LeafFields
  BY <1>1, <1>3 DEF LayoutChanged
<1>5. /\ DOMAIN rows = DOMAIN hours
      /\ \A r \in DOMAIN rows : \A k \in 1..7 :
            rows[r][k] = Measured(LeafFields, MeasureColumns[k], hours[r])
  BY <1>2, RowsOfHours
<1>6. PICK k \in 1..7 : k = PlaceOf(c) /\ MeasureColumns[k] = c
  BY PlaceIsItsOwn
<1>7. DOMAIN MeasureColumns = 1..7
  BY ColumnsInOrder
<1>8. DOMAIN t.rows = DOMAIN hours
  BY <1>3, <1>5
<1>9. ASSUME NEW r \in DOMAIN hours PROVE t.rows[r][k] = CellValue(c, Measured(fields, c, hours[r]))
  <2>1. t.rows[r][k] = CellValue(MeasureColumns[k], rows[r][k])
    BY <1>3, <1>5, <1>7
  <2> QED BY <1>4, <1>5, <1>6, <2>1
<1>10. [r \in DOMAIN t.rows |-> t.rows[r][k]] = [r \in DOMAIN hours |-> CellValue(c, Measured(fields, c, hours[r]))]
  BY <1>8, <1>9
<1> QED BY <1>1, <1>2, <1>6, <1>10

\* The columns of a table are columns of what its body was parsed to.
ParsedFromItsBody(tab) ==
    tab.ended = "loaded" =>
        /\ tab.body \in DOMAIN Content
        /\ LET t == ParseBody(tab.reader, tab.options, Content[tab.body])
           IN /\ t.ended = "table"
              /\ \E wanted \in SUBSET ColumnNames(tab.reader, t) :
                    tab.columns = SelectedColumns(tab.reader, t, wanted)

ParsedOK ==
    /\ \A u \in DOMAIN body : body[u] \in DOMAIN Content
    /\ read.at = "parse" => read.body \in DOMAIN Content
    /\ ParsedFromItsBody(table)

LEMMA NotLoadedIsParsed ==
  ASSUME NEW how, how # "loaded" PROVE ParsedFromItsBody(Ended(how))
BY DEF ParsedFromItsBody, Ended

LEMMA InitParsedOK == ReaderInit => ParsedOK
<1> SUFFICES ASSUME ReaderInit PROVE ParsedOK
  OBVIOUS
<1>1. \A u \in DOMAIN body : body[u] \in DOMAIN Content
  BY BodiesAreKnown DEF ReaderInit
<1>2. read.at # "parse"
  BY DEF ReaderInit, NoRead
<1>3. ParsedFromItsBody(table)
  BY NotLoadedIsParsed DEF ReaderInit
<1> QED BY <1>1, <1>2, <1>3 DEF ParsedOK

LEMMA FinishKeepsParsed ==
  ASSUME ParsedOK, UNCHANGED body, NEW tab, ParsedFromItsBody(tab), Finish(tab) PROVE ParsedOK'
<1>1. read'.at # "parse" /\ table' = tab
  BY DEF Finish, NoRead
<1>2. ParsedFromItsBody(table)'
  BY <1>1 DEF ParsedFromItsBody
<1> QED BY <1>1, <1>2 DEF ParsedOK

LEMMA TableAndBodiesStay ==
  ASSUME ParsedOK, UNCHANGED <<body, table>>, read'.at = "parse" => read'.body \in DOMAIN Content
  PROVE  ParsedOK'
BY DEF ParsedOK, ParsedFromItsBody

LEMMA CallKeepsParsed ==
  ASSUME ParsedOK, NEW reader, NEW access, NEW o, NEW wanted, Call(reader, access, o, wanted)
  PROVE  ParsedOK'
<1>1. UNCHANGED body
  BY DEF Call
<1>2. CASE Finish(Ended("unclaimed")) \/ Finish(Ended("bad_arguments"))
  BY <1>1, <1>2, FinishKeepsParsed, NotLoadedIsParsed
<1>3. CASE /\ read' = [at |-> "resolve", reader |-> reader,
                       locator |-> LocatorOf(reader, access, o, wanted = {}),
                       options |-> o, wanted |-> wanted]
           /\ table' = Ended("none")
  <2>1. read'.at # "parse"
    BY <1>3
  <2>2. ParsedFromItsBody(table')
    BY <1>3, NotLoadedIsParsed
  <2>3. ParsedFromItsBody(table)'
    BY <2>2 DEF ParsedFromItsBody
  <2> QED BY <1>1, <2>1, <2>3 DEF ParsedOK
<1> QED BY <1>2, <1>3 DEF Call

LEMMA TakeKeepsParsed ==
  ASSUME ReadOK, ParsedOK, read.at = "resolve", UNCHANGED body, NEW d, Take(d) PROVE ParsedOK'
<1>1. CASE OtherLicense(read.reader, d.license)
  BY <1>1, FinishKeepsParsed, NotLoadedIsParsed DEF Take
<1>2. CASE ~OtherLicense(read.reader, d.license)
  <2>1. /\ read' = [k \in DOMAIN read \cup {"distribution"} |->
                        IF k = "at" THEN "download" ELSE IF k = "distribution" THEN d ELSE read[k]]
        /\ UNCHANGED table
    BY <1>2 DEF Take
  <2>2. read'.at # "parse"
    BY <2>1 DEF ReadOK
  <2> QED BY <2>1, <2>2, TableAndBodiesStay
<1> QED BY <1>1, <1>2

LEMMA ResolveKeepsParsed ==
  ASSUME RInv, ParsedOK, Resolve PROVE ParsedOK'
<1>1. read.at = "resolve" /\ UNCHANGED body
  BY DEF Resolve
<1>2. CASE Finish(Ended("http_error")) \/ Finish(Ended("no_resource"))
  BY <1>1, <1>2, FinishKeepsParsed, NotLoadedIsParsed
<1>3. ASSUME NEW d, Take(d) PROVE ParsedOK'
  BY <1>1, <1>3, TakeKeepsParsed DEF RInv
<1> QED BY <1>2, <1>3 DEF Resolve

LEMMA DownloadKeepsParsed ==
  ASSUME RInv, ParsedOK, Download PROVE ParsedOK'
<1>1. read.at = "download" /\ UNCHANGED body
  BY DEF Download
<1>2. CASE Finish(Ended("http_error"))
  BY <1>1, <1>2, FinishKeepsParsed, NotLoadedIsParsed
<1>3. CASE /\ read.distribution.url \in DOMAIN body
           /\ read' = [k \in DOMAIN read \cup {"body"} |->
                         IF k = "at" THEN "parse" ELSE IF k = "body" THEN body[read.distribution.url] ELSE read[k]]
           /\ UNCHANGED table
  <2>1. read'.body = body[read.distribution.url]
    BY <1>3
  <2>2. read'.body \in DOMAIN Content
    BY <1>3, <2>1 DEF ParsedOK
  <2> QED BY <1>1, <1>3, <2>2, TableAndBodiesStay
<1> QED BY <1>2, <1>3 DEF Download

LEMMA ParseKeepsParsed ==
  ASSUME ParsedOK, Parse PROVE ParsedOK'
<1>1. PICK t : t = ParseBody(read.reader, read.options, Content[read.body])
  OBVIOUS
<1>2. PICK reader, options, b : reader = read.reader /\ options = read.options /\ b = read.body
  OBVIOUS
<1>3. UNCHANGED body /\ b \in DOMAIN Content
  BY <1>2 DEF Parse, ParsedOK
<1> DEFINE Loads(wanted) ==
             [ended |-> "loaded", reader |-> read.reader, columns |-> SelectedColumns(read.reader, t, wanted),
              provenance |-> Provenance(read.distribution, read.reader), body |-> read.body,
              options |-> read.options]
<1>4. ASSUME t.ended = "table", NEW wanted \in SUBSET ColumnNames(read.reader, t), Finish(Loads(wanted))
      PROVE  ParsedOK'
  <2>1. PICK tab : tab = Loads(wanted)
    OBVIOUS
  <2>2. /\ tab.reader = reader /\ tab.options = options /\ tab.body = b
        /\ tab.columns = SelectedColumns(reader, t, wanted)
    BY <1>2, <2>1
  <2>3. t = ParseBody(reader, options, Content[b]) /\ wanted \in SUBSET ColumnNames(reader, t)
    BY <1>1, <1>2, <1>4
  <2>4. ParsedFromItsBody(tab)
    BY <1>3, <1>4, <2>2, <2>3 DEF ParsedFromItsBody
  <2>5. Finish(tab)
    BY <1>4, <2>1
  <2> QED BY <1>3, <2>4, <2>5, FinishKeepsParsed
<1>5. CASE t.ended # "table" /\ Finish(Ended(t.ended))
  <2>1. t.ended # "loaded"
    BY <1>1, ParsersEnd
  <2> QED BY <1>3, <1>5, <2>1, FinishKeepsParsed, NotLoadedIsParsed
<1>6. CASE Finish(Ended("unknown_feature"))
  BY <1>3, <1>6, FinishKeepsParsed, NotLoadedIsParsed
<1>7. \/ t.ended # "table" /\ Finish(Ended(t.ended))
      \/ t.ended = "table" /\ Finish(Loads(ColumnNames(read.reader, t)))
      \/ Finish(Ended("unknown_feature"))
      \/ t.ended = "table" /\ read.wanted \subseteq ColumnNames(read.reader, t) /\ Finish(Loads(read.wanted))
  BY <1>1 DEF Parse
<1> HIDE DEF Loads
<1> QED BY <1>4, <1>5, <1>6, <1>7

LEMMA StepKeepsParsed ==
  ASSUME RInv, ParsedOK, [ReaderNext]_readerVars PROVE ParsedOK'
<1>1. CASE Republish
  BY <1>1, TableAndBodiesStay DEF Republish, ParsedOK
<1>2. CASE Revise
  <2>1. PICK u \in DOMAIN body, b \in DOMAIN Content : body' = [body EXCEPT ![u] = b]
    BY <1>2 DEF Revise
  <2>2. \A v \in DOMAIN body' : v \in DOMAIN body /\ body'[v] = IF v = u THEN b ELSE body[v]
    BY <2>1
  <2>3. \A v \in DOMAIN body' : body'[v] \in DOMAIN Content
    BY <2>2 DEF ParsedOK
  <2> QED BY <1>2, <2>3 DEF Revise, ParsedOK, ParsedFromItsBody
<1>3. CASE UNCHANGED readerVars
  BY <1>3, TableAndBodiesStay DEF readerVars, ParsedOK
<1> QED BY <1>1, <1>2, <1>3, CallKeepsParsed, ResolveKeepsParsed, DownloadKeepsParsed, ParseKeepsParsed DEF ReaderNext

\* Only the UBA reader makes a table of a reply with measures.
LEMMA MeasuresAreOfUba ==
  ASSUME NEW reader, NEW o, NEW b, b.kind = "uba", ParseBody(reader, o, b).ended = "table"
  PROVE  reader = "UbaAirReader" /\ ParseBody(reader, o, b) = ParseUbaMeasures(b.is)
<1>1. NoTable("other").ended # "table"
  BY DEF NoTable
<1> QED BY <1>1 DEF ParseBody

LEMMA MeasuresOfParsed ==
  ASSUME RInv, ParsedOK PROVE MeasuresUnderTheirNames
<1> SUFFICES ASSUME Loaded("uba"), NEW c \in ToSet(MeasureColumns), <<c>> \in DOMAIN table.columns,
                    LET reply == Content[table.body].is
                        fields == IF reply.labels = << >> THEN LeafFields ELSE reply.labels
                    IN Len(fields) = Len(LeafFields) => fields = LeafFields
             PROVE  LET reply == Content[table.body].is
                        fields == IF reply.labels = << >> THEN LeafFields ELSE reply.labels
                        hours == Hours(reply)
                    IN table.columns[<<c>>] = [r \in DOMAIN hours |-> CellValue(c, Measured(fields, c, hours[r]))]
  BY DEF MeasuresUnderTheirNames
<1>1. PICK b, reply : b = Content[table.body] /\ reply = b.is
  OBVIOUS
<1>2. b.kind = "uba" /\ table.body \in DOMAIN Content
  BY <1>1 DEF Loaded, ParsedOK, ParsedFromItsBody
<1>3. PICK t : t = ParseBody(table.reader, table.options, b)
  OBVIOUS
<1>4. /\ t.ended = "table"
      /\ \E wanted \in SUBSET ColumnNames(table.reader, t) :
            table.columns = SelectedColumns(table.reader, t, wanted)
  BY <1>1, <1>3 DEF Loaded, ParsedOK, ParsedFromItsBody
<1>5. table.reader = "UbaAirReader" /\ t = ParseUbaMeasures(reply)
  BY <1>1, <1>2, <1>3, <1>4, MeasuresAreOfUba
<1>6. PICK wanted : table.columns = SelectedColumns("UbaAirReader", t, wanted)
  BY <1>4, <1>5
<1>7. table.columns[<<c>>] = [r \in DOMAIN t.rows |-> t.rows[r][PlaceOf(c)]]
  BY <1>6, Zenon DEF SelectedColumns, PlaceOf
<1>8. StationsAreLists(reply)
  BY <1>1, <1>2, RepliesAreLists DEF StationsAreLists
<1>9. LET fields == IF reply.labels = << >> THEN LeafFields ELSE reply.labels
      IN [r \in DOMAIN t.rows |-> t.rows[r][PlaceOf(c)]]
           = [r \in DOMAIN Hours(reply) |-> CellValue(c, Measured(fields, c, Hours(reply)[r]))]
  <2>1. LET fields == IF reply.labels = << >> THEN LeafFields ELSE reply.labels
        IN Len(fields) = Len(LeafFields) => fields = LeafFields
    BY <1>1
  <2> QED BY ONLY <1>4, <1>5, <1>8, <2>1, c \in ToSet(MeasureColumns), ColumnOfMeasures
<1> QED BY <1>1, <1>7, <1>9

\* Whatever stations, hours and leaves replies hold and whatever names they give the fields
\* of a leaf, unless as many as documented in another order: in a table of measures each
\* column holds, hour by hour in the order of the reply, what the reply has under its name
\* (uba.py:parse_uba_measures_bytes, _check_layout, _to_table).
THEOREM MeasuresAreFoundByName == ReaderSpec => []MeasuresUnderTheirNames
<1>1. RInv /\ ParsedOK /\ [ReaderNext]_readerVars => RInv' /\ ParsedOK'
  BY StepKeepsRInv, StepKeepsParsed
<1>2. RInv /\ ParsedOK => MeasuresUnderTheirNames
  BY MeasuresOfParsed
<1> QED BY InitRInv, InitParsedOK, <1>1, <1>2, PTL DEF ReaderSpec

-----------------------------------------------------------------------------
\* Names that are one of their kind

NameOrMarked(base, marks) == {base} \cup {Append(base, marks[n]) : n \in DOMAIN marks}

\* There is a mark that makes a new name: there are more marks than names.
LEMMA AMarkIsLeft ==
  ASSUME NEW W, NEW base \in Seq(W), NEW M \in Nat, NEW marks, DOMAIN marks = 1..M,
         \A m, n \in 1..M : marks[m] = marks[n] => m = n,
         NEW k \in Nat, k < M, NEW names, DOMAIN names = 1..k
  PROVE  \E n \in 1..M : Append(base, marks[n]) \notin ToSet(names)
<1> SUFFICES ASSUME \A n \in 1..M : Append(base, marks[n]) \in ToSet(names) PROVE FALSE
  OBVIOUS
<1>1. \A n \in 1..M : \E i \in 1..k : names[i] = Append(base, marks[n])
  BY DEF ToSet
<1> DEFINE f == [n \in 1..M |-> CHOOSE i \in 1..k : names[i] = Append(base, marks[n])]
<1>2. f \in [1..M -> 1..k] /\ \A n \in 1..M : names[f[n]] = Append(base, marks[n])
  BY <1>1
<1> HIDE DEF f
<1>3. IsFiniteSet(1..M) /\ Cardinality(1..M) = M
  <2>1. 1 \in Int /\ M \in Int
    OBVIOUS
  <2>2. IsFiniteSet(1..M) /\ Cardinality(1..M) = IF 1 > M THEN 0 ELSE M - 1 + 1
    BY <2>1, FS_Interval
  <2> QED BY <2>2
<1>3a. IsFiniteSet(1..k) /\ Cardinality(1..k) = k
  <2>1. 1 \in Int /\ k \in Int
    OBVIOUS
  <2>2. IsFiniteSet(1..k) /\ Cardinality(1..k) = IF 1 > k THEN 0 ELSE k - 1 + 1
    BY <2>1, FS_Interval
  <2> QED BY <2>2
<1>4. \E m, n \in 1..M : m # n /\ f[m] = f[n]
  <2>1. PICK S, T : S = 1..M /\ T = 1..k
    OBVIOUS
  <2>2. IsFiniteSet(S) /\ IsFiniteSet(T) /\ Cardinality(T) < Cardinality(S) /\ f \in [S -> T]
    BY <1>2, <1>3, <1>3a, <2>1
  <2>3. \E x, y \in S : x # y /\ f[x] = f[y]
    BY <2>2, FS_PigeonHole
  <2> QED BY <2>1, <2>3
<1>5. PICK m, n \in 1..M : m # n /\ f[m] = f[n]
  BY <1>4
<1>6. Append(base, marks[m]) = Append(base, marks[n])
  BY <1>2, <1>5
<1>7. marks[m] = marks[n]
  <2> DEFINE X == W \cup {marks[m], marks[n]}
  <2>1. base \in Seq(X) /\ marks[m] \in X /\ marks[n] \in X
    OBVIOUS
  <2> HIDE DEF X
  <2>2. Append(base, marks[m])[Len(base) + 1] = marks[m] /\ Append(base, marks[n])[Len(base) + 1] = marks[n]
    BY <2>1
  <2> QED BY <1>6, <2>2
<1> QED BY <1>5, <1>7

LEMMA NextNameIsNew ==
  ASSUME NEW W, NEW base \in Seq(W), NEW M \in Nat, NEW marks, DOMAIN marks = 1..M,
         \A m, n \in 1..M : marks[m] = marks[n] => m = n,
         NEW k \in Nat, k < M, NEW names, DOMAIN names = 1..k
  PROVE  NextName(names, base, marks) \in NameOrMarked(base, marks) \ ToSet(names)
<1> DEFINE fresh == {n \in DOMAIN marks : Append(base, marks[n]) \notin ToSet(names)}
           first == CHOOSE n \in fresh : \A i \in fresh : n <= i
<1>1. CASE base \notin ToSet(names)
  BY <1>1 DEF NextName, NameOrMarked
<1>2. CASE base \in ToSet(names)
  <2>1. fresh \in SUBSET Nat /\ fresh # {}
    BY AMarkIsLeft
  <2>2. \E n \in fresh : \A i \in fresh : n <= i
    <3> HIDE DEF fresh
    <3> QED BY <2>1, LeastElement
  <2>3. first \in fresh
    BY <2>2
  <2>4. NextName(names, base, marks) = Append(base, marks[first])
    BY <1>2 DEF NextName
  <2> HIDE DEF first
  <2> QED BY <2>3, <2>4 DEF NameOrMarked
<1> QED BY <1>1, <1>2

\* The names after each column.
NameSteps(bases, marks, k, g) ==
    g = [n \in 0..k |-> IF n = 0 THEN << >> ELSE Append(g[n - 1], NextName(g[n - 1], bases[n], marks))]

LEMMA NamedOnce ==
  ASSUME NEW bases, NEW marks, NEW n \in Nat PROVE \E g : NameSteps(bases, marks, n, g)
<1> DEFINE S == {k \in Nat : \E g : NameSteps(bases, marks, k, g)}
           After(names, i) == Append(names, NextName(names, bases[i], marks))
<1>1. 0 \in S
  <2> DEFINE g == [i \in 0..0 |-> << >>]
  <2>1. \A i \in 0..0 : i = 0
    OBVIOUS
  <2>2. g = [i \in 0..0 |-> IF i = 0 THEN << >> ELSE After(g[i - 1], i)]
    BY <2>1
  <2> HIDE DEF g
  <2> QED BY <2>2 DEF NameSteps
<1>2. ASSUME NEW k \in S, k < n PROVE k + 1 \in S
  <2>1. PICK g : NameSteps(bases, marks, k, g)
    BY <1>2
  <2>2. k \in Nat
    BY <1>2
  <2>2a. g = [i \in 0..k |-> IF i = 0 THEN << >> ELSE After(g[i - 1], i)]
    BY <2>1 DEF NameSteps
  <2> HIDE DEF After
  <2> DEFINE last == After(g[k], k + 1)
             h == [i \in 0..(k + 1) |-> IF i \in 0..k THEN g[i] ELSE last]
  <2>3. ASSUME NEW i \in 0..(k + 1)
        PROVE  h[i] = IF i = 0 THEN << >> ELSE After(h[i - 1], i)
    <3>1. CASE i \in 0..k
      <4>1. h[i] = g[i]
        BY <3>1
      <4>2. g[i] = IF i = 0 THEN << >> ELSE After(g[i - 1], i)
        BY <2>2a, <3>1
      <4>3. i # 0 => i - 1 \in 0..k /\ h[i - 1] = g[i - 1]
        BY <2>2, <3>1
      <4> HIDE DEF h
      <4> QED BY <4>1, <4>2, <4>3
    <3>2. CASE i = k + 1
      <4>1. i \notin 0..k /\ h[i] = last
        BY <2>2, <3>2
      <4>2. i # 0 /\ i - 1 \in 0..k /\ h[i - 1] = g[k]
        BY <2>2, <3>2
      <4> HIDE DEF h
      <4> QED BY <3>2, <4>1, <4>2
    <3> QED BY <2>2, <3>1, <3>2
  <2>4. h = [i \in 0..(k + 1) |-> h[i]]
    OBVIOUS
  <2> HIDE DEF h
  <2>5. h = [i \in 0..(k + 1) |-> IF i = 0 THEN << >> ELSE After(h[i - 1], i)]
    BY <2>3, <2>4
  <2>6. NameSteps(bases, marks, k + 1, h)
    BY <2>5 DEF NameSteps, After
  <2> QED BY <2>2, <2>6
<1> HIDE DEF S
<1>3. n \in S
  <2>1. S \in SUBSET Nat
    BY DEF S
  <2> QED BY <1>1, <1>2, <2>1, FromZeroOn
<1> QED BY <1>3 DEF S

\* The first k names: each is its base or its base with a mark, and no two are one.
NamesOK(bases, marks, k, names) ==
    /\ DOMAIN names = 1..k /\ names \in Seq(ToSet(names))
    /\ \A i \in 1..k : names[i] \in NameOrMarked(bases[i], marks)
    /\ \A i, j \in 1..k : names[i] = names[j] => i = j

LEMMA OneNameMore ==
  ASSUME NEW bases, NEW marks, NEW k \in Nat, NEW names, NamesOK(bases, marks, k, names),
         NEW name \in NameOrMarked(bases[k + 1], marks) \ ToSet(names)
  PROVE  NamesOK(bases, marks, k + 1, Append(names, name))
<1> DEFINE T == ToSet(names) \cup {name}
           more == Append(names, name)
<1>1. names \in Seq(T) /\ name \in T /\ Len(names) = k
  BY DEF NamesOK
<1>1a. \A i \in 1..k : names[i] # name
  BY DEF NamesOK, ToSet
<1> HIDE DEF T
<1>2. /\ more \in Seq(T) /\ Len(more) = k + 1 /\ DOMAIN more = 1..(k + 1)
      /\ more[k + 1] = name /\ \A i \in 1..k : more[i] = names[i]
  BY <1>1
<1> HIDE DEF more
<1>3. more \in Seq(ToSet(more))
  <2>1. more \in [1..(k + 1) -> ToSet(more)]
    BY <1>2 DEF ToSet
  <2> QED BY <2>1, IsASequence
<1>4. \A i : i \in 1..(k + 1) <=> i \in 1..k \/ i = k + 1
  OBVIOUS
<1>5. \A i \in 1..(k + 1) : more[i] \in NameOrMarked(bases[i], marks)
  BY <1>2, <1>4 DEF NamesOK
<1>6. \A i, j \in 1..(k + 1) : more[i] = more[j] => i = j
  BY <1>1a, <1>2, <1>4 DEF NamesOK
<1> QED BY <1>2, <1>3, <1>5, <1>6 DEF NamesOK, more

LEMMA NamesAreUnique ==
  ASSUME NEW W, NEW N \in Nat, NEW bases \in Seq(Seq(W)), Len(bases) = N, NEW marks, DOMAIN marks = 1..N,
         \A m, n \in 1..N : marks[m] = marks[n] => m = n
  PROVE  NamesOK(bases, marks, N, UniqueNames(bases, marks))
<1> DEFINE g == CHOOSE g : NameSteps(bases, marks, N, g)
<1>1. UniqueNames(bases, marks) = g[N]
  BY DEF UniqueNames, NameSteps
<1>2. NameSteps(bases, marks, N, g)
  BY NamedOnce
<1> HIDE DEF g
<1> DEFINE S == {k \in Nat : k <= N => NamesOK(bases, marks, k, g[k])}
<1>3. 0 \in S
  <2>1. g[0] = << >>
    BY <1>2 DEF NameSteps
  <2>2. DOMAIN << >> = 1..0 /\ << >> \in Seq(ToSet(<< >>)) /\ \A i : i \notin 1..0
    OBVIOUS
  <2>3. NamesOK(bases, marks, 0, << >>)
    BY <2>2 DEF NamesOK
  <2> QED BY <2>1, <2>3
<1>4. ASSUME NEW k \in S, k < N PROVE k + 1 \in S
  <2>1. k \in Nat /\ k + 1 \in 0..N /\ k + 1 # 0 /\ (k + 1) - 1 = k
    BY <1>4
  <2>2. NamesOK(bases, marks, k, g[k])
    BY <1>4, <2>1
  <2>3. g[k + 1] = Append(g[k], NextName(g[k], bases[k + 1], marks))
    <3>1. g[k + 1] = Append(g[(k + 1) - 1], NextName(g[(k + 1) - 1], bases[k + 1], marks))
      BY <1>2, <2>1 DEF NameSteps
    <3> QED BY <2>1, <3>1
  <2>4. bases[k + 1] \in Seq(W) /\ DOMAIN g[k] = 1..k
    BY <2>1, <2>2 DEF NamesOK
  <2>5. NextName(g[k], bases[k + 1], marks) \in NameOrMarked(bases[k + 1], marks) \ ToSet(g[k])
    BY <1>4, <2>1, <2>4, NextNameIsNew
  <2>6. NamesOK(bases, marks, k + 1, g[k + 1])
    BY <2>1, <2>2, <2>3, <2>5, OneNameMore
  <2> QED BY <2>1, <2>6
<1> HIDE DEF S
<1>5. N \in S
  <2>1. S \in SUBSET Nat
    BY DEF S
  <2> QED BY <1>3, <1>4, <2>1, FromZeroOn
<1> QED BY <1>1, <1>5 DEF S

-----------------------------------------------------------------------------
\* Cells and rows

LEMMA LengthOfDomain ==
  ASSUME NEW S, NEW s \in Seq(S), NEW n \in Nat, DOMAIN s = 1..n PROVE Len(s) = n
<1>1. Len(s) \in Nat /\ DOMAIN s = 1..Len(s)
  OBVIOUS
<1> QED BY <1>1

\* Flattening what has one element each.
LEMMA FlatteningSingles ==
  ASSUME NEW T, NEW f \in Seq(T), NEW seqs, DOMAIN seqs = 1..Len(f), seqs = [i \in DOMAIN seqs |-> seqs[i]],
         \A i \in 1..Len(f) : seqs[i] = <<f[i]>>
  PROVE  FlattenSeq(seqs) = f
<1> DEFINE N == Len(f)
           R == {p \in T \X T : p[1] = p[2]}
           g == CHOOSE g : FlattensTo(seqs, N, g)
<1>1. N \in Nat
  OBVIOUS
<1>1a. seqs \in Seq(Seq(T)) /\ Len(seqs) = N
  <2>1. ASSUME NEW i \in 1..N PROVE seqs[i] \in Seq(T)
    <3>1. PICK x : x = f[i]
      OBVIOUS
    <3>2. x \in T /\ seqs[i] = <<x>>
      BY <3>1
    <3> QED BY <3>2
  <2>2. seqs \in [1..N -> Seq(T)]
    BY <2>1
  <2>3. seqs \in Seq(Seq(T))
    BY <1>1, <2>2, IsASequence
  <2> QED BY <1>1, <2>2, <2>3
<1>2. CASE N = 0
  <2>1. seqs = << >> /\ f = << >>
    BY <1>1a, <1>2
  <2> QED BY <2>1 DEF FlattenSeq
<1>3. CASE N # 0
  <2>1. FlattensTo(seqs, N, g)
    BY <1>1, FlattenedOnce
  <2>2. FlattenSeq(seqs) = g[N]
    BY <1>1a, <1>3 DEF FlattenSeq, FlattensTo
  <2> HIDE DEF g
  <2> DEFINE Upto(k) == g[k] \in Seq(T) /\ Len(g[k]) = k /\ \A i \in 1..k : g[k][i] = f[i]
             S == {k \in Nat : k \in 1..N => Upto(k)}
  <2>3. 0 \in S
    OBVIOUS
  <2>4. ASSUME NEW k \in S, k < N PROVE k + 1 \in S
    <3>1. k \in Nat /\ k + 1 \in 1..N
      BY <1>1, <2>4
    <3>2. CASE k = 0
      <4>1. g[1] = seqs[1] /\ seqs[1] = <<f[1]>> /\ f[1] \in T
        BY <2>1, <3>1, <3>2 DEF FlattensTo
      <4>2. g[1] \in Seq(T) /\ Len(g[1]) = 1 /\ g[1][1] = f[1]
        BY <4>1
      <4>3. \A i \in 1..1 : i = 1
        OBVIOUS
      <4> QED BY <3>2, <4>2, <4>3
    <3>3. CASE k # 0
      <4>1. k \in 1..N /\ k + 1 # 1 /\ (k + 1) - 1 = k
        BY <3>1, <3>3
      <4>2. g[k + 1] = g[k] \o <<f[k + 1]>>
        <5>1. g[k + 1] = g[(k + 1) - 1] \o seqs[k + 1]
          BY <2>1, <3>1, <4>1 DEF FlattensTo
        <5> QED BY <3>1, <4>1, <5>1
      <4>3. Upto(k) /\ f[k + 1] \in T
        BY <3>1, <4>1
      <4>4. PICK h, x : h = g[k] /\ x = f[k + 1]
        OBVIOUS
      <4>5. h \in Seq(T) /\ Len(h) = k /\ x \in T /\ \A i \in 1..k : h[i] = f[i]
        BY <4>3, <4>4
      <4>6. /\ h \o <<x>> \in Seq(T) /\ Len(h \o <<x>>) = k + 1
            /\ (h \o <<x>>)[k + 1] = x /\ \A i \in 1..k : (h \o <<x>>)[i] = h[i]
        BY <3>1, <4>5
      <4>7. \A i : i \in 1..(k + 1) <=> i \in 1..k \/ i = k + 1
        BY <3>1
      <4>8. Upto(k + 1)
        <5>1. PICK e : e = g[k + 1]
          OBVIOUS
        <5>2. e = h \o <<x>>
          BY <4>2, <4>4, <5>1
        <5>3. e \in Seq(T) /\ Len(e) = k + 1
          BY <4>6, <5>2
        <5>4. \A i \in 1..(k + 1) : e[i] = f[i]
          BY <4>4, <4>5, <4>6, <4>7, <5>2
        <5> QED BY <5>1, <5>3, <5>4
      <4> HIDE DEF Upto
      <4> QED BY <3>1, <4>8
    <3> QED BY <3>2, <3>3
  <2> HIDE DEF S
  <2>5. N \in S
    <3>1. S \in SUBSET Nat
      BY DEF S
    <3> QED BY <1>1, <2>3, <2>4, <3>1, FromZeroOn
  <2>6. g[N] \in Seq(T) /\ Len(g[N]) = N /\ \A i \in 1..N : g[N][i] = f[i]
    BY <1>1, <1>3, <2>5 DEF S
  <2> QED BY <2>2, <2>6, SeqEqual
<1> QED BY <1>2, <1>3

\* N names of which no two are one.
Distinct(names, N) == DOMAIN names = 1..N /\ \A i, j \in 1..N : names[i] = names[j] => i = j

\* The cells of a row under a name.
CellsNamed(names, row, name) == FlattenSeq([j \in DOMAIN names |-> IF names[j] = name THEN <<row[j]>> ELSE << >>])

\* Of a row, the cells under one of the names, if no two are one.
LEMMA OneCellUnderAName ==
  ASSUME NEW names, NEW N \in Nat, DOMAIN names = 1..N,
         \A i, j \in 1..N : names[i] = names[j] => i = j,
         NEW k \in 1..N, NEW row
  PROVE  CellsNamed(names, row, names[k]) = <<row[k]>>
<1> DEFINE T == {row[j] : j \in 1..N}
           seqs == [j \in DOMAIN names |-> IF names[j] = names[k] THEN <<row[j]>> ELSE << >>]
<1>1. \A j \in 1..N : seqs[j] = IF j = k THEN <<row[k]>> ELSE << >>
  OBVIOUS
<1>2. seqs \in [1..N -> Seq(T)]
  <2>1. \A j \in 1..N : <<row[j]>> \in Seq(T) /\ << >> \in Seq(T)
    OBVIOUS
  <2> QED BY <2>1
<1>3. seqs \in Seq(Seq(T)) /\ Len(seqs) = N
  <2> HIDE DEF seqs, T
  <2>1. seqs \in Seq(Seq(T))
    BY <1>2, IsASequence
  <2> QED BY <1>2, <2>1
<1> HIDE DEF seqs, T
<1>4. PICK s : s = FlattenSeq(seqs)
  OBVIOUS
<1>5. s \in Seq(T) /\ \E at : Lies(seqs, N, s, at)
  BY <1>3, <1>4, FlatteningKeeps
<1>6. PICK at : Lies(seqs, N, s, at)
  BY <1>5
<1>7. \A n \in 1..Len(s) : at[n][1] = k /\ at[n][2] = 1 /\ s[n] = row[k]
  <2> SUFFICES ASSUME NEW n \in 1..Len(s) PROVE at[n][1] = k /\ at[n][2] = 1 /\ s[n] = row[k]
    OBVIOUS
  <2>1. at[n][1] \in 1..N /\ at[n][2] \in 1..Len(seqs[at[n][1]]) /\ s[n] = seqs[at[n][1]][at[n][2]]
    BY <1>6 DEF Lies
  <2>2. at[n][1] = k
    <3>1. Len(<< >>) = 0
      OBVIOUS
    <3> QED BY <1>1, <2>1, <3>1
  <2>3. seqs[k] = <<row[k]>> /\ Len(<<row[k]>>) = 1
    BY <1>1
  <2>4. at[n][2] = 1
    BY <2>1, <2>2, <2>3
  <2>5. s[n] = row[k]
    BY <2>1, <2>2, <2>3, <2>4
  <2> QED BY <2>2, <2>4, <2>5
<1>8. \E n \in 1..Len(s) : at[n] = <<k, 1>>
  <2>1. 1 \in 1..Len(seqs[k])
    BY <1>1
  <2> QED BY <1>6, <2>1 DEF Lies
<1>9. Len(s) = 1
  <2>1. Len(s) \in Nat /\ Len(s) >= 1
    BY <1>5, <1>8
  <2>2. ASSUME Len(s) >= 2 PROVE FALSE
    <3>1. 1 \in 1..Len(s) /\ 2 \in 1..Len(s)
      BY <2>1, <2>2
    <3>2. at[1][1] < at[2][1] \/ (at[1][1] = at[2][1] /\ at[1][2] < at[2][2])
      BY <1>6, <3>1 DEF Lies
    <3>3. at[1][1] = k /\ at[2][1] = k /\ at[1][2] = 1 /\ at[2][2] = 1
      BY <1>7, <3>1
    <3> QED BY <3>2, <3>3
  <2>3. PICK m : m = Len(s)
    OBVIOUS
  <2>4. m \in Nat /\ m >= 1 /\ ~(m >= 2)
    BY <2>1, <2>2, <2>3
  <2>5. m = 1
    BY <2>4
  <2> QED BY <2>3, <2>5
<1>10. s[1] = row[k]
  BY <1>7, <1>9
<1>11. s = <<row[k]>>
  BY <1>5, <1>9, <1>10
<1> QED BY <1>4, <1>11 DEF seqs, CellsNamed

\* A column by name is what the rows have at the place of the name.
LEMMA CellsUnderAName ==
  ASSUME NEW names, NEW N \in Nat, Distinct(names, N),
         NEW T, NEW rows \in Seq(T), NEW k \in 1..N
  PROVE  CellsByName(names, rows)[names[k]] = [r \in DOMAIN rows |-> rows[r][k]]
<1> DEFINE seqs == [r \in DOMAIN rows |->
                      FlattenSeq([j \in DOMAIN names |-> IF names[j] = names[k] THEN <<rows[r][j]>> ELSE << >>])]
           f == [r \in DOMAIN rows |-> rows[r][k]]
           V == {rows[r][k] : r \in DOMAIN rows}
<1>1. names[k] \in ToSet(names)
  BY DEF Distinct, ToSet
<1>2. CellsByName(names, rows)[names[k]] = FlattenSeq(seqs)
  BY <1>1 DEF CellsByName
<1>3. DOMAIN seqs = DOMAIN rows /\ seqs = [r \in DOMAIN seqs |-> seqs[r]]
  OBVIOUS
<1>4. \A r \in DOMAIN rows : seqs[r] = <<rows[r][k]>>
  <2> SUFFICES ASSUME NEW r \in DOMAIN rows PROVE seqs[r] = <<rows[r][k]>>
    OBVIOUS
  <2>1. /\ DOMAIN names = 1..N
        /\ \A i, j \in 1..N : names[i] = names[j] => i = j
    BY DEF Distinct
  <2>2. PICK row : row = rows[r]
    OBVIOUS
  <2>3. CellsNamed(names, row, names[k]) = <<row[k]>>
    BY <2>1, OneCellUnderAName
  <2>4. seqs[r] = CellsNamed(names, rows[r], names[k])
    BY Zenon DEF CellsNamed
  <2> QED BY <2>2, <2>3, <2>4
<1>5. DOMAIN rows = 1..Len(rows) /\ Len(rows) \in Nat
  OBVIOUS
<1>6. f \in Seq(V) /\ Len(f) = Len(rows) /\ \A r \in DOMAIN rows : f[r] = rows[r][k]
  <2>1. f \in [1..Len(rows) -> V]
    BY <1>5
  <2>2. f \in Seq(V)
    <3> HIDE DEF f, V
    <3> QED BY <1>5, <2>1, IsASequence
  <2>3. \A r \in DOMAIN rows : f[r] = rows[r][k]
    OBVIOUS
  <2> HIDE DEF f, V
  <2>4. Len(f) = Len(rows)
    BY <1>5, <2>1, <2>2
  <2> QED BY <2>2, <2>3, <2>4
<1> HIDE DEF seqs, f, V
<1>7. FlattenSeq(seqs) = f
  BY <1>3, <1>4, <1>5, <1>6, FlatteningSingles
<1> QED BY <1>2, <1>7 DEF f

\* Rows that go together still do when those that are dropped on either side are left out.
LEMMA KeptPairs ==
  ASSUME NEW A, NEW B, NEW R, NEW a \in Seq(A), NEW b \in Seq(B), Len(a) = Len(b), NEW D, NEW E,
         \A i \in 1..Len(a) : <<a[i], b[i]>> \in R /\ (a[i] \in D <=> b[i] \in E)
  PROVE  /\ Kept(a, D) \in Seq(A) /\ Kept(b, E) \in Seq(B)
         /\ Len(Kept(a, D)) = Len(Kept(b, E))
         /\ \A n \in 1..Len(Kept(a, D)) : <<Kept(a, D)[n], Kept(b, E)[n]>> \in R
<1> DEFINE PartA(i) == IF a[i] \in D THEN << >> ELSE <<a[i]>>
           PartB(i) == IF b[i] \in E THEN << >> ELSE <<b[i]>>
           as == [i \in DOMAIN a |-> PartA(i)]
           bs == [i \in DOMAIN b |-> PartB(i)]
<1>1. DOMAIN a = 1..Len(a) /\ DOMAIN b = 1..Len(a) /\ Len(a) \in Nat
  OBVIOUS
<1>2. as \in Seq(Seq(A)) /\ DOMAIN as = DOMAIN a /\ \A i \in DOMAIN a : as[i] = PartA(i)
  <2>1. \A i \in DOMAIN a : PartA(i) \in Seq(A)
    <3> SUFFICES ASSUME NEW i \in DOMAIN a PROVE PartA(i) \in Seq(A)
      OBVIOUS
    <3>1. PICK x : x = a[i]
      OBVIOUS
    <3>2. x \in A
      BY <3>1
    <3> QED BY <3>1, <3>2
  <2> HIDE DEF PartA
  <2>2. as \in [1..Len(a) -> Seq(A)]
    BY <1>1, <2>1
  <2>3. \A i \in DOMAIN a : as[i] = PartA(i)
    OBVIOUS
  <2> HIDE DEF as
  <2> QED BY <1>1, <2>2, <2>3, IsASequence
<1>3. bs \in Seq(Seq(B)) /\ DOMAIN bs = DOMAIN a /\ \A i \in DOMAIN a : bs[i] = PartB(i)
  <2>1. \A i \in DOMAIN b : PartB(i) \in Seq(B)
    <3> SUFFICES ASSUME NEW i \in DOMAIN b PROVE PartB(i) \in Seq(B)
      OBVIOUS
    <3>1. PICK x : x = b[i]
      OBVIOUS
    <3>2. x \in B
      BY <3>1
    <3> QED BY <3>1, <3>2
  <2> HIDE DEF PartB
  <2>2. bs \in [1..Len(a) -> Seq(B)]
    BY <1>1, <2>1
  <2>3. \A i \in DOMAIN b : bs[i] = PartB(i)
    OBVIOUS
  <2> HIDE DEF bs
  <2> QED BY <1>1, <2>2, <2>3, IsASequence
<1>4. /\ Kept(a, D) = FlattenSeq(as) /\ Kept(b, E) = FlattenSeq(bs)
      /\ Len(as) = Len(a) /\ Len(bs) = Len(a)
  <2>1. Kept(a, D) = FlattenSeq(as) /\ Kept(b, E) = FlattenSeq(bs)
    BY Zenon DEF Kept
  <2> HIDE DEF as, bs, PartA, PartB
  <2>2. Len(as) = Len(a)
    BY <1>1, <1>2, LengthOfDomain
  <2>3. Len(bs) = Len(a)
    BY <1>1, <1>3, LengthOfDomain
  <2> QED BY <2>1, <2>2, <2>3
<1> HIDE DEF as, bs
<1>5. ASSUME NEW i \in 1..Len(as)
      PROVE  Len(as[i]) = Len(bs[i]) /\ \A j \in 1..Len(as[i]) : <<as[i][j], bs[i][j]>> \in R
  <2>1. i \in 1..Len(a) /\ as[i] = PartA(i) /\ bs[i] = PartB(i)
    BY <1>1, <1>2, <1>3, <1>4
  <2>2. CASE a[i] \in D
    <3>1. as[i] = << >> /\ bs[i] = << >>
      BY <2>1, <2>2
    <3> QED BY <3>1
  <2>3. CASE a[i] \notin D
    <3>1. as[i] = <<a[i]>> /\ bs[i] = <<b[i]>> /\ <<a[i], b[i]>> \in R
      BY <2>1, <2>3
    <3>2. Len(as[i]) = 1 /\ Len(bs[i]) = 1 /\ as[i][1] = a[i] /\ bs[i][1] = b[i]
      BY <3>1
    <3>3. \A j \in 1..1 : j = 1
      OBVIOUS
    <3> QED BY <3>1, <3>2, <3>3
  <2> QED BY <2>2, <2>3
<1>6. Len(as) = Len(bs)
  BY <1>4
<1> HIDE DEF PartA, PartB
<1>7. /\ FlattenSeq(as) \in Seq(A) /\ FlattenSeq(bs) \in Seq(B)
      /\ Len(FlattenSeq(as)) = Len(FlattenSeq(bs))
      /\ \A n \in 1..Len(FlattenSeq(as)) : <<FlattenSeq(as)[n], FlattenSeq(bs)[n]>> \in R
  BY <1>2, <1>3, <1>5, <1>6, FlatteningPairs
<1> QED BY <1>4, <1>7

-----------------------------------------------------------------------------
\* What is read is what was written

LEMMA EncodingIsFound ==
  ASSUME NEW csv, IsFile(csv), csv.written \in {"utf-8-sig", "cp1252"}
  PROVE  DetectEncoding(csv) = IF "utf-8-sig" \in csv.decoders THEN "utf-8-sig" ELSE csv.written
<1> DEFINE able == {i \in DOMAIN Ladder : Ladder[i] \in csv.decoders}
           first == CHOOSE i \in able : \A k \in able : i <= k
<1>1. DOMAIN Ladder = 1..4 /\ Ladder[1] = "utf-8-sig" /\ Ladder[2] = "cp1252"
  BY DEF Ladder
<1>2. csv.written \in csv.decoders
  BY DEF IsFile
<1>3. able \in SUBSET Nat /\ able # {}
  <2>1. able \in SUBSET Nat
    BY <1>1
  <2>2. 1 \in able \/ 2 \in able
    BY <1>1, <1>2
  <2> QED BY <2>1, <2>2
<1>4. DetectEncoding(csv) = Ladder[first]
  BY <1>3 DEF DetectEncoding
<1>5. first \in able /\ \A k \in able : first <= k
  <2>1. \E n \in able : \A k \in able : n <= k
    <3> HIDE DEF able
    <3> QED BY <1>3, LeastElement
  <2> QED BY <2>1
<1> HIDE DEF first
<1>6. CASE "utf-8-sig" \in csv.decoders
  <2>1. 1 \in able
    BY <1>1, <1>6
  <2>2. first = 1
    BY <1>1, <1>5, <2>1
  <2> QED BY <1>1, <1>4, <1>6, <2>2
<1>7. CASE "utf-8-sig" \notin csv.decoders
  <2>1. csv.written = "cp1252" /\ 2 \in able /\ 1 \notin able
    BY <1>1, <1>2, <1>7
  <2>2. first = 2
    BY <1>1, <1>5, <2>1
  <2> QED BY <1>1, <1>4, <1>7, <2>1, <2>2
<1> QED BY <1>6, <1>7

LEMMA DecodedAsWritten ==
  ASSUME NEW csv, IsFile(csv), csv.written \in {"utf-8-sig", "cp1252"}
  PROVE  Decoded(csv) = csv.rows
<1>1. PICK rows, enc : rows = csv.rows /\ enc = DetectEncoding(csv)
  OBVIOUS
<1>2. rows \in Seq(ToSet(rows)) /\ \A r \in DOMAIN rows : rows[r] \in Seq(ToSet(rows[r]))
  BY <1>1 DEF IsFile, IsText, IsList, ToSet
<1>3. ASSUME NEW r \in DOMAIN rows, NEW j \in DOMAIN rows[r]
      PROVE  ~Garbled(rows[r][j].text, csv.written, enc)
  <2>1. rows[r] \in ToSet(rows) /\ rows[r][j] \in ToSet(rows[r])
    BY DEF ToSet
  <2>2. CASE enc = csv.written
    BY <2>2 DEF Garbled
  <2>3. CASE enc # csv.written
    <3>1. csv.written = "cp1252" /\ "utf-8-sig" \in csv.decoders
      BY <1>1, <2>3, EncodingIsFound
    <3>2. ~Contains(rows[r][j].text, "umlaut") /\ ~Contains(rows[r][j].text, "euro")
      BY <1>1, <2>1, <3>1 DEF IsFile
    <3> QED BY <3>2 DEF Garbled
  <2> QED BY <2>2, <2>3
<1>4. \A r \in DOMAIN rows : rows[r] = [j \in DOMAIN rows[r] |-> rows[r][j]]
  BY <1>2
<1>5. \A r \in DOMAIN rows :
        [j \in DOMAIN rows[r] |-> IF Garbled(rows[r][j].text, csv.written, enc)
                                  THEN Word(<<"garbled">>) ELSE rows[r][j]] = rows[r]
  BY <1>3, <1>4
<1>6. rows = [r \in DOMAIN rows |-> rows[r]]
  BY <1>2
<1>7. Decoded(csv) = [r \in DOMAIN rows |->
        [j \in DOMAIN rows[r] |-> IF Garbled(rows[r][j].text, csv.written, enc)
                                  THEN Word(<<"garbled">>) ELSE rows[r][j]]]
  BY <1>1 DEF Decoded
<1>8. Decoded(csv) = rows
  BY <1>5, <1>6, <1>7
<1> QED BY <1>1, <1>8

LEMMA TextIsTyped ==
  ASSUME NEW rows, IsText(rows)
  PROVE  \E C, W : /\ NoText \in C /\ rows \in Seq(Seq(C))
                   /\ \A c \in C : c.text \in Seq(W)
                   /\ \A c \in C : c.number \in Int
<1> DEFINE D == UNION {ToSet(rows[r]) : r \in DOMAIN rows}
           C == D \cup {NoText}
           W == UNION {ToSet(c.text) : c \in D}
<1>1. rows \in Seq(ToSet(rows)) /\ \A r \in DOMAIN rows : rows[r] \in Seq(ToSet(rows[r]))
  BY DEF IsText, IsList, ToSet
<1>2. rows = [r \in DOMAIN rows |-> rows[r]]
  BY <1>1
<1>3. rows \in Seq(Seq(D))
  BY <1>1, <1>2, ListOfLists DEF IsList
<1>4. ASSUME NEW r \in DOMAIN rows PROVE rows[r] \in Seq(C)
  <2>1. PICK row : row = rows[r]
    OBVIOUS
  <2>2. row \in Seq(D) /\ D \subseteq C
    BY <1>3, <2>1
  <2> HIDE DEF C, D
  <2>3. row \in Seq(C)
    BY <2>2, SeqMonotonic
  <2> QED BY <2>1, <2>3
<1>5. rows \in Seq(Seq(C))
  <2>1. DOMAIN rows = 1..Len(rows) /\ Len(rows) \in Nat
    BY <1>1
  <2> HIDE DEF C
  <2>2. rows \in [1..Len(rows) -> Seq(C)]
    BY <1>2, <1>4, <2>1
  <2> QED BY <2>1, <2>2, IsASequence
<1>6. ASSUME NEW c \in D PROVE c.text \in Seq(W)
  <2>1. PICK r \in DOMAIN rows : c \in ToSet(rows[r])
    OBVIOUS
  <2>2. c.text \in Seq(ToSet(c.text))
    <3>1. rows[r] \in ToSet(rows)
      BY DEF ToSet
    <3>2. IsList(c.text)
      BY <2>1, <3>1 DEF IsText
    <3> QED BY <3>2 DEF IsList
  <2>3. ToSet(c.text) \subseteq W
    OBVIOUS
  <2>4. PICK t, T : t = c.text /\ T = ToSet(c.text)
    OBVIOUS
  <2> HIDE DEF W
  <2> QED BY <2>2, <2>3, <2>4, SeqMonotonic
<1>7. NoText.text = << >> /\ NoText.number \in Int
  BY DEF NoText, Cell
<1>7a. \A c \in C : c.number \in Int
  <2> SUFFICES ASSUME NEW c \in D PROVE c.number \in Int
    BY <1>7
  <2>1. PICK r \in DOMAIN rows : c \in ToSet(rows[r])
    OBVIOUS
  <2>2. rows[r] \in ToSet(rows)
    BY DEF ToSet
  <2> QED BY <2>1, <2>2 DEF IsText
<1> HIDE DEF W, D
<1>8. << >> \in Seq(W)
  OBVIOUS
<1>9. \A c \in C : c.text \in Seq(W)
  BY <1>6, <1>7, <1>8
<1>10. NoText \in C
  OBVIOUS
<1> HIDE DEF C
<1> QED BY <1>5, <1>7a, <1>9, <1>10

-----------------------------------------------------------------------------
\* Rows

LEMMA OfItsElements ==
  ASSUME NEW S, NEW s \in Seq(S) PROVE s \in Seq(ToSet(s))
<1>1. DOMAIN s = 1..Len(s) /\ Len(s) \in Nat /\ s = [i \in DOMAIN s |-> s[i]]
  OBVIOUS
<1>2. s \in [1..Len(s) -> ToSet(s)]
  BY <1>1 DEF ToSet
<1> QED BY <1>1, <1>2, IsASequence

LEMMA PartOfAList ==
  ASSUME NEW S, NEW s \in Seq(S), NEW m \in Nat, NEW n \in Nat, 1 <= m, n <= Len(s)
  PROVE  SubSeq(s, m, n) \in Seq(ToSet(s)) /\ (m <= n => SubSeq(s, m, n) # << >>)
<1>1. \A i \in m..n : s[i] \in ToSet(s)
  <2>1. \A i \in m..n : i \in DOMAIN s
    OBVIOUS
  <2> QED BY <2>1 DEF ToSet
<1>2. m \in Int /\ n \in Int
  OBVIOUS
<1>3. PICK part : part = SubSeq(s, m, n)
  OBVIOUS
<1>4. part \in Seq(ToSet(s)) /\ Len(part) = IF m <= n THEN n - m + 1 ELSE 0
  BY <1>1, <1>2, <1>3, SubSeqProperties
<1>5. m <= n => part # << >>
  BY <1>4
<1> QED BY <1>3, <1>4, <1>5

LEMMA FromTheFirst ==
  ASSUME NEW S, NEW s \in Seq(S) PROVE From(s, 1) = s
<1> DEFINE p == SubSeq(s, 1, Len(s))
<1>1. Len(s) \in Nat /\ \A i \in 1..Len(s) : s[i] \in S
  BY ElementOfSeq
<1>2. /\ p \in Seq(S) /\ Len(p) = IF 1 <= Len(s) THEN Len(s) - 1 + 1 ELSE 0
      /\ \A i \in 1 .. Len(s) - 1 + 1 : p[i] = s[1 + i - 1]
  BY <1>1, SubSeqProperties
<1>3. Len(p) = Len(s) /\ \A i \in 1..Len(s) : p[i] = s[i]
  BY <1>1, <1>2
<1> HIDE DEF p
<1>4. p = s
  BY <1>2, <1>3, SeqEqual
<1> QED BY <1>4 DEF From, p

LEMMA PaddedRow ==
  ASSUME NEW C, NoText \in C, NEW row \in Seq(C), NEW n \in Nat
  PROVE  /\ Padded(row, n) \in Seq(C) /\ Len(Padded(row, n)) = n
         /\ \A j \in 1..n : Padded(row, n)[j] = IF j \in DOMAIN row THEN row[j] ELSE NoText
<1> DEFINE p == Padded(row, n)
<1>1. p \in [1..n -> C]
  BY DEF Padded
<1>2. \A j \in 1..n : p[j] = IF j \in DOMAIN row THEN row[j] ELSE NoText
  BY DEF Padded
<1> HIDE DEF p
<1>3. p \in Seq(C)
  BY <1>1, IsASequence
<1>4. Len(p) = n
  BY <1>1, <1>3, LengthOfDomain
<1> QED BY <1>2, <1>3, <1>4 DEF p

LEMMA PaddedIsBlank ==
  ASSUME NEW C, NoText \in C, NEW row \in Seq(C), NEW n \in Nat, Len(row) <= n
  PROVE  BlankRow(Padded(row, n)) <=> BlankRow(row)
<1>1. DOMAIN row \subseteq 1..n /\ DOMAIN Padded(row, n) = 1..n
  BY DEF Padded
<1>2. \A j \in 1..n : Padded(row, n)[j] = IF j \in DOMAIN row THEN row[j] ELSE NoText
  BY PaddedRow
<1>3. BlankRow(row) <=> \A j \in DOMAIN row : row[j] = NoText
  BY DEF BlankRow, ToSet
<1>4. BlankRow(Padded(row, n)) <=> \A j \in 1..n : Padded(row, n)[j] = NoText
  BY <1>1 DEF BlankRow, ToSet
<1> QED BY <1>1, <1>2, <1>3, <1>4

LEMMA KeptAreOfTheirKind ==
  ASSUME NEW A, NEW a \in Seq(A), NEW D PROVE Kept(a, D) \in Seq(A)
<1> DEFINE R == A \X A
<1>1. \A i \in 1..Len(a) : <<a[i], a[i]>> \in R /\ (a[i] \in D <=> a[i] \in D)
  OBVIOUS
<1> HIDE DEF R
<1> QED BY <1>1, KeptPairs

\* Nothing else is dropped.
LEMMA KeptAreThere ==
  ASSUME NEW A, NEW a \in Seq(A), NEW D, NEW i \in DOMAIN a, a[i] \notin D
  PROVE  a[i] \in ToSet(Kept(a, D))
<1> DEFINE Part(k) == IF a[k] \in D THEN << >> ELSE <<a[k]>>
           parts == [k \in DOMAIN a |-> Part(k)]
<1>1. DOMAIN a = 1..Len(a) /\ Len(a) \in Nat
  OBVIOUS
<1>2. parts \in Seq(Seq(A)) /\ Len(parts) = Len(a) /\ parts[i] = <<a[i]>>
  <2>1. ASSUME NEW k \in DOMAIN a PROVE Part(k) \in Seq(A)
    <3>1. PICK x : x = a[k]
      OBVIOUS
    <3>2. x \in A
      BY <3>1
    <3> QED BY <3>1, <3>2
  <2>2. parts[i] = <<a[i]>>
    OBVIOUS
  <2> HIDE DEF Part
  <2>3. parts \in [1..Len(a) -> Seq(A)]
    BY <1>1, <2>1
  <2> HIDE DEF parts
  <2>4. parts \in Seq(Seq(A))
    BY <1>1, <2>3, IsASequence
  <2>5. Len(parts) = Len(a)
    BY <1>1, <2>3, <2>4, LengthOfDomain
  <2> QED BY <2>2, <2>4, <2>5
<1>3. PICK s : s = Kept(a, D)
  OBVIOUS
<1>4. s = FlattenSeq(parts)
  BY <1>3, Zenon DEF Kept
<1> HIDE DEF parts, Part
<1>5. i \in DOMAIN parts /\ a[i] \in ToSet(parts[i])
  <2>1. PICK x : x = a[i]
    OBVIOUS
  <2>2. x \in ToSet(<<x>>)
    BY DEF ToSet
  <2> QED BY <1>1, <1>2, <2>1, <2>2
<1>6. \A x : x \in ToSet(FlattenSeq(parts)) <=> \E k \in DOMAIN parts : x \in ToSet(parts[k])
  BY <1>2, FlatteningCollects
<1>7. a[i] \in ToSet(FlattenSeq(parts))
  BY <1>5, <1>6, Zenon
<1> QED BY <1>3, <1>4, <1>7, Zenon

Narrow(rows, n) == \A row \in ToSet(rows) : Len(row) <= n

\* The first n cells of each row are those of data.
Fills(rows, data, n, width) ==
    /\ DOMAIN rows = DOMAIN data
    /\ \A r \in DOMAIN data : \A j \in 1..n : rows[r][j] = Padded(data[r], width)[j]

LEMMA PaddedRowsAreKept ==
  ASSUME NEW C, NoText \in C, NEW rows \in Seq(Seq(C)), NEW n \in Nat, Narrow(rows, n),
         NEW padded, padded = [r \in DOMAIN rows |-> Padded(rows[r], n)]
  PROVE  NotBlank(padded) \in Seq(Seq(C)) /\ Fills(NotBlank(padded), NotBlank(rows), n, n)
<1> DEFINE R == {p \in Seq(C) \X Seq(C) : p[2] = Padded(p[1], n)}
           D == {row \in ToSet(rows) : BlankRow(row)}
           E == {row \in ToSet(padded) : BlankRow(row)}
<1>1. DOMAIN rows = 1..Len(rows) /\ Len(rows) \in Nat /\ DOMAIN padded = DOMAIN rows
  OBVIOUS
<1>2. ASSUME NEW r \in DOMAIN rows
      PROVE  /\ rows[r] \in Seq(C) /\ padded[r] = Padded(rows[r], n) /\ padded[r] \in Seq(C)
             /\ BlankRow(rows[r]) <=> BlankRow(padded[r])
  <2>1. PICK row : row = rows[r]
    OBVIOUS
  <2>1a. row \in ToSet(rows)
    BY <2>1 DEF ToSet
  <2>2. row \in Seq(C) /\ padded[r] = Padded(row, n) /\ Len(row) <= n
    BY <2>1, <2>1a DEF Narrow
  <2>3. Padded(row, n) \in Seq(C) /\ (BlankRow(row) <=> BlankRow(Padded(row, n)))
    BY <2>2, PaddedRow, PaddedIsBlank
  <2> QED BY <2>1, <2>2, <2>3
<1>3. padded \in Seq(Seq(C)) /\ Len(padded) = Len(rows)
  <2>1. padded \in [1..Len(rows) -> Seq(C)]
    BY <1>1, <1>2
  <2>2. padded \in Seq(Seq(C))
    BY <1>1, <2>1, IsASequence
  <2> QED BY <1>1, <2>2, LengthOfDomain
<1>4. ASSUME NEW i \in 1..Len(rows)
      PROVE  <<rows[i], padded[i]>> \in R /\ (rows[i] \in D <=> padded[i] \in E)
  <2>1. rows[i] \in ToSet(rows) /\ padded[i] \in ToSet(padded)
    BY <1>1 DEF ToSet
  <2>2. <<rows[i], padded[i]>> \in R
    <3>1. PICK x, y : x = rows[i] /\ y = padded[i]
      OBVIOUS
    <3>2. x \in Seq(C) /\ y \in Seq(C) /\ y = Padded(x, n)
      BY <1>1, <1>2, <3>1
    <3> QED BY <3>1, <3>2
  <2> QED BY <1>1, <1>2, <2>1, <2>2
<1>5. NotBlank(rows) = Kept(rows, D) /\ NotBlank(padded) = Kept(padded, E)
  BY DEF NotBlank
<1>6. \A x, y : <<x, y>> \in R => y = Padded(x, n)
  OBVIOUS
<1> HIDE DEF R, D, E
<1>7. /\ Kept(rows, D) \in Seq(Seq(C)) /\ Kept(padded, E) \in Seq(Seq(C))
      /\ Len(Kept(rows, D)) = Len(Kept(padded, E))
      /\ \A r \in 1..Len(Kept(rows, D)) : <<Kept(rows, D)[r], Kept(padded, E)[r]>> \in R
  <2>1. PICK S : S = Seq(C)
    OBVIOUS
  <2>2. rows \in Seq(S) /\ padded \in Seq(S) /\ Len(rows) = Len(padded)
    BY <1>3, <2>1
  <2>2a. \A i \in 1..Len(rows) : <<rows[i], padded[i]>> \in R /\ (rows[i] \in D <=> padded[i] \in E)
    BY <1>4
  <2>3. PICK a, b, X, Y : a = rows /\ b = padded /\ X = D /\ Y = E
    OBVIOUS
  <2>4. a \in Seq(S) /\ b \in Seq(S) /\ Len(a) = Len(b)
    BY <2>2, <2>3
  <2>5. \A i \in 1..Len(a) : <<a[i], b[i]>> \in R /\ (a[i] \in X <=> b[i] \in Y)
    BY <2>2a, <2>3
  <2>6. /\ Kept(a, X) \in Seq(S) /\ Kept(b, Y) \in Seq(S)
        /\ Len(Kept(a, X)) = Len(Kept(b, Y))
        /\ \A m \in 1..Len(Kept(a, X)) : <<Kept(a, X)[m], Kept(b, Y)[m]>> \in R
    BY <2>4, <2>5, KeptPairs
  <2> QED BY <2>1, <2>3, <2>6
<1>8. NotBlank(padded) \in Seq(Seq(C)) /\ NotBlank(rows) \in Seq(Seq(C))
  BY <1>5, <1>7
<1>9. DOMAIN NotBlank(padded) = DOMAIN NotBlank(rows) /\ DOMAIN NotBlank(rows) = 1..Len(NotBlank(rows))
  BY <1>5, <1>7, <1>8
<1>10. \A r \in 1..Len(NotBlank(rows)) : NotBlank(padded)[r] = Padded(NotBlank(rows)[r], n)
  BY <1>5, <1>6, <1>7
<1> QED BY <1>8, <1>9, <1>10 DEF Fills

-----------------------------------------------------------------------------
\* Names with the words that stand over their columns

\* There is a greatest number in a set with a bound.
LEMMA GreatestElement ==
  ASSUME NEW S \in SUBSET Nat, S # {}, NEW K \in Nat, \A n \in S : n <= K
  PROVE  \E n \in S : \A m \in S : m <= n
<1> DEFINE T == {K - n : n \in S}
<1>1. T \in SUBSET Nat /\ T # {}
  <2>1. \A n \in S : K - n \in Nat
    OBVIOUS
  <2> QED BY <2>1
<1>2. \E t \in T : \A u \in T : t <= u
  <2> HIDE DEF T
  <2> QED BY <1>1, LeastElement
<1>3. PICK n \in S : \A u \in T : K - n <= u
  BY <1>2
<1>4. ASSUME NEW m \in S PROVE m <= n
  <2>1. K - m \in T /\ m \in Nat /\ n \in Nat
    OBVIOUS
  <2>2. K - n <= K - m
    BY <1>3, <2>1
  <2> QED BY <2>1, <2>2
<1> QED BY <1>4

LEMMA LengthsHaveABound ==
  ASSUME NEW N \in Nat, NEW lens \in [1..N -> Nat] PROVE \E K \in Nat : \A i \in 1..N : lens[i] <= K
<1> DEFINE S == {k \in Nat : k <= N => \E K \in Nat : \A i \in 1..k : lens[i] <= K}
<1>1. 0 \in S
  OBVIOUS
<1>2. ASSUME NEW k \in S, k < N PROVE k + 1 \in S
  <2>1. k \in Nat /\ k + 1 \in 1..N
    BY <1>2
  <2>2. PICK K \in Nat : \A i \in 1..k : lens[i] <= K
    BY <1>2, <2>1
  <2>3. PICK n \in Nat : n = lens[k + 1]
    BY <2>1
  <2>4. ASSUME NEW i \in 1..(k + 1) PROVE lens[i] <= K + n
    <3>1. i \in 1..k \/ i = k + 1
      BY <2>1
    <3>2. i \in 1..N
      BY <2>1
    <3>3. lens[i] \in Nat
      BY <3>2
    <3> QED BY <2>2, <2>3, <3>1, <3>3
  <2>5. K + n \in Nat
    OBVIOUS
  <2> QED BY <2>1, <2>4, <2>5
<1> HIDE DEF S
<1>3. N \in S
  <2>1. S \in SUBSET Nat
    BY DEF S
  <2> QED BY <1>1, <1>2, <2>1, FromZeroOn
<1> QED BY <1>3 DEF S

\* What the property takes for the width of a header.
WidthOf(header) ==
    CHOOSE n \in {Len(row) : row \in ToSet(header)} : \A row \in ToSet(header) : Len(row) <= n

LEMMA WidthIsReached ==
  ASSUME NEW C, NEW header \in Seq(Seq(C)), header # << >>
  PROVE  WidthOf(header) \in Nat /\ \A r \in DOMAIN header : Len(header[r]) <= WidthOf(header)
<1> DEFINE S == {Len(row) : row \in ToSet(header)}
           N == Len(header)
           lens == [r \in 1..N |-> Len(header[r])]
<1>1. N \in Nat /\ DOMAIN header = 1..N /\ 1 \in DOMAIN header
  OBVIOUS
<1>2. \A r \in 1..N : Len(header[r]) \in Nat
  <2> SUFFICES ASSUME NEW r \in 1..N PROVE Len(header[r]) \in Nat
    OBVIOUS
  <2>1. PICK row : row = header[r]
    OBVIOUS
  <2>2. row \in Seq(C)
    BY <1>1, <2>1
  <2> QED BY <2>1, <2>2
<1>3. S = {Len(header[r]) : r \in 1..N}
  BY <1>1 DEF ToSet
<1>4. S \in SUBSET Nat /\ S # {}
  BY <1>1, <1>2, <1>3
<1>5. PICK K \in Nat : \A r \in 1..N : Len(header[r]) <= K
  <2>1. lens \in [1..N -> Nat]
    BY <1>2
  <2>2. \A r \in 1..N : lens[r] = Len(header[r])
    OBVIOUS
  <2> HIDE DEF lens, N
  <2>3. \E K \in Nat : \A r \in 1..N : lens[r] <= K
    BY <1>1, <2>1, LengthsHaveABound
  <2> QED BY <2>2, <2>3
<1>6. \A n \in S : n <= K
  BY <1>3, <1>5
<1>7. \E n \in S : \A m \in S : m <= n
  <2> HIDE DEF S
  <2> QED BY <1>4, <1>6, GreatestElement
<1>8. \E n \in S : \A row \in ToSet(header) : Len(row) <= n
  BY <1>7
<1>9. WidthOf(header) \in S /\ \A row \in ToSet(header) : Len(row) <= WidthOf(header)
  BY <1>8 DEF WidthOf
<1>10. \A r \in DOMAIN header : header[r] \in ToSet(header)
  BY DEF ToSet
<1> HIDE DEF S
<1> QED BY <1>4, <1>9, <1>10

LEMMA WordsStay ==
  ASSUME NEW W, NEW base \in Seq(W), NEW marks, NEW name \in NameOrMarked(base, marks), NEW w \in ToSet(base)
  PROVE  w \in ToSet(name)
<1>1. CASE name = base
  BY <1>1
<1>2. ASSUME NEW n \in DOMAIN marks, name = Append(base, marks[n]) PROVE w \in ToSet(name)
  <2>1. PICK m, X : m = marks[n] /\ X = W \cup {m}
    OBVIOUS
  <2>2. base \in Seq(X) /\ m \in X
    BY <2>1
  <2>3. PICK i \in 1..Len(base) : w = base[i]
    BY DEF ToSet
  <2>4. i \in DOMAIN Append(base, m) /\ Append(base, m)[i] = w
    BY <2>2, <2>3
  <2> QED BY <1>2, <2>1, <2>4 DEF ToSet
<1> QED BY <1>1, <1>2 DEF NameOrMarked

\* The columns have names that differ, with the words over them.
Heads(names, N, header, merged) ==
    /\ Distinct(names, N) /\ names \in Seq(ToSet(names))
    /\ \A j \in 1..N : \A w \in WordsOver(header, j, merged) : w \in ToSet(names[j])

LEMMA NamesHead ==
  ASSUME NEW W, NEW N \in Nat, NEW bases \in Seq(Seq(W)), Len(bases) = N, NEW marks, DOMAIN marks = 1..N,
         \A m, n \in 1..N : marks[m] = marks[n] => m = n,
         NEW header, NEW merged,
         \A j \in 1..N : \A w \in WordsOver(header, j, merged) : w \in ToSet(bases[j])
  PROVE  Heads(UniqueNames(bases, marks), N, header, merged)
<1>1. PICK names : names = UniqueNames(bases, marks)
  OBVIOUS
<1>2. NamesOK(bases, marks, N, names)
  BY <1>1, NamesAreUnique
<1>3. ASSUME NEW j \in 1..N, NEW w \in WordsOver(header, j, merged) PROVE w \in ToSet(names[j])
  <2>1. PICK base : base = bases[j]
    OBVIOUS
  <2>2. base \in Seq(W) /\ names[j] \in NameOrMarked(base, marks) /\ w \in ToSet(base)
    BY <1>2, <2>1 DEF NamesOK
  <2> QED BY <2>2, WordsStay
<1>4. Heads(names, N, header, merged)
  BY <1>2, <1>3 DEF Heads, Distinct, NamesOK
<1> QED BY <1>1, <1>4

LEMMA WordsOverASingleRow ==
  ASSUME NEW row, NEW j \in Nat, NEW w \in WordsOver(<<row>>, j, FALSE)
  PROVE  row[j] # NoText /\ w \in ToSet(row[j].text)
<1> DEFINE labels == {i \in {j} : i \in DOMAIN row /\ row[i] # NoText}
<1>1. DOMAIN <<row>> = {1} /\ <<row>>[1] = row
  OBVIOUS
<1>2. labels # {} /\ w \in ToSet(row[CHOOSE i \in labels : \A k \in labels : k <= i].text)
  BY <1>1 DEF WordsOver
<1>3. labels = {j} /\ row[j] # NoText
  BY <1>2
<1>4. (CHOOSE i \in labels : \A k \in labels : k <= i) = j
  <2>1. j \in labels /\ (\A k \in labels : k <= j) /\ \A i \in labels : i = j
    BY <1>3
  <2> HIDE DEF labels
  <2> QED BY <2>1
<1> QED BY <1>2, <1>3, <1>4

\* The words of every label are words of the joined ones.
LEMMA JoinedHasAll ==
  ASSUME NEW C, NEW W, \A c \in C : c.text \in Seq(W), NEW ls \in Seq(C)
  PROVE  /\ Joined(ls) \in Seq(W)
         /\ \A i \in DOMAIN ls : \A w \in ToSet(ls[i].text) : w \in ToSet(Joined(ls))
<1> DEFINE Part(i) == IF i > 1 /\ ls[i - 1].text = ls[i].text THEN << >> ELSE ls[i].text
           parts == [i \in DOMAIN ls |-> Part(i)]
<1>1. DOMAIN ls = 1..Len(ls) /\ Len(ls) \in Nat
  OBVIOUS
<1>2. parts \in Seq(Seq(W)) /\ Len(parts) = Len(ls) /\ \A i \in DOMAIN ls : parts[i] = Part(i)
  <2>1. ASSUME NEW i \in DOMAIN ls PROVE Part(i) \in Seq(W)
    <3>1. ls[i].text \in Seq(W)
      OBVIOUS
    <3>2. << >> \in Seq(W)
      OBVIOUS
    <3> QED BY <3>1, <3>2
  <2> HIDE DEF Part
  <2>2. parts \in [1..Len(ls) -> Seq(W)]
    BY <1>1, <2>1
  <2>3. \A i \in DOMAIN ls : parts[i] = Part(i)
    OBVIOUS
  <2> HIDE DEF parts
  <2>4. parts \in Seq(Seq(W))
    BY <1>1, <2>2, IsASequence
  <2>5. Len(parts) = Len(ls)
    BY <1>1, <2>2, <2>4, LengthOfDomain
  <2> QED BY <2>3, <2>4, <2>5
<1>3. Joined(ls) = FlattenSeq(parts)
  BY Zenon DEF Joined
<1> HIDE DEF parts
<1>4. Joined(ls) \in Seq(W)
  BY <1>2, <1>3, FlatteningKeeps
<1>5. ASSUME NEW i \in DOMAIN ls, NEW w \in ToSet(ls[i].text) PROVE w \in ToSet(Joined(ls))
  <2> DEFINE S == {k \in DOMAIN ls : ls[k].text = ls[i].text}
  <2>1. S \in SUBSET Nat /\ i \in S
    BY <1>1
  <2>2. \E m \in S : \A k \in S : m <= k
    <3> HIDE DEF S
    <3> QED BY <2>1, LeastElement
  <2>3. PICK m \in S : \A k \in S : m <= k
    BY <2>2
  <2>4. m \in DOMAIN ls /\ ls[m].text = ls[i].text
    OBVIOUS
  <2>5. m > 1 => ls[m - 1].text # ls[m].text
    <3> SUFFICES ASSUME m > 1, ls[m - 1].text = ls[m].text PROVE FALSE
      OBVIOUS
    <3>1. m - 1 \in DOMAIN ls /\ m \in Nat
      BY <1>1, <2>4
    <3>2. m - 1 \in S
      BY <2>4, <3>1
    <3>3. m <= m - 1
      BY <2>3, <3>2
    <3> QED BY <3>1, <3>3
  <2>6. parts[m] = ls[i].text
    BY <1>2, <2>4, <2>5
  <2>7. m \in DOMAIN parts /\ w \in ToSet(parts[m])
    BY <1>1, <1>2, <2>4, <2>6
  <2>8. \A x : x \in ToSet(FlattenSeq(parts)) <=> \E k \in DOMAIN parts : x \in ToSet(parts[k])
    BY <1>2, FlatteningCollects
  <2>9. w \in ToSet(FlattenSeq(parts))
    BY <2>7, <2>8, Zenon
  <2> QED BY <1>3, <2>9, Zenon
<1> QED BY <1>4, <1>5

\* A merged cell's label, where it has one.
LEMMA FilledLabel ==
  ASSUME NEW C, NoText \in C, NEW row \in Seq(C), NEW n \in Nat, NEW j \in 1..n
  PROVE  LET labels == {i \in 1..j : i \in DOMAIN row /\ row[i] # NoText}
             label == FfillHeaderRow(row, n)[j]
         IN /\ label \in C
            /\ j \in DOMAIN row /\ labels # {} =>
                  label # NoText /\ label = row[CHOOSE i \in labels : \A k \in labels : k <= i]
<1> DEFINE labels == {i \in 1..j : i \in DOMAIN row /\ row[i] # NoText}
           last == CHOOSE i \in labels : \A k \in labels : k <= i
           label == FfillHeaderRow(row, n)[j]
<1>1. label = IF j \notin DOMAIN row \/ labels = {} THEN NoText ELSE row[last]
  BY DEF FfillHeaderRow
<1>2. ASSUME labels # {} PROVE last \in labels
  <2>1. labels \in SUBSET Nat /\ j \in Nat /\ \A i \in labels : i <= j
    OBVIOUS
  <2>2. \E i \in labels : \A k \in labels : k <= i
    <3> HIDE DEF labels
    <3> QED BY <1>2, <2>1, GreatestElement
  <2> QED BY <2>2
<1>3. \A i \in labels : row[i] # NoText /\ row[i] \in C
  OBVIOUS
<1> HIDE DEF labels, last, label
<1>4. label \in C /\ (j \in DOMAIN row /\ labels # {} => label # NoText /\ label = row[last])
  BY <1>1, <1>2, <1>3
<1> QED BY <1>4 DEF labels, last, label

LEMMA WordsAreOfALabel ==
  ASSUME NEW C, NoText \in C, NEW header \in Seq(Seq(C)), NEW n \in Nat, NEW j \in 1..n,
         NEW w \in WordsOver(header, j, TRUE)
  PROVE  \E r \in DOMAIN header :
            FfillHeaderRow(header[r], n)[j] # NoText /\ w \in ToSet(FfillHeaderRow(header[r], n)[j].text)
<1> DEFINE Labels(r) == {i \in 1..j : i \in DOMAIN header[r] /\ header[r][i] # NoText}
           LastOf(r) == CHOOSE i \in Labels(r) : \A k \in Labels(r) : k <= i
<1>1. PICK r \in DOMAIN header :
         w \in IF j \notin DOMAIN header[r] \/ Labels(r) = {} THEN {} ELSE ToSet(header[r][LastOf(r)].text)
  BY DEF WordsOver
<1>2. j \in DOMAIN header[r] /\ Labels(r) # {} /\ w \in ToSet(header[r][LastOf(r)].text)
  BY <1>1
<1>3. PICK row : row = header[r]
  OBVIOUS
<1>4. row \in Seq(C)
  BY <1>3
<1>5. FfillHeaderRow(row, n)[j] # NoText /\ FfillHeaderRow(row, n)[j] = row[LastOf(r)]
  <2>1. LET labels == {i \in 1..j : i \in DOMAIN row /\ row[i] # NoText}
            label == FfillHeaderRow(row, n)[j]
        IN j \in DOMAIN row /\ labels # {} =>
              label # NoText /\ label = row[CHOOSE i \in labels : \A k \in labels : k <= i]
    BY <1>4, FilledLabel
  <2>2. Labels(r) = {i \in 1..j : i \in DOMAIN row /\ row[i] # NoText}
    BY <1>3
  <2> HIDE DEF Labels
  <2> QED BY <1>2, <1>3, <2>1, <2>2
<1> QED BY <1>2, <1>3, <1>5

HeaderMarksDiffer(rows) ==
    \A row \in ToSet(rows) : \A m, n \in DOMAIN row : HeaderMark(m) = HeaderMark(n) => m = n

NamesOfHeader(names, header) ==
    \E N \in Nat : /\ Heads(names, N, header, TRUE)
                   /\ N = 0 \/ \E r \in DOMAIN header : N \in DOMAIN header[r]

\* The names of a header of several rows have the words of their labels.
LEMMA FlattenedHeads ==
  ASSUME NEW C, NoText \in C, NEW W, \A c \in C : c.text \in Seq(W), NEW header \in Seq(Seq(C)),
         HeaderMarksDiffer(header)
  PROVE  NamesOfHeader(FlattenHeader(header), header)
<1> DEFINE labelled == {j \in UNION {DOMAIN header[r] : r \in DOMAIN header} :
                           \E r \in DOMAIN header : j \in DOMAIN header[r] /\ header[r][j] # NoText}
           N == IF labelled = {} THEN 0 ELSE CHOOSE j \in labelled : \A k \in labelled : k <= j
           filled == [r \in DOMAIN header |-> FfillHeaderRow(header[r], N)]
           Column(j) == [r \in DOMAIN header |-> filled[r][j]]
           Labels(j) == Kept(Column(j), {NoText})
           Unlabelled(j) == <<"column_" \o ToString(j - 1)>>
           Base(j) == IF Labels(j) = << >> THEN Unlabelled(j) ELSE Joined(Labels(j))
           bases == [j \in 1..N |-> Base(j)]
           marks == [n \in 1..N |-> HeaderMark(n)]
<1>1. FlattenHeader(header) = UniqueNames(bases, marks)
  BY Zenon DEF FlattenHeader
<1>2. \A r \in DOMAIN header : header[r] \in Seq(C)
  OBVIOUS
<1>3. N \in Nat /\ (N = 0 \/ \E r \in DOMAIN header : N \in DOMAIN header[r])
  <2>1. CASE labelled = {}
    BY <2>1
  <2>2. CASE labelled # {}
    <3>1. labelled \in SUBSET Nat
      BY <1>2
    <3>2. PICK K \in Nat : \A j \in labelled : j <= K
      <4>1. header # << >>
        BY <2>2
      <4>2. WidthOf(header) \in Nat /\ \A r \in DOMAIN header : Len(header[r]) <= WidthOf(header)
        BY <4>1, WidthIsReached
      <4>3. \A j \in labelled : j <= WidthOf(header)
        <5> SUFFICES ASSUME NEW j \in labelled PROVE j <= WidthOf(header)
          OBVIOUS
        <5>1. PICK r \in DOMAIN header : j \in DOMAIN header[r]
          OBVIOUS
        <5>2. PICK row : row = header[r]
          OBVIOUS
        <5>3. row \in Seq(C) /\ j \in 1..Len(row) /\ Len(row) <= WidthOf(header)
          BY <4>2, <5>1, <5>2
        <5> QED BY <4>2, <5>3
      <4> QED BY <4>2, <4>3
    <3>3. \E j \in labelled : \A k \in labelled : k <= j
      <4> HIDE DEF labelled
      <4> QED BY <2>2, <3>1, <3>2, GreatestElement
    <3>4. N \in labelled
      BY <2>2, <3>3
    <3> HIDE DEF N
    <3> QED BY <3>1, <3>4
  <2> QED BY <2>1, <2>2
<1> HIDE DEF labelled, N
<1>4. ASSUME NEW j \in 1..N
      PROVE  Labels(j) \in Seq(C) /\ \A r \in DOMAIN header :
                FfillHeaderRow(header[r], N)[j] # NoText => FfillHeaderRow(header[r], N)[j] \in ToSet(Labels(j))
  <2>1. PICK column : column = Column(j)
    OBVIOUS
  <2>2. \A r \in DOMAIN header : column[r] = FfillHeaderRow(header[r], N)[j]
    BY <2>1
  <2>3. \A r \in DOMAIN header : FfillHeaderRow(header[r], N)[j] \in C
    <3> SUFFICES ASSUME NEW r \in DOMAIN header PROVE FfillHeaderRow(header[r], N)[j] \in C
      OBVIOUS
    <3>1. PICK row : row = header[r]
      OBVIOUS
    <3>2. row \in Seq(C)
      BY <1>2, <3>1
    <3> QED BY <1>3, <3>1, <3>2, FilledLabel
  <2>4. column \in Seq(C) /\ DOMAIN column = DOMAIN header
    <3>1. DOMAIN header = 1..Len(header) /\ Len(header) \in Nat
      OBVIOUS
    <3>2. DOMAIN column = DOMAIN header /\ column = [r \in DOMAIN column |-> column[r]]
      BY <2>1
    <3>3. column \in [1..Len(header) -> C]
      BY <2>2, <2>3, <3>1, <3>2
    <3> QED BY <3>1, <3>2, <3>3, IsASequence
  <2>5. Labels(j) = Kept(column, {NoText})
    BY <2>1
  <2>6. Labels(j) \in Seq(C)
    BY <2>4, <2>5, KeptAreOfTheirKind
  <2>7. ASSUME NEW r \in DOMAIN header, FfillHeaderRow(header[r], N)[j] # NoText
        PROVE  FfillHeaderRow(header[r], N)[j] \in ToSet(Labels(j))
    <3>1. r \in DOMAIN column /\ column[r] \notin {NoText}
      BY <2>2, <2>4, <2>7
    <3>2. column[r] \in ToSet(Kept(column, {NoText}))
      BY <2>4, <3>1, KeptAreThere
    <3> QED BY <2>2, <2>5, <3>2
  <2> QED BY <2>6, <2>7
<1> HIDE DEF Labels
<1> DEFINE V == W \cup {"column_" \o ToString(j - 1) : j \in 1..N}
<1>5. ASSUME NEW j \in 1..N PROVE Base(j) \in Seq(V)
  <2>1. CASE Labels(j) = << >>
    <3>1. PICK x : x = "column_" \o ToString(j - 1)
      OBVIOUS
    <3>2. Base(j) = <<x>> /\ x \in V
      BY <2>1, <3>1, Zenon
    <3> HIDE DEF V, Base
    <3> QED BY <3>2
  <2>2. CASE Labels(j) # << >>
    <3>1. Joined(Labels(j)) \in Seq(W)
      BY <1>4, JoinedHasAll
    <3>2. W \subseteq V
      BY Zenon
    <3> HIDE DEF V
    <3>3. Joined(Labels(j)) \in Seq(V)
      BY <3>1, <3>2, SeqMonotonic
    <3> QED BY <2>2, <3>3
  <2> QED BY <2>1, <2>2
<1> HIDE DEF V
<1>6. ASSUME NEW j \in 1..N, NEW w \in WordsOver(header, j, TRUE) PROVE w \in ToSet(Base(j))
  <2>1. PICK r \in DOMAIN header :
           FfillHeaderRow(header[r], N)[j] # NoText /\ w \in ToSet(FfillHeaderRow(header[r], N)[j].text)
    BY <1>3, WordsAreOfALabel
  <2>2. PICK labels, label : labels = Labels(j) /\ label = FfillHeaderRow(header[r], N)[j]
    OBVIOUS
  <2>3. labels \in Seq(C) /\ label \in ToSet(labels) /\ w \in ToSet(label.text)
    BY <1>4, <2>1, <2>2
  <2>4. PICK i \in DOMAIN labels : label = labels[i]
    BY <2>3 DEF ToSet
  <2>5. w \in ToSet(Joined(labels))
    BY <2>3, <2>4, JoinedHasAll
  <2>6. labels # << >>
    BY <2>3 DEF ToSet
  <2> HIDE DEF Unlabelled
  <2> QED BY <2>2, <2>5, <2>6
<1> HIDE DEF Base, Unlabelled, Column, filled
<1>7. /\ bases \in Seq(Seq(V)) /\ Len(bases) = N
      /\ \A j \in 1..N : bases[j] = Base(j)
  <2>1. bases \in [1..N -> Seq(V)] /\ \A j \in 1..N : bases[j] = Base(j)
    BY <1>5
  <2> HIDE DEF bases
  <2>2. bases \in Seq(Seq(V))
    BY <1>3, <2>1, IsASequence
  <2> QED BY <1>3, <2>1, <2>2, LengthOfDomain
<1>8. DOMAIN marks = 1..N /\ \A m, n \in 1..N : marks[m] = marks[n] => m = n
  <2>1. DOMAIN marks = 1..N /\ \A n \in 1..N : marks[n] = HeaderMark(n)
    OBVIOUS
  <2>2. ASSUME NEW m \in 1..N, NEW n \in 1..N, HeaderMark(m) = HeaderMark(n) PROVE m = n
    <3>1. PICK r \in DOMAIN header : N \in DOMAIN header[r]
      BY <1>3
    <3>2. header[r] \in Seq(C)
      BY <1>2
    <3>3. m \in DOMAIN header[r] /\ n \in DOMAIN header[r] /\ header[r] \in ToSet(header)
      BY <1>3, <3>1, <3>2 DEF ToSet
    <3> QED BY <2>2, <3>1, <3>3 DEF HeaderMarksDiffer
  <2> HIDE DEF marks
  <2> QED BY <2>1, <2>2
<1> HIDE DEF bases, marks
<1>9. \A j \in 1..N : \A w \in WordsOver(header, j, TRUE) : w \in ToSet(bases[j])
  BY <1>6, <1>7
<1>10. Heads(UniqueNames(bases, marks), N, header, TRUE)
  BY <1>3, <1>7, <1>8, <1>9, NamesHead
<1> QED BY <1>1, <1>3, <1>10 DEF NamesOfHeader

-----------------------------------------------------------------------------
\* The frame of a file with one header row

MarksDiffer(rows) ==
    \A row \in ToSet(rows) : \A m, n \in DOMAIN row : Mark(m) = Mark(n) => m = n

\* What pandas calls a column, or marks if it has called another one so.
Label(header, j) == IF header[j] = NoText THEN <<"Unnamed:", ToString(j - 1)>> ELSE header[j].text

NamedBy(names, header) ==
    \A j \in DOMAIN header : names[j] \in NameOrMarked(Label(header, j), [n \in DOMAIN header |-> Mark(n)])

\* The names of a frame with the rows of a file, of cells in C, under them.
Frames(frame, header, data, C) ==
    /\ header \in Seq(C) /\ data \in Seq(Seq(C)) /\ NamedBy(frame.names, header)
    /\ Heads(frame.names, Len(header), <<header>>, FALSE)
    /\ frame.rows = [r \in DOMAIN data |-> Padded(data[r], Len(header))]

LEMMA FrameOfRows ==
  ASSUME NEW C, NoText \in C, NEW W, \A c \in C : c.text \in Seq(W), NEW rows \in Seq(Seq(C)),
         MarksDiffer(rows),
         ReadCsv(rows).ended = "frame",
         NEW lines, lines = Kept(rows, {<< >>}),
         Narrow(Tail(lines), Len(Head(lines)))
  PROVE  Frames(ReadCsv(rows), Head(lines), Tail(lines), C)
<1> DEFINE header == Head(lines)
           data == Tail(lines)
           N == Len(header)
           width == IF data # << >> /\ Len(data[1]) > N THEN Len(data[1]) ELSE N
           Unnamed(j) == <<"Unnamed:", ToString(j - 1)>>
           Base(j) == IF header[j] = NoText THEN Unnamed(j) ELSE header[j].text
           bases == [j \in DOMAIN header |-> Base(j)]
           marks == [n \in DOMAIN header |-> Mark(n)]
           frame == [ended |-> "frame", names |-> UniqueNames(bases, marks),
                     rows |-> [r \in DOMAIN data |-> From(Padded(data[r], width), width - N + 1)]]
<1>1. lines # << >> /\ ReadCsv(rows) = frame
  <2>1. NoTable("no_header").ended # "frame" /\ NoTable("ragged").ended # "frame"
    BY DEF NoTable
  <2>2. ReadCsv(rows) = IF lines = << >> THEN NoTable("no_header")
                        ELSE IF \E r \in DOMAIN data : Len(data[r]) > width THEN NoTable("ragged") ELSE frame
    BY Zenon DEF ReadCsv
  <2> HIDE DEF frame, width
  <2> QED BY <2>1, <2>2, Zenon
<1>2. PICK lists : lists = Seq(C)
  OBVIOUS
<1>3. lines \in Seq(ToSet(rows)) /\ lines \in Seq(lists)
  <2>1. rows \in Seq(ToSet(rows))
    BY OfItsElements
  <2>2. rows \in Seq(lists)
    BY <1>2
  <2> QED BY <2>1, <2>2, KeptAreOfTheirKind
<1>4. header \in ToSet(rows) /\ header \in lists /\ data \in Seq(lists)
  BY <1>1, <1>3
<1>5. header \in Seq(C) /\ data \in Seq(Seq(C))
  BY <1>2, <1>4
<1>5a. \A row \in ToSet(data) : Len(row) <= N
  BY DEF Narrow
<1> HIDE DEF header
<1>6. N \in Nat /\ DOMAIN header = 1..N
  BY <1>5
<1>7. width = N
  <2>1. CASE data = << >>
    BY <2>1
  <2>2. CASE data # << >>
    <3>1. 1 \in DOMAIN data
      BY <1>5, <2>2
    <3>2. data[1] \in ToSet(data)
      BY <3>1 DEF ToSet
    <3>3. PICK row : row = data[1]
      OBVIOUS
    <3>4. row \in Seq(C)
      BY <1>5, <3>1, <3>3
    <3>5. Len(row) \in Nat /\ Len(row) <= N
      <4> HIDE DEF data, N
      <4>1. row \in ToSet(data)
        BY <3>2, <3>3
      <4> QED BY <1>5a, <3>4, <4>1
    <3> QED BY <1>6, <3>3, <3>5
  <2> QED BY <2>1, <2>2
<1> HIDE DEF data, width
<1>8. ASSUME NEW r \in DOMAIN data PROVE From(Padded(data[r], width), width - N + 1) = Padded(data[r], N)
  <2>1. width - N + 1 = 1
    BY <1>6, <1>7
  <2>2. PICK row : row = data[r]
    OBVIOUS
  <2>3. row \in Seq(C)
    BY <1>5, <2>2
  <2>4. Padded(row, N) \in Seq(C)
    BY <1>6, <2>3, PaddedRow
  <2>5. From(Padded(row, N), 1) = Padded(row, N)
    BY <2>4, FromTheFirst
  <2> QED BY <1>7, <2>1, <2>2, <2>5
<1>9. frame.rows = [r \in DOMAIN data |-> Padded(data[r], N)]
  BY <1>8
<1> DEFINE V == W \cup {"Unnamed:"} \cup {ToString(j - 1) : j \in 1..N}
<1>10. ASSUME NEW j \in 1..N PROVE Base(j) \in Seq(V)
  <2>1. CASE header[j] = NoText
    <3>1. PICK x, y : x = "Unnamed:" /\ y = ToString(j - 1)
      OBVIOUS
    <3>2. Base(j) = <<x, y>> /\ x \in V /\ y \in V
      BY <2>1, <3>1, Zenon
    <3> HIDE DEF V, Base
    <3> QED BY <3>2
  <2>2. CASE header[j] # NoText
    <3>1. PICK text : text = header[j].text
      OBVIOUS
    <3>2. text \in Seq(W)
      BY <1>5, <1>6, <3>1
    <3>3. W \subseteq V
      BY Zenon
    <3> HIDE DEF V
    <3>4. text \in Seq(V)
      BY <3>2, <3>3, SeqMonotonic
    <3> QED BY <2>2, <3>1, <3>4
  <2> QED BY <2>1, <2>2
<1> HIDE DEF V, Unnamed
<1>11. /\ bases \in Seq(Seq(V)) /\ Len(bases) = N
       /\ \A j \in 1..N : bases[j] = Base(j)
  <2> HIDE DEF Base
  <2>1. bases \in [1..N -> Seq(V)] /\ \A j \in 1..N : bases[j] = Base(j)
    BY <1>6, <1>10
  <2> HIDE DEF bases
  <2>2. bases \in Seq(Seq(V))
    BY <1>6, <2>1, IsASequence
  <2> QED BY <1>6, <2>1, <2>2, LengthOfDomain
<1>12. DOMAIN marks = 1..N /\ \A m, n \in 1..N : marks[m] = marks[n] => m = n
  <2>1. DOMAIN marks = 1..N /\ \A n \in 1..N : marks[n] = Mark(n)
    BY <1>6
  <2>2. \A m, n \in 1..N : Mark(m) = Mark(n) => m = n
    BY <1>4, <1>6 DEF MarksDiffer
  <2> HIDE DEF marks
  <2> QED BY <2>1, <2>2
<1> HIDE DEF bases, marks
<1>13. ASSUME NEW j \in 1..N, NEW w \in WordsOver(<<header>>, j, FALSE) PROVE w \in ToSet(bases[j])
  <2>1. j \in Nat
    BY <1>6
  <2>2. header[j] # NoText /\ w \in ToSet(header[j].text)
    BY <2>1, WordsOverASingleRow
  <2> QED BY <1>11, <2>2
<1>14. Heads(UniqueNames(bases, marks), N, <<header>>, FALSE)
  <2>1. PICK row : row = <<header>>
    OBVIOUS
  <2>2. \A j \in 1..N : \A w \in WordsOver(row, j, FALSE) : w \in ToSet(bases[j])
    BY <1>13, <2>1
  <2>3. Heads(UniqueNames(bases, marks), N, row, FALSE)
    BY <1>6, <1>11, <1>12, <2>2, NamesHead
  <2> QED BY <2>1, <2>3
<1>15. frame.names = UniqueNames(bases, marks)
  OBVIOUS
<1>16. NamedBy(UniqueNames(bases, marks), header)
  <2>1. PICK names : names = UniqueNames(bases, marks)
    OBVIOUS
  <2>2. \A j \in 1..N : names[j] \in NameOrMarked(bases[j], marks)
    BY <1>6, <1>11, <1>12, <2>1, NamesAreUnique DEF NamesOK
  <2>3. marks = [n \in DOMAIN header |-> Mark(n)]
    BY DEF marks
  <2>4. \A j \in 1..N : bases[j] = Label(header, j)
    BY <1>11, Zenon DEF Label, Unnamed
  <2>5. \A j \in 1..N : names[j] \in NameOrMarked(Label(header, j), [n \in DOMAIN header |-> Mark(n)])
    BY <2>2, <2>3, <2>4
  <2> QED BY <1>6, <2>1, <2>5 DEF NamedBy
<1> HIDE DEF frame
<1> QED BY <1>1, <1>5, <1>9, <1>14, <1>15, <1>16 DEF header, data, Frames

-----------------------------------------------------------------------------
\* Columns in their place

LEMMA ConvertedAsMeant ==
  ASSUME NEW type, NEW cell PROVE Convert(type, cell) = Meaning(type, cell)
<1>1. NoText.kind = "null"
  BY DEF NoText, Cell
<1> QED BY <1>1 DEF Convert, Meaning

ValuesOf(t, n) == (CHOOSE c \in ToSet(t.columns) : c.name = n).values

\* The column of a name holds what the rows have at its place, each cell converted.
IsColumn(values, n, names, N, rows, spec) ==
    \E j \in 1..N, i \in DOMAIN spec :
        /\ names[j] = n /\ spec[i].name = n
        /\ values = [r \in DOMAIN rows |-> Convert(spec[i].type, rows[r][j])]

LEMMA ColumnOfATable ==
  ASSUME NEW names, NEW N \in Nat, Distinct(names, N),
         NEW T, NEW rows \in Seq(T), NEW spec,
         NEW t, t = TypedTable(CellsByName(names, rows), spec), t.ended = "table",
         NEW c \in ToSet(t.columns)
  PROVE  IsColumn(c.values, c.name, names, N, rows, spec)
<1>1. PICK cells, n : cells = CellsByName(names, rows) /\ n = c.name
  OBVIOUS
<1> DEFINE Column(i) == [name |-> spec[i].name, type |-> spec[i].type,
                         values |-> [r \in DOMAIN cells[spec[i].name] |->
                                        Convert(spec[i].type, cells[spec[i].name][r])]]
<1>2. /\ \A i \in DOMAIN spec : spec[i].name \in DOMAIN cells
      /\ t.columns = [i \in DOMAIN spec |-> Column(i)]
  <2>1. NoTable("no_column").ended # "table" /\ NoTable("inconvertible").ended # "table"
    BY DEF NoTable
  <2> QED BY <1>1, <2>1 DEF TypedTable
<1>3. PICK i \in DOMAIN spec : c = Column(i)
  BY <1>2 DEF ToSet
<1>4. spec[i].name = n /\ c.values = [r \in DOMAIN cells[n] |-> Convert(spec[i].type, cells[n][r])]
  BY <1>1, <1>3
<1>5. DOMAIN cells = ToSet(names)
  BY <1>1 DEF CellsByName
<1>6. PICK j \in 1..N : names[j] = n
  BY <1>2, <1>4, <1>5 DEF Distinct, ToSet
<1>7. cells[n] = [r \in DOMAIN rows |-> rows[r][j]]
  <2>1. CellsByName(names, rows)[names[j]] = [r \in DOMAIN rows |-> rows[r][j]]
    BY CellsUnderAName
  <2> QED BY <1>1, <1>6, <2>1
<1>8. c.values = [r \in DOMAIN rows |-> Convert(spec[i].type, rows[r][j])]
  BY <1>4, <1>7
<1> QED BY <1>1, <1>4, <1>6, <1>8 DEF IsColumn

LEMMA ValuesAreOfAColumn ==
  ASSUME NEW t, NEW n, \E c \in ToSet(t.columns) : c.name = n
  PROVE  \E c \in ToSet(t.columns) : c.name = n /\ ValuesOf(t, n) = c.values
BY DEF ValuesOf

\* What the property says of the columns of a table.
InPlace(columns, header, data, merged) ==
    \E at \in [DOMAIN columns -> 1..WidthOf(header)] :
        /\ IsInjective(at)
        /\ \A n \in DOMAIN columns :
              /\ \A w \in WordsOver(header, at[n], merged) : w \in ToSet(n)
              /\ \E type \in Types :
                    columns[n] = [r \in DOMAIN data |-> Meaning(type, Padded(data[r], WidthOf(header))[at[n]])]

\* What is read of a table, for the names asked for.
Asked(columns, t) ==
    \E wanted \in SUBSET {c.name : c \in ToSet(t.columns)} : columns = [n \in wanted |-> ValuesOf(t, n)]

IsTyped(spec) == \A i \in DOMAIN spec : spec[i].type \in Types

LEMMA PutInPlace ==
  ASSUME NEW N \in Nat, NEW names, NEW header, NEW merged, Heads(names, N, header, merged),
         WidthOf(header) \in Nat, N <= WidthOf(header),
         NEW T, NEW rows \in Seq(T), NEW data, Fills(rows, data, N, WidthOf(header)),
         NEW spec, IsTyped(spec),
         NEW t, t = TypedTable(CellsByName(names, rows), spec), t.ended = "table",
         NEW columns, Asked(columns, t)
  PROVE  InPlace(columns, header, data, merged)
<1>0. PICK wanted \in SUBSET {c.name : c \in ToSet(t.columns)} : columns = [n \in wanted |-> ValuesOf(t, n)]
  BY DEF Asked
<1>1. \A j \in 1..N : \A w \in WordsOver(header, j, merged) : w \in ToSet(names[j])
  BY DEF Heads
<1>1a. Distinct(names, N)
  BY DEF Heads
<1> DEFINE Read(n, j) == \E type \in Types :
                            columns[n] = [r \in DOMAIN data |-> Meaning(type, Padded(data[r], WidthOf(header))[j])]
           at == [n \in wanted |-> CHOOSE j \in 1..N : names[j] = n /\ Read(n, j)]
<1>2. DOMAIN columns = wanted
  BY <1>0
<1>3. ASSUME NEW n \in wanted PROVE \E j \in 1..N : names[j] = n /\ Read(n, j)
  <2>1. columns[n] = ValuesOf(t, n)
    BY <1>0
  <2>2. \E c \in ToSet(t.columns) : c.name = n
    BY <1>0
  <2>2a. IsColumn(ValuesOf(t, n), n, names, N, rows, spec)
    <3>1. PICK c \in ToSet(t.columns) : c.name = n /\ ValuesOf(t, n) = c.values
      BY <2>2, ValuesAreOfAColumn
    <3>2. IsColumn(c.values, c.name, names, N, rows, spec)
      BY <1>1a, ColumnOfATable
    <3> QED BY <3>1, <3>2
  <2>3. PICK j \in 1..N, i \in DOMAIN spec :
           names[j] = n /\ columns[n] = [r \in DOMAIN rows |-> Convert(spec[i].type, rows[r][j])]
    BY <2>1, <2>2a DEF IsColumn
  <2>4. PICK type \in Types : type = spec[i].type
    BY DEF IsTyped
  <2>5. \A r \in DOMAIN rows : Convert(type, rows[r][j]) = Meaning(type, Padded(data[r], WidthOf(header))[j])
    BY ConvertedAsMeant DEF Fills
  <2>6. columns[n] = [r \in DOMAIN data |-> Meaning(type, Padded(data[r], WidthOf(header))[j])]
    BY <2>3, <2>4, <2>5 DEF Fills
  <2> QED BY <2>3, <2>6
<1> HIDE DEF Read
<1>4. at \in [wanted -> 1..N] /\ \A n \in wanted : names[at[n]] = n /\ Read(n, at[n])
  BY <1>3
<1> HIDE DEF at
<1>5. IsInjective(at)
  <2>1. DOMAIN at = wanted
    BY <1>4
  <2>2. \A m, n \in wanted : at[m] = at[n] => m = n
    BY <1>4
  <2> QED BY <2>1, <2>2 DEF IsInjective
<1>6. at \in [DOMAIN columns -> 1..WidthOf(header)]
  BY <1>2, <1>4
<1>7. \A n \in DOMAIN columns : \A w \in WordsOver(header, at[n], merged) : w \in ToSet(n)
  BY <1>1, <1>2, <1>4
<1> QED BY <1>2, <1>4, <1>5, <1>6, <1>7 DEF InPlace, Read

\* Of a text in some encoding a reader knows.
IsLegible(csv) == IsFile(csv) /\ csv.written \in {"utf-8-sig", "cp1252"}

LEMMA WidthOfOne ==
  ASSUME NEW C, NEW row \in Seq(C), NEW header, header = <<row>> PROVE WidthOf(header) = Len(row)
<1>1. ToSet(header) = {row}
  BY DEF ToSet
<1>2. {Len(r) : r \in ToSet(header)} = {Len(row)}
  BY <1>1
<1>3. \A r \in ToSet(header) : Len(r) <= Len(row)
  <2>1. Len(row) \in Nat
    OBVIOUS
  <2> QED BY <1>1, <2>1
<1> QED BY <1>2, <1>3 DEF WidthOf

LEMMA SpecIsTyped ==
  ASSUME NEW names, NEW schema, IsTyped(schema)
  PROVE  IsTyped(IF schema = << >> THEN AllStrings(names) ELSE schema)
<1>1. IsTyped(AllStrings(names))
  BY DEF AllStrings, IsTyped, Types
<1> QED BY <1>1, Zenon

\* parse_german_csv_bytes.
LEMMA PlainInPlace ==
  ASSUME NEW csv, IsLegible(csv), MarksDiffer(csv.rows), NEW schema, IsTyped(schema),
         NEW lines, lines = Kept(csv.rows, {<< >>}),
         NEW head, head = <<Head(lines)>>, NEW data, data = Tail(lines), Narrow(data, WidthOf(head)),
         NEW t, t = ParseGermanCsv(csv, schema), t.ended = "table",
         NEW columns, Asked(columns, t)
  PROVE  InPlace(columns, head, NotBlank(data), FALSE)
<1>1. PICK rows, frame : rows = csv.rows /\ frame = ReadCsv(rows)
  OBVIOUS
<1>2. PICK C, W : NoText \in C /\ rows \in Seq(Seq(C)) /\ \A c \in C : c.text \in Seq(W)
  BY <1>1, TextIsTyped DEF IsFile, IsLegible
<1>3. PICK spec : spec = IF schema = << >> THEN AllStrings(frame.names) ELSE schema
  OBVIOUS
<1>4. frame.ended = "frame" /\ t = TypedTable(CellsByName(frame.names, NotBlank(frame.rows)), spec)
  <2>1. Decoded(csv) = rows
    BY <1>1, DecodedAsWritten DEF IsLegible
  <2>2. t = IF frame.ended # "frame" THEN frame
            ELSE TypedTable(CellsByName(frame.names, NotBlank(frame.rows)), spec)
    BY <1>1, <1>3, <2>1, Zenon DEF ParseGermanCsv
  <2>3. frame.ended # "frame" => frame.ended # "table"
    <3>1. NoTable("no_header").ended # "table" /\ NoTable("ragged").ended # "table"
      BY DEF NoTable
    <3> QED BY <1>1, <3>1, Zenon DEF ReadCsv
  <2> QED BY <2>2, <2>3
<1>5. IsTyped(spec)
  BY <1>3, SpecIsTyped
<1>6. PICK header : header = Head(lines)
  OBVIOUS
<1>7. header \in Seq(C)
  <2>1. lines # << >>
    <3>1. NoTable("no_header").ended # "frame"
      BY DEF NoTable
    <3> QED BY <1>1, <1>4, <3>1, Zenon DEF ReadCsv
  <2>2. PICK S : S = Seq(C)
    OBVIOUS
  <2>3. lines \in Seq(S)
    BY <1>1, <1>2, <2>2, KeptAreOfTheirKind
  <2>4. header \in S
    BY <1>6, <2>1, <2>3
  <2> QED BY <2>2, <2>4
<1>8. PICK N \in Nat : N = Len(header)
  BY <1>7
<1>9. WidthOf(head) = N
  BY <1>6, <1>7, <1>8, WidthOfOne
<1>10. Narrow(data, N)
  BY <1>9
<1>11. Frames(frame, header, data, C)
  <2>1. MarksDiffer(rows) /\ lines = Kept(rows, {<< >>})
    BY <1>1
  <2>2. Narrow(Tail(lines), Len(Head(lines)))
    BY <1>6, <1>8, <1>10
  <2>3. ReadCsv(rows).ended = "frame"
    BY <1>1, <1>4
  <2>4. Frames(ReadCsv(rows), Head(lines), Tail(lines), C)
    BY <1>2, <2>1, <2>2, <2>3, FrameOfRows
  <2> QED BY <1>1, <1>6, <2>4
<1>12. PICK names, padded : names = frame.names /\ padded = frame.rows
  OBVIOUS
<1>13. data \in Seq(Seq(C)) /\ padded = [r \in DOMAIN data |-> Padded(data[r], N)]
  BY <1>8, <1>11, <1>12 DEF Frames
<1>14. Heads(names, N, head, FALSE)
  <2>1. head = <<header>>
    BY <1>6
  <2> QED BY <1>8, <1>11, <1>12, <2>1 DEF Frames
<1>15. NotBlank(padded) \in Seq(Seq(C)) /\ Fills(NotBlank(padded), NotBlank(data), N, N)
  BY <1>2, <1>10, <1>13, PaddedRowsAreKept
<1>16. PICK full, kept, T : full = NotBlank(padded) /\ kept = NotBlank(data) /\ T = Seq(C)
  OBVIOUS
<1>17. full \in Seq(T) /\ Fills(full, kept, N, WidthOf(head))
  BY <1>9, <1>15, <1>16
<1>18. t = TypedTable(CellsByName(names, full), spec)
  BY <1>4, <1>12, <1>16
<1>19. WidthOf(head) \in Nat /\ N <= WidthOf(head)
  BY <1>9
<1>21. InPlace(columns, head, kept, FALSE)
  BY <1>5, <1>14, <1>17, <1>18, <1>19, PutInPlace
<1> QED BY <1>16, <1>21

LEMMA PartsOfMarkedRows ==
  ASSUME NEW rows, HeaderMarksDiffer(rows), NEW part \in Seq(ToSet(rows))
  PROVE  HeaderMarksDiffer(part)
<1>1. \A row \in ToSet(part) : row \in ToSet(rows)
  <2>1. PICK S : S = ToSet(rows)
    OBVIOUS
  <2>2. part \in Seq(S)
    BY <2>1
  <2>3. \A row \in ToSet(part) : row \in S
    BY <2>2 DEF ToSet
  <2> QED BY <2>1, <2>3
<1> QED BY <1>1 DEF HeaderMarksDiffer

LEMMA SubSeqOfKind ==
  ASSUME NEW A, NEW s \in Seq(A), NEW B, NEW p \in Seq(B), B = ToSet(s) PROVE p \in Seq(A)
<1>1. B \subseteq A
  BY DEF ToSet
<1> QED BY <1>1, SeqMonotonic

\* What _geometry accepts, the lines and the names it tells of.
IsGeometry(g) == g.skiprows \in Nat /\ g.header_rows \in Nat \ {0} /\ g.value_type \in Types

\* parse_multi_header_csv_bytes.
LEMMA MultiInPlace ==
  ASSUME NEW csv, IsLegible(csv), HeaderMarksDiffer(csv.rows), NEW g, IsGeometry(g),
         NEW header, header = SubSeq(csv.rows, g.skiprows + 1, g.skiprows + g.header_rows),
         NEW data, data = From(csv.rows, g.skiprows + g.header_rows + 1),
         NEW t, t = ParseMultiHeaderCsv(csv, g), t.ended = "table",
         NEW columns, Asked(columns, t)
  PROVE  InPlace(columns, header, NotBlank(data), TRUE)
<1>1. PICK rows, names, kept : rows = csv.rows /\ names = FlattenHeader(header) /\ kept = NotBlank(data)
  OBVIOUS
<1>2. PICK C, W : NoText \in C /\ rows \in Seq(Seq(C)) /\ \A c \in C : c.text \in Seq(W)
  BY <1>1, TextIsTyped DEF IsFile, IsLegible
<1> DEFINE full == [r \in DOMAIN kept |-> Padded(kept[r], Len(names))]
           spec == [j \in DOMAIN names |->
                       [name |-> names[j],
                        type |-> IF j <= g.label_columns \/ names[j] \in g.text_columns
                                 THEN "string" ELSE g.value_type]]
<1>3. g.skiprows \in Nat /\ g.header_rows \in Nat \ {0} /\ g.value_type \in Types
  BY DEF IsGeometry
<1>4. g.skiprows + g.header_rows <= Len(rows) /\ t = TypedTable(CellsByName(names, full), spec)
  <2>1. Decoded(csv) = rows
    BY <1>1, DecodedAsWritten DEF IsLegible
  <2>2. NoTable("no_header").ended # "table" /\ NoTable("no_column").ended # "table"
    BY DEF NoTable
  <2>3. t = IF g.skiprows + g.header_rows > Len(rows) THEN NoTable("no_header")
            ELSE IF ~(g.text_columns \subseteq ToSet(names)) THEN NoTable("no_column")
            ELSE TypedTable(CellsByName(names, full), spec)
    BY <1>1, <2>1, Zenon DEF ParseMultiHeaderCsv
  <2>4. ~(g.skiprows + g.header_rows > Len(rows)) /\ t = TypedTable(CellsByName(names, full), spec)
    <3> HIDE DEF full, spec
    <3> QED BY <2>2, <2>3, Zenon
  <2>5. Len(rows) \in Nat
    BY <1>2
  <2> QED BY <1>3, <2>4, <2>5
<1>5. IsTyped(spec)
  BY <1>3 DEF Types, IsTyped
<1>6. PICK S, R : S = Seq(C) /\ R = ToSet(rows)
  OBVIOUS
<1>7. rows \in Seq(S) /\ Len(rows) \in Nat
  BY <1>2, <1>6
<1>8. PICK first, last \in Nat : first = g.skiprows + 1 /\ last = g.skiprows + g.header_rows
  BY <1>3
<1>9. 1 <= first /\ first <= last /\ last <= Len(rows)
  <2>1. last <= Len(rows)
    BY <1>4, <1>8
  <2>2. PICK skipped, headed : skipped = g.skiprows /\ headed = g.header_rows
    OBVIOUS
  <2>3. skipped \in Nat /\ headed \in Nat \ {0}
    BY <1>3, <2>2
  <2>4. first = skipped + 1 /\ last = skipped + headed
    BY <1>8, <2>2
  <2>5. 1 <= first /\ first <= last
    BY <2>3, <2>4
  <2> QED BY <2>1, <2>5
<1>10. header = SubSeq(rows, first, last) /\ data = SubSeq(rows, last + 1, Len(rows))
  BY <1>1, <1>8 DEF From
<1>11. header \in Seq(R) /\ header # << >>
  BY <1>6, <1>7, <1>9, <1>10, PartOfAList
<1>12. data \in Seq(R)
  <2>1. last + 1 \in Nat /\ 1 <= last + 1 /\ Len(rows) <= Len(rows)
    BY <1>7, <1>8
  <2> QED BY <1>6, <1>7, <1>10, <2>1, PartOfAList
<1>13. header \in Seq(S) /\ data \in Seq(S)
  BY <1>6, <1>7, <1>11, <1>12, SubSeqOfKind
<1>14. kept \in Seq(S)
  BY <1>1, <1>13, KeptAreOfTheirKind DEF NotBlank
<1>15. NamesOfHeader(names, header)
  <2>1. HeaderMarksDiffer(header)
    BY <1>1, <1>6, <1>11, PartsOfMarkedRows
  <2>2. header \in Seq(Seq(C))
    BY <1>6, <1>13
  <2>3. NamesOfHeader(FlattenHeader(header), header)
    BY <1>2, <2>1, <2>2, FlattenedHeads
  <2> QED BY <1>1, <2>3
<1>16. PICK N \in Nat : Heads(names, N, header, TRUE) /\ (N = 0 \/ \E r \in DOMAIN header : N \in DOMAIN header[r])
  BY <1>15 DEF NamesOfHeader
<1>17. Len(names) = N
  <2>1. PICK X : X = ToSet(names)
    OBVIOUS
  <2>2. names \in Seq(X) /\ DOMAIN names = 1..N
    BY <1>16, <2>1 DEF Heads, Distinct
  <2> QED BY <2>2, LengthOfDomain
<1>18. WidthOf(header) \in Nat /\ N <= WidthOf(header)
  <2>1. header \in Seq(Seq(C))
    BY <1>6, <1>13
  <2>2. WidthOf(header) \in Nat /\ \A r \in DOMAIN header : Len(header[r]) <= WidthOf(header)
    BY <1>11, <2>1, WidthIsReached
  <2>3. ASSUME NEW r \in DOMAIN header, N \in DOMAIN header[r] PROVE N <= WidthOf(header)
    <3>1. PICK row, width : row = header[r] /\ width = WidthOf(header)
      OBVIOUS
    <3>2. Len(row) <= width /\ N \in DOMAIN row /\ width \in Nat
      BY <2>2, <2>3, <3>1
    <3>3. row \in Seq(C)
      BY <1>6, <1>13, <3>1
    <3>4. N <= width
      BY <3>2, <3>3
    <3> QED BY <3>1, <3>4
  <2>4. N = 0 => N <= WidthOf(header)
    BY <2>2
  <2> QED BY <1>16, <2>2, <2>3, <2>4
<1>19. PICK width \in Nat : width = WidthOf(header)
  BY <1>18
<1>20. ASSUME NEW r \in DOMAIN kept
       PROVE  /\ full[r] \in S
              /\ \A j \in 1..N : full[r][j] = Padded(kept[r], width)[j]
  <2>1. PICK row : row = kept[r]
    OBVIOUS
  <2>2. row \in S
    BY <1>14, <2>1
  <2>3. row \in Seq(C) /\ full[r] = Padded(row, N)
    BY <1>6, <1>17, <2>1, <2>2
  <2>4. Padded(row, N) \in Seq(C)
    BY <1>2, <2>3, PaddedRow
  <2>4a. \A j \in 1..N : Padded(row, N)[j] = IF j \in DOMAIN row THEN row[j] ELSE NoText
    BY <1>2, <2>3, PaddedRow
  <2>5. \A j \in 1..width : Padded(row, width)[j] = IF j \in DOMAIN row THEN row[j] ELSE NoText
    BY <1>2, <2>3, PaddedRow
  <2>6. \A j \in 1..N : j \in 1..width
    BY <1>18, <1>19
  <2>7. \A j \in 1..N : Padded(row, N)[j] = Padded(row, width)[j]
    BY <2>4a, <2>5, <2>6
  <2> QED BY <1>6, <2>1, <2>3, <2>4, <2>7
<1>21. DOMAIN full = DOMAIN kept
  OBVIOUS
<1>22. full \in Seq(S)
  <2>1. DOMAIN kept = 1..Len(kept) /\ Len(kept) \in Nat
    BY <1>14
  <2>2. full \in [1..Len(kept) -> S]
    BY <1>20, <2>1
  <2> HIDE DEF full
  <2> QED BY <2>1, <2>2, IsASequence
<1> HIDE DEF full, spec
<1>23. Fills(full, kept, N, WidthOf(header))
  BY <1>19, <1>20, <1>21 DEF Fills
<1>25. t = TypedTable(CellsByName(names, full), spec) /\ Heads(names, N, header, TRUE)
  BY <1>4, <1>16
<1>26. InPlace(columns, header, kept, TRUE)
  BY <1>5, <1>18, <1>22, <1>23, <1>25, PutInPlace
<1> QED BY <1>1, <1>26

-----------------------------------------------------------------------------
\* The geometry a table was parsed with is one the reader has accepted.

Usable(reader, o) == reader = "BundeswahlleiterinReader" => IsGeometry(o.geometry)

GeometryOK ==
    /\ read.at # "idle" => Usable(read.reader, read.options)
    /\ table.ended = "loaded" => Usable(table.reader, table.options)

LEMMA InitGeometryOK == ReaderInit => GeometryOK
BY DEF ReaderInit, GeometryOK, NoRead, Ended

LEMMA EndingKeepsGeometry ==
  ASSUME NEW how, how # "loaded", Finish(Ended(how)) PROVE GeometryOK'
BY DEF Finish, Ended, NoRead, GeometryOK

LEMMA ReadingKeepsGeometry ==
  ASSUME GeometryOK, read.at # "idle", UNCHANGED table, read'.reader = read.reader, read'.options = read.options
  PROVE  GeometryOK'
BY DEF GeometryOK, Usable, IsGeometry

LEMMA AcceptedIsUsable ==
  ASSUME NEW reader, NEW o \in OptionsOf(reader) \cup {DefaultOptions}, NEW access, NEW peek,
         ~BadArguments(reader, access, o, peek)
  PROVE  Usable(reader, o)
<1> SUFFICES ASSUME reader = "BundeswahlleiterinReader" PROVE IsGeometry(o.geometry)
  BY DEF Usable
<1>1. PICK g : g = o.geometry
  OBVIOUS
<1>2. g.skiprows \in Int /\ g.header_rows \in Int
  <2>1. CASE o \in OptionsOf(reader)
    BY <1>1, <2>1, GeometriesAreInts
  <2>2. CASE o = DefaultOptions
    BY <1>1, <2>2 DEF DefaultOptions, DefaultGeometry
  <2> QED BY <2>1, <2>2
<1>3. ~(g.skiprows < 0) /\ ~(g.header_rows < 1) /\ g.value_type \in Types
  BY <1>1 DEF BadArguments, BadGeometry
<1> QED BY <1>1, <1>2, <1>3 DEF IsGeometry

LEMMA CallKeepsGeometry ==
  ASSUME NEW reader, NEW o \in OptionsOf(reader) \cup {DefaultOptions}, NEW access, NEW wanted,
         Call(reader, access, o, wanted)
  PROVE  GeometryOK'
<1>1. CASE Finish(Ended("unclaimed")) \/ Finish(Ended("bad_arguments"))
  BY <1>1, EndingKeepsGeometry
<1>2. CASE /\ ~BadArguments(reader, access, o, wanted = {})
           /\ read' = [at |-> "resolve", reader |-> reader,
                       locator |-> LocatorOf(reader, access, o, wanted = {}),
                       options |-> o, wanted |-> wanted]
           /\ table' = Ended("none")
  <2>1. Usable(reader, o)
    BY <1>2, AcceptedIsUsable
  <2>2. read'.reader = reader /\ read'.options = o /\ table'.ended # "loaded"
    BY <1>2 DEF Ended
  <2> QED BY <2>1, <2>2 DEF GeometryOK, Usable, IsGeometry
<1> QED BY <1>1, <1>2 DEF Call

LEMMA TakeKeepsGeometry ==
  ASSUME ReadOK, GeometryOK, read.at = "resolve", NEW d, Take(d) PROVE GeometryOK'
<1>1. CASE OtherLicense(read.reader, d.license)
  BY <1>1, EndingKeepsGeometry DEF Take
<1>2. CASE ~OtherLicense(read.reader, d.license)
  <2>1. /\ read' = [k \in DOMAIN read \cup {"distribution"} |->
                        IF k = "at" THEN "download" ELSE IF k = "distribution" THEN d ELSE read[k]]
        /\ UNCHANGED table
    BY <1>2 DEF Take
  <2>2. {"reader", "options"} \subseteq DOMAIN read
    BY DEF ReadOK
  <2>3. read'.reader = read.reader /\ read'.options = read.options
    BY <2>1, <2>2
  <2> QED BY <2>1, <2>3, ReadingKeepsGeometry
<1> QED BY <1>1, <1>2

LEMMA DownloadKeepsGeometry ==
  ASSUME ReadOK, GeometryOK, Download PROVE GeometryOK'
<1>1. read.at = "download"
  BY DEF Download
<1>2. CASE Finish(Ended("http_error"))
  BY <1>2, EndingKeepsGeometry
<1>3. CASE /\ read' = [k \in DOMAIN read \cup {"body"} |->
                         IF k = "at" THEN "parse" ELSE IF k = "body" THEN body[read.distribution.url] ELSE read[k]]
           /\ UNCHANGED table
  <2>1. {"reader", "options"} \subseteq DOMAIN read
    BY <1>1 DEF ReadOK
  <2>2. read'.reader = read.reader /\ read'.options = read.options
    BY <1>3, <2>1
  <2> QED BY <1>1, <1>3, <2>2, ReadingKeepsGeometry
<1> QED BY <1>2, <1>3 DEF Download

LEMMA ParseKeepsGeometry ==
  ASSUME GeometryOK, Parse PROVE GeometryOK'
<1>1. PICK t : t = ParseBody(read.reader, read.options, Content[read.body])
  OBVIOUS
<1>2. PICK reader, options : reader = read.reader /\ options = read.options
  OBVIOUS
<1>3. Usable(reader, options)
  BY <1>2 DEF Parse, GeometryOK
<1> DEFINE Loads(wanted) ==
             [ended |-> "loaded", reader |-> read.reader, columns |-> SelectedColumns(read.reader, t, wanted),
              provenance |-> Provenance(read.distribution, read.reader), body |-> read.body,
              options |-> read.options]
<1>4. ASSUME NEW wanted, Finish(Loads(wanted)) PROVE GeometryOK'
  <2>1. read'.at = "idle" /\ table'.reader = reader /\ table'.options = options
    BY <1>2, <1>4 DEF Finish, NoRead
  <2> QED BY <1>3, <2>1 DEF GeometryOK, Usable, IsGeometry
<1>5. CASE t.ended # "table" /\ Finish(Ended(t.ended))
  <2>1. t.ended # "loaded"
    BY <1>1, ParsersEnd
  <2> QED BY <1>5, <2>1, EndingKeepsGeometry
<1>6. CASE Finish(Ended("unknown_feature"))
  BY <1>6, EndingKeepsGeometry
<1>7. \/ t.ended # "table" /\ Finish(Ended(t.ended))
      \/ Finish(Loads(ColumnNames(read.reader, t)))
      \/ Finish(Ended("unknown_feature"))
      \/ Finish(Loads(read.wanted))
  BY <1>1 DEF Parse
<1> HIDE DEF Loads
<1> QED BY <1>4, <1>5, <1>6, <1>7

LEMMA StepKeepsGeometry ==
  ASSUME RInv, GeometryOK, [ReaderNext]_readerVars PROVE GeometryOK'
<1>0. ReadOK
  BY DEF RInv
<1>1. ASSUME UNCHANGED <<read, table>> PROVE GeometryOK'
  BY <1>1 DEF GeometryOK, Usable, IsGeometry
<1>2. CASE Republish \/ Revise \/ UNCHANGED readerVars
  BY <1>1, <1>2 DEF Republish, Revise, readerVars
<1>3. CASE \E reader \in Readers, access \in Accesses :
              \/ \E o \in OptionsOf(reader), wanted \in Wanted : Call(reader, access, o, wanted)
              \/ Call(reader, access, DefaultOptions, {})
  BY <1>3, CallKeepsGeometry
<1>4. CASE Resolve
  <2>1. read.at = "resolve"
    BY <1>4 DEF Resolve
  <2>2. CASE Finish(Ended("http_error")) \/ Finish(Ended("no_resource"))
    BY <2>2, EndingKeepsGeometry
  <2>3. ASSUME NEW d, Take(d) PROVE GeometryOK'
    BY <1>0, <2>1, <2>3, TakeKeepsGeometry
  <2> QED BY <1>4, <2>2, <2>3 DEF Resolve
<1> QED BY <1>0, <1>2, <1>3, <1>4, DownloadKeepsGeometry, ParseKeepsGeometry DEF ReaderNext

-----------------------------------------------------------------------------
\* The columns of a file

LEMMA TablesOfCsv ==
  ASSUME NEW reader, NEW o, NEW b, b.kind = "csv", NEW t, t = ParseBody(reader, o, b), t.ended = "table"
  PROVE  \/ reader = "BundeswahlleiterinReader" /\ t = ParseMultiHeaderCsv(b.is, o.geometry)
         \/ /\ reader \in {"GovDataReader", "StuttgartPopulationReader"}
            /\ t = ParseGermanCsv(b.is, IF reader = "StuttgartPopulationReader" THEN Schema ELSE << >>)
<1>1. NoTable("other").ended # "table"
  BY DEF NoTable
<1> QED BY <1>1 DEF ParseBody

LEMMA FileIsMarked ==
  ASSUME NEW n \in DOMAIN Content, NEW csv \in FilesIn(Content[n])
  PROVE  IsFile(csv) /\ MarksDiffer(csv.rows) /\ HeaderMarksDiffer(csv.rows)
BY FilesAreFiles, MarksAreApart DEF MarksDiffer, HeaderMarksDiffer

LEMMA CellsOfParsed ==
  ASSUME ParsedOK, GeometryOK PROVE CellsKeepTheirPlace
<1> SUFFICES ASSUME Loaded("csv"), Content[table.body].is.written \in {"utf-8-sig", "cp1252"}
             PROVE  LET f == HeaderAndData(table)
                        plain == table.reader # "BundeswahlleiterinReader"
                    IN (plain => Narrow(f.rows, WidthOf(f.header))) =>
                          InPlace(table.columns, f.header, NotBlank(f.rows), ~plain)
  BY Zenon DEF CellsKeepTheirPlace, Narrow, WidthOf, InPlace
<1>1. PICK b, csv, columns, reader, g :
         b = Content[table.body] /\ csv = b.is /\ columns = table.columns /\ reader = table.reader
         /\ g = table.options.geometry
  OBVIOUS
<1>2. b.kind = "csv" /\ table.body \in DOMAIN Content /\ table.ended = "loaded"
  BY <1>1 DEF Loaded, ParsedOK, ParsedFromItsBody
<1>3. PICK t : t = ParseBody(reader, table.options, b)
  OBVIOUS
<1>4. /\ t.ended = "table"
      /\ \E wanted \in SUBSET ColumnNames(reader, t) : columns = SelectedColumns(reader, t, wanted)
  BY <1>1, <1>2, <1>3 DEF ParsedOK, ParsedFromItsBody
<1>5. \/ reader = "BundeswahlleiterinReader" /\ t = ParseMultiHeaderCsv(csv, g)
      \/ /\ reader \in {"GovDataReader", "StuttgartPopulationReader"}
         /\ t = ParseGermanCsv(csv, IF reader = "StuttgartPopulationReader" THEN Schema ELSE << >>)
  BY <1>1, <1>2, <1>3, <1>4, TablesOfCsv
<1>6. Asked(columns, t)
  <2>1. reader # "UbaAirReader"
    BY <1>5
  <2>2. PICK wanted \in SUBSET ColumnNames(reader, t) : columns = SelectedColumns(reader, t, wanted)
    BY <1>4
  <2>3. wanted \in SUBSET {c.name : c \in ToSet(t.columns)}
    BY <2>1, <2>2 DEF ColumnNames
  <2>4. columns = [n \in wanted |-> ValuesOf(t, n)]
    BY <2>1, <2>2, Zenon DEF SelectedColumns, ValuesOf
  <2> QED BY <2>3, <2>4 DEF Asked
<1>7. IsLegible(csv) /\ MarksDiffer(csv.rows) /\ HeaderMarksDiffer(csv.rows)
  <2>1. csv \in FilesIn(Content[table.body])
    BY <1>1, <1>2 DEF FilesIn
  <2> QED BY <1>1, <1>2, <2>1, FileIsMarked DEF IsLegible
<1>8. CASE reader = "BundeswahlleiterinReader"
  <2>1. PICK header, data : header = SubSeq(csv.rows, g.skiprows + 1, g.skiprows + g.header_rows)
                            /\ data = From(csv.rows, g.skiprows + g.header_rows + 1)
    OBVIOUS
  <2>2. HeaderAndData(table) = [header |-> header, rows |-> data]
    BY <1>1, <1>8, <2>1, Zenon DEF HeaderAndData
  <2>3. IsGeometry(g) /\ t = ParseMultiHeaderCsv(csv, g)
    BY <1>1, <1>2, <1>5, <1>8 DEF GeometryOK, Usable
  <2>4. InPlace(columns, header, NotBlank(data), TRUE)
    BY <1>4, <1>6, <1>7, <2>1, <2>3, MultiInPlace
  <2>5. HeaderAndData(table).header = header /\ HeaderAndData(table).rows = data
    BY <2>2
  <2>6. (~(table.reader # "BundeswahlleiterinReader")) = TRUE
    BY <1>1, <1>8
  <2> QED BY <1>1, <2>4, <2>5, <2>6, Zenon
<1>9. CASE reader # "BundeswahlleiterinReader"
  <2>1. PICK lines, schema : lines = Kept(csv.rows, {<< >>})
                             /\ schema = IF reader = "StuttgartPopulationReader" THEN Schema ELSE << >>
    OBVIOUS
  <2>2. PICK head, data : head = <<Head(lines)>> /\ data = Tail(lines)
    OBVIOUS
  <2>3. HeaderAndData(table) = [header |-> head, rows |-> data]
    BY <1>1, <1>9, <2>1, <2>2, Zenon DEF HeaderAndData
  <2>4. HeaderAndData(table).header = head /\ HeaderAndData(table).rows = data
    BY <2>3
  <2>5. t = ParseGermanCsv(csv, schema)
    BY <1>5, <1>9, <2>1
  <2>6. IsTyped(schema)
    BY <2>1, SchemaIsTyped DEF IsTyped
  <2>7. ASSUME Narrow(data, WidthOf(head)) PROVE InPlace(columns, head, NotBlank(data), FALSE)
    BY <1>4, <1>6, <1>7, <2>1, <2>2, <2>5, <2>6, <2>7, PlainInPlace
  <2>8. (~(table.reader # "BundeswahlleiterinReader")) = FALSE
    BY <1>1, <1>9
  <2> QED BY <1>1, <1>9, <2>4, <2>7, <2>8, Zenon
<1> QED BY <1>8, <1>9

\* Whatever rows, labels and geometries there are: in a table of a file in UTF-8 or cp1252
\* each column asked for stands under words of its name in the file, and no two are one
\* (parse.py:parse_german_csv_bytes, parse_multi_header_csv_bytes, _flatten_header).
THEOREM CellsAreInPlace == ReaderSpec => []CellsKeepTheirPlace
<1>1. RInv /\ ParsedOK /\ GeometryOK /\ [ReaderNext]_readerVars => RInv' /\ ParsedOK' /\ GeometryOK'
  BY StepKeepsRInv, StepKeepsParsed, StepKeepsGeometry
<1>2. ParsedOK /\ GeometryOK => CellsKeepTheirPlace
  BY CellsOfParsed
<1> QED BY InitRInv, InitParsedOK, InitGeometryOK, <1>1, <1>2, PTL DEF ReaderSpec

-----------------------------------------------------------------------------
\* The names of a layout

LEMMA InEither ==
  ASSUME NEW S, NEW s \in Seq(S), NEW t \in Seq(S)
  PROVE  s \o t \in Seq(S) /\ \A x : x \in ToSet(s \o t) <=> x \in ToSet(s) \/ x \in ToSet(t)
<1>1. PICK m, n \in Nat : m = Len(s) /\ n = Len(t)
  OBVIOUS
<1>2. PICK st : st = s \o t
  OBVIOUS
<1>3. /\ DOMAIN s = 1..m /\ DOMAIN t = 1..n /\ DOMAIN st = 1..(m + n) /\ st \in Seq(S)
      /\ \A i \in 1..m : st[i] = s[i]
      /\ \A i \in 1..n : st[m + i] = t[i]
  BY <1>1, <1>2
<1>4. ASSUME NEW x, x \in ToSet(st) PROVE x \in ToSet(s) \/ x \in ToSet(t)
  <2>1. PICK i \in 1..(m + n) : x = st[i]
    BY <1>3, <1>4 DEF ToSet
  <2>2. CASE i <= m
    BY <1>1, <1>3, <2>1, <2>2 DEF ToSet
  <2>3. CASE i > m
    <3>1. i - m \in 1..n /\ m + (i - m) = i
      BY <1>1, <2>1, <2>3
    <3> QED BY <1>3, <2>1, <3>1 DEF ToSet
  <2> QED BY <1>1, <2>1, <2>2, <2>3
<1>5. ASSUME NEW x, x \in ToSet(s) \/ x \in ToSet(t) PROVE x \in ToSet(st)
  <2>1. CASE x \in ToSet(s)
    <3>1. PICK i \in 1..m : x = s[i]
      BY <1>3, <2>1 DEF ToSet
    <3>2. i \in 1..(m + n)
      BY <1>1, <3>1
    <3> QED BY <1>3, <3>1, <3>2 DEF ToSet
  <2>2. CASE x \in ToSet(t)
    <3>1. PICK i \in 1..n : x = t[i]
      BY <1>3, <2>2 DEF ToSet
    <3>2. m + i \in 1..(m + n)
      BY <1>1, <3>1
    <3> QED BY <1>3, <3>1, <3>2 DEF ToSet
  <2> QED BY <1>5, <2>1, <2>2
<1> QED BY <1>2, <1>3, <1>4, <1>5

BlockWords == {"variable_code", "variable_label", "variable_attribute_code", "variable_attribute_label"}

LEMMA PartsOfLayouts ==
  /\ ToSet(Prefix) = {<<"statistics_code">>, <<"statistics_label">>, <<"time_code">>, <<"time_label">>, <<"time">>}
  /\ ToSet(ValueBlock) = {<<"value">>, <<"value_unit">>, <<"value_variable_code">>, <<"value_variable_label">>}
  /\ ToSet(Quality) = {<<"value_q">>}
  /\ \A n : ToSet(Block(n)) = {<<ToString(n), w>> : w \in BlockWords}
<1>1. DOMAIN Prefix = 1..5 /\ DOMAIN ValueBlock = 1..4 /\ DOMAIN Quality = 1..1
  BY DEF Prefix, ValueBlock, Quality
<1>2. ToSet(Prefix) = {<<"statistics_code">>, <<"statistics_label">>, <<"time_code">>, <<"time_label">>, <<"time">>}
  BY <1>1 DEF ToSet, Prefix
<1>3. ToSet(ValueBlock) = {<<"value">>, <<"value_unit">>, <<"value_variable_code">>, <<"value_variable_label">>}
  BY <1>1 DEF ToSet, ValueBlock
<1>4. ToSet(Quality) = {<<"value_q">>}
  BY <1>1 DEF ToSet, Quality
<1>5. ASSUME NEW n PROVE ToSet(Block(n)) = {<<ToString(n), w>> : w \in BlockWords}
  <2>1. PICK number : number = ToString(n)
    OBVIOUS
  <2>2. PICK block : block = Block(n)
    OBVIOUS
  <2>3. /\ DOMAIN block = 1..4
        /\ block[1] = <<number, "variable_code">> /\ block[2] = <<number, "variable_label">>
        /\ block[3] = <<number, "variable_attribute_code">> /\ block[4] = <<number, "variable_attribute_label">>
    BY <2>1, <2>2 DEF Block
  <2>4. ToSet(block) = {block[1], block[2], block[3], block[4]}
    BY <2>3 DEF ToSet
  <2>5. {<<number, w>> : w \in BlockWords} = {block[1], block[2], block[3], block[4]}
    BY <2>3 DEF BlockWords
  <2> QED BY <2>1, <2>2, <2>4, <2>5
<1> QED BY <1>2, <1>3, <1>4, <1>5

\* A name of a layout is one word or a number and a word.
IsLayoutName(name) == \E w \in LastWords : name = <<w>> \/ \E x : name = <<x, w>>

LEMMA NamesOfParts ==
  /\ \A name \in ToSet(Prefix) \cup ToSet(ValueBlock) \cup ToSet(Quality) : IsLayoutName(name)
  /\ \A n : \A name \in ToSet(Block(n)) : IsLayoutName(name)
<1>1. \A w : Last(<<w>>) = w
  BY DEF Last
<1>2. \A x, w : Last(<<x, w>>) = w
  BY DEF Last
<1>3. ASSUME NEW name \in ToSet(Prefix) \cup ToSet(ValueBlock) \cup ToSet(Quality) PROVE IsLayoutName(name)
  <2>1. PICK w : name = <<w>>
    BY PartsOfLayouts
  <2>2. Last(name) \in LastWords
    BY DEF LastWords
  <2> QED BY <1>1, <2>1, <2>2 DEF IsLayoutName
<1>4. ASSUME NEW n, NEW name \in ToSet(Block(n)) PROVE IsLayoutName(name)
  <2>1. PICK w \in BlockWords : name = <<ToString(n), w>>
    BY PartsOfLayouts
  <2>2. <<ToString(1), w>> \in ToSet(Block(1))
    BY PartsOfLayouts
  <2>3. Last(<<ToString(1), w>>) \in LastWords
    BY <2>2 DEF LastWords
  <2>4. w \in LastWords
    BY <1>2, <2>3
  <2> QED BY <2>1, <2>4 DEF IsLayoutName
<1> QED BY <1>3, <1>4

LEMMA NamesOfALayout ==
  ASSUME NEW n \in Nat
  PROVE  /\ \E V : Layout(n) \in Seq(V) /\ Quality \in Seq(V)
         /\ \A x : x \in ToSet(Layout(n)) <=>
                      x \in ToSet(Prefix) \/ x \in ToSet(ValueBlock) \/ \E i \in 1..n : x \in ToSet(Block(i))
<1> DEFINE B == UNION {ToSet(Block(i)) : i \in 1..n}
           V == ToSet(Prefix) \cup ToSet(ValueBlock) \cup ToSet(Quality) \cup B
           blocks == [i \in 1..n |-> Block(i)]
<1>1. Prefix \in Seq(V) /\ ValueBlock \in Seq(V) /\ Quality \in Seq(V)
  <2>1. \A x \in V : TRUE
    OBVIOUS
  <2>2. DOMAIN Prefix = 1..5 /\ Prefix = [i \in 1..5 |-> Prefix[i]]
    BY DEF Prefix
  <2>3. DOMAIN ValueBlock = 1..4 /\ ValueBlock = [i \in 1..4 |-> ValueBlock[i]]
    BY DEF ValueBlock
  <2>4. DOMAIN Quality = 1..1 /\ Quality = [i \in 1..1 |-> Quality[i]]
    BY DEF Quality
  <2> HIDE DEF B
  <2>5. Prefix \in [1..5 -> V]
    BY <2>2 DEF ToSet
  <2>6. ValueBlock \in [1..4 -> V]
    BY <2>3 DEF ToSet
  <2>7. Quality \in [1..1 -> V]
    BY <2>4 DEF ToSet
  <2> HIDE DEF V
  <2>8. 5 \in Nat /\ 4 \in Nat /\ 1 \in Nat
    OBVIOUS
  <2> QED BY <2>5, <2>6, <2>7, <2>8, IsASequence
<1>2. ASSUME NEW i \in 1..n PROVE blocks[i] \in Seq(V)
  <2>1. PICK block : block = Block(i)
    OBVIOUS
  <2>2. DOMAIN block = 1..4 /\ block = [k \in 1..4 |-> block[k]]
    BY <2>1 DEF Block
  <2>3. \A k \in 1..4 : block[k] \in B
    <3>1. \A k \in 1..4 : block[k] \in ToSet(block)
      BY <2>2 DEF ToSet
    <3>2. ToSet(block) \in {ToSet(Block(h)) : h \in 1..n}
      BY <2>1
    <3> QED BY <3>1, <3>2
  <2>4. block \in [1..4 -> V]
    <3> HIDE DEF B
    <3> QED BY <2>2, <2>3
  <2>5. 4 \in Nat
    OBVIOUS
  <2> HIDE DEF V
  <2>6. block \in Seq(V)
    BY <2>4, <2>5, IsASequence
  <2> QED BY <2>1, <2>6
<1> HIDE DEF V
<1>3. blocks \in Seq(Seq(V))
  <2>1. blocks \in [1..n -> Seq(V)]
    BY <1>2
  <2> HIDE DEF blocks
  <2> QED BY <2>1, IsASequence
<1>4. PICK flat : flat = FlattenSeq(blocks)
  OBVIOUS
<1>5. flat \in Seq(V) /\ \A x : x \in ToSet(flat) <=> \E i \in DOMAIN blocks : x \in ToSet(blocks[i])
  BY <1>3, <1>4, FlatteningCollects
<1>6. \A x : x \in ToSet(flat) <=> \E i \in 1..n : x \in ToSet(Block(i))
  BY <1>5
<1>7. PICK first : first = Prefix \o flat
  OBVIOUS
<1>8. first \in Seq(V) /\ \A x : x \in ToSet(first) <=> x \in ToSet(Prefix) \/ x \in ToSet(flat)
  BY <1>1, <1>5, <1>7, InEither
<1>9. PICK layout : layout = first \o ValueBlock
  OBVIOUS
<1>10. layout \in Seq(V) /\ \A x : x \in ToSet(layout) <=> x \in ToSet(first) \/ x \in ToSet(ValueBlock)
  BY <1>1, <1>8, <1>9, InEither
<1>11. layout = Layout(n)
  BY <1>4, <1>7, <1>9, Zenon DEF Layout
<1> QED BY <1>1, <1>6, <1>8, <1>10, <1>11

\* What a reader may rely on of names that fit.
Fits(names) ==
    /\ \A x \in ToSet(names) : IsLayoutName(x)
    /\ <<"time">> \in ToSet(names) /\ <<"value">> \in ToSet(names) /\ <<"value_marker">> \notin ToSet(names)

LEMMA NamesThatFit ==
  ASSUME NEW X, NEW names \in Seq(X), LayoutFits(names) PROVE Fits(names)
<1>1. PICK n \in 1..Len(names) : names = Layout(n) \/ names = Layout(n) \o Quality
  BY DEF LayoutFits
<1>2. n \in Nat
  OBVIOUS
<1>3. PICK layout : layout = Layout(n)
  OBVIOUS
<1>4. \A x : x \in ToSet(layout) <=>
                x \in ToSet(Prefix) \/ x \in ToSet(ValueBlock) \/ \E i \in 1..n : x \in ToSet(Block(i))
  BY <1>2, <1>3, NamesOfALayout
<1>5. PICK V : layout \in Seq(V) /\ Quality \in Seq(V)
  BY <1>2, <1>3, NamesOfALayout
<1>6. \A x : x \in ToSet(layout \o Quality) <=> x \in ToSet(layout) \/ x \in ToSet(Quality)
  BY <1>5, InEither
<1>7. \A x : /\ x \in ToSet(layout) => x \in ToSet(names)
             /\ x \in ToSet(names) => x \in ToSet(layout) \/ x \in ToSet(Quality)
  BY <1>1, <1>3, <1>6
<1>8. ASSUME NEW x \in ToSet(names) PROVE IsLayoutName(x)
  BY <1>4, <1>7, NamesOfParts
<1>9. <<"time">> \in ToSet(names)
  BY <1>4, <1>7, PartsOfLayouts
<1>10. <<"value">> \in ToSet(names)
  BY <1>4, <1>7, PartsOfLayouts
<1>11. <<"value_marker">> \notin ToSet(names)
  <2> SUFFICES ASSUME <<"value_marker">> \in ToSet(names) PROVE FALSE
    OBVIOUS
  <2>1. <<"value_marker">> \notin ToSet(Prefix) \cup ToSet(ValueBlock) \cup ToSet(Quality)
    BY PartsOfLayouts
  <2>2. PICK i \in 1..n : <<"value_marker">> \in ToSet(Block(i))
    BY <1>4, <1>7, <2>1
  <2>3. PICK number : number = ToString(i)
    OBVIOUS
  <2>4. ToSet(Block(i)) = {<<number, w>> : w \in BlockWords}
    BY <2>3, PartsOfLayouts
  <2>5. PICK w : <<"value_marker">> = <<number, w>>
    BY <2>2, <2>4
  <2> QED BY <2>5
<1> QED BY <1>8, <1>9, <1>10, <1>11 DEF Fits

LEMMA KeptAreOthers ==
  ASSUME NEW A, NEW a \in Seq(A), NEW D, NEW x \in ToSet(Kept(a, D)) PROVE x \in ToSet(a) /\ x \notin D
<1> DEFINE Part(k) == IF a[k] \in D THEN << >> ELSE <<a[k]>>
           parts == [k \in DOMAIN a |-> Part(k)]
<1>1. DOMAIN a = 1..Len(a) /\ Len(a) \in Nat
  OBVIOUS
<1>2. parts \in Seq(Seq(A))
  <2>1. ASSUME NEW k \in DOMAIN a PROVE Part(k) \in Seq(A)
    <3>1. PICK e : e = a[k]
      OBVIOUS
    <3>2. e \in A
      BY <3>1
    <3> QED BY <3>1, <3>2
  <2> HIDE DEF Part
  <2>2. parts \in [1..Len(a) -> Seq(A)]
    BY <1>1, <2>1
  <2> HIDE DEF parts
  <2> QED BY <1>1, <2>2, IsASequence
<1>3. x \in ToSet(FlattenSeq(parts))
  BY Zenon DEF Kept
<1>4. DOMAIN parts = DOMAIN a /\ \A k \in DOMAIN a : parts[k] = Part(k)
  OBVIOUS
<1> HIDE DEF parts
<1>5. PICK k \in DOMAIN parts : x \in ToSet(parts[k])
  BY <1>2, <1>3, FlatteningCollects
<1>6. x = a[k] /\ a[k] \notin D
  <2>1. x \in ToSet(Part(k))
    BY <1>4, <1>5
  <2>2. a[k] \in D => FALSE
    BY <2>1 DEF ToSet
  <2>3. PICK e : e = a[k]
    OBVIOUS
  <2>4. x \in ToSet(<<e>>)
    BY <2>1, <2>2, <2>3
  <2> QED BY <2>2, <2>3, <2>4 DEF ToSet
<1> QED BY <1>4, <1>5, <1>6 DEF ToSet

\* The spec of all names but the time.
LEMMA SchemaOfNames ==
  ASSUME NEW X, NEW names \in Seq(X), NEW spec, spec = FfcsvSchema(names)
  PROVE  /\ \E M \in Nat : DOMAIN spec = 1..M
         /\ \A i \in DOMAIN spec :
               /\ spec[i].name \in ToSet(names) /\ spec[i].name # <<"time">>
               /\ spec[i].type = IF spec[i].name = <<"value">> THEN "float" ELSE "string"
<1>1. PICK typed : typed = Kept(names, {<<"time">>})
  OBVIOUS
<1>2. typed \in Seq(X)
  BY <1>1, KeptAreOfTheirKind
<1>3. spec = [i \in DOMAIN typed |-> [name |-> typed[i], type |-> IF typed[i] = <<"value">> THEN "float" ELSE "string"]]
  BY <1>1, Zenon DEF FfcsvSchema
<1>4. DOMAIN spec = 1..Len(typed) /\ Len(typed) \in Nat
  BY <1>2, <1>3
<1>5. ASSUME NEW i \in DOMAIN spec
      PROVE  /\ spec[i].name \in ToSet(names) /\ spec[i].name # <<"time">>
             /\ spec[i].type = IF spec[i].name = <<"value">> THEN "float" ELSE "string"
  <2>1. PICK x : x = typed[i]
    OBVIOUS
  <2>2. x \in ToSet(typed)
    BY <1>3, <2>1 DEF ToSet
  <2>3. x \in ToSet(Kept(names, {<<"time">>}))
    BY <1>1, <2>2
  <2>4. x \in ToSet(names) /\ x \notin {<<"time">>}
    BY <2>3, KeptAreOthers
  <2>5. PICK u : u = IF x = <<"value">> THEN "float" ELSE "string"
    OBVIOUS
  <2>6. spec[i] = [name |-> x, type |-> u]
    BY <1>3, <2>1, <2>5, Zenon
  <2>7. spec[i].name = x /\ spec[i].type = u
    BY <2>6
  <2> QED BY <2>4, <2>5, <2>7
<1> QED BY <1>4, <1>5

-----------------------------------------------------------------------------
\* A header whose names fit has their words for labels.

NumbersDiffer(header) ==
    \A n \in DOMAIN header : Mark(n) \notin LastWords /\ ToString(n - 1) \notin LastWords

LEMMA LastOfMarked ==
  ASSUME NEW W, NEW text \in Seq(W), NEW m, NEW w,
         Append(text, m) = <<w>> \/ \E x : Append(text, m) = <<x, w>>
  PROVE  w = m
<1>1. PICK k \in Nat : k = Len(text)
  OBVIOUS
<1>2. PICK S : S = W \cup {m}
  OBVIOUS
<1>3. text \in Seq(S) /\ m \in S
  BY <1>2, SeqMonotonic
<1>4. PICK more : more = Append(text, m)
  OBVIOUS
<1>5. Len(more) = k + 1 /\ more[k + 1] = m
  BY <1>1, <1>3, <1>4
<1>6. CASE more = <<w>>
  <2>1. Len(more) = 1 /\ more[1] = w
    BY <1>6
  <2> QED BY <1>1, <1>5, <2>1
<1>7. CASE \E x : more = <<x, w>>
  <2>1. Len(more) = 2 /\ more[2] = w
    BY <1>7
  <2>2. k + 1 = 2
    BY <1>5, <2>1
  <2> QED BY <1>5, <2>1, <2>2
<1> QED BY <1>4, <1>6, <1>7

LEMMA OneIsNotTwo ==
  ASSUME NEW u, NEW w, NEW z PROVE <<w>> # <<u, z>>
<1>1. Len(<<w>>) = 1 /\ Len(<<u, z>>) = 2
  OBVIOUS
<1> QED BY <1>1

LEMMA CalledAsLabelled ==
  ASSUME NEW C, NEW W, \A c \in C : c.text \in Seq(W), NEW header \in Seq(C), NumbersDiffer(header),
         NEW names, NamedBy(names, header), NEW j \in DOMAIN header, IsLayoutName(names[j])
  PROVE  header[j].text = names[j]
<1>1. PICK name, label, cell : name = names[j] /\ label = Label(header, j) /\ cell = header[j]
  OBVIOUS
<1>2. PICK w \in LastWords : name = <<w>> \/ \E x : name = <<x, w>>
  BY <1>1 DEF IsLayoutName
<1>3. name = label \/ \E n \in DOMAIN header : name = Append(label, Mark(n))
  <2>1. PICK marks : marks = [n \in DOMAIN header |-> Mark(n)]
    OBVIOUS
  <2>2. name \in NameOrMarked(label, marks)
    BY <1>1, <2>1 DEF NamedBy
  <2>3. DOMAIN marks = DOMAIN header /\ \A n \in DOMAIN header : marks[n] = Mark(n)
    BY <2>1
  <2> QED BY <2>2, <2>3 DEF NameOrMarked
<1>4. CASE cell # NoText
  <2>1. label = cell.text
    BY <1>1, <1>4, Zenon DEF Label
  <2>2. cell \in C
    BY <1>1
  <2>3. PICK text : text = cell.text
    OBVIOUS
  <2>4. text \in Seq(W)
    BY <2>2, <2>3
  <2>5. ASSUME NEW n \in DOMAIN header, name = Append(text, Mark(n)) PROVE FALSE
    <3>1. PICK m : m = Mark(n)
      OBVIOUS
    <3>2. Append(text, m) = <<w>> \/ \E x : Append(text, m) = <<x, w>>
      BY <1>2, <2>5, <3>1
    <3>3. w = m
      BY <2>4, <3>2, LastOfMarked
    <3> QED BY <1>2, <3>1, <3>3 DEF NumbersDiffer
  <2> QED BY <1>1, <1>3, <2>1, <2>3, <2>5
<1>5. CASE cell = NoText
  <2>1. PICK u, z : u = "Unnamed:" /\ z = ToString(j - 1)
    OBVIOUS
  <2>2. label = <<u, z>>
    BY <1>1, <1>5, <2>1, Zenon DEF Label
  <2>3. z \notin LastWords
    BY <2>1 DEF NumbersDiffer
  <2>4. name # label
    <3> SUFFICES ASSUME name = <<u, z>> PROVE FALSE
      BY <2>2
    <3>1. CASE name = <<w>>
      BY <3>1, OneIsNotTwo
    <3>2. CASE \E x : name = <<x, w>>
      <4>1. w = z
        BY <3>2
      <4> QED BY <1>2, <2>3, <4>1
    <3> QED BY <1>2, <3>1, <3>2
  <2>5. ASSUME NEW n \in DOMAIN header, name = Append(label, Mark(n)) PROVE FALSE
    <3>1. PICK m : m = Mark(n)
      OBVIOUS
    <3>2. Append(label, m) = <<w>> \/ \E x : Append(label, m) = <<x, w>>
      BY <1>2, <2>5, <3>1
    <3>3. PICK S : S = {u, z}
      OBVIOUS
    <3>4. label \in Seq(S)
      BY <2>2, <3>3
    <3>5. w = m
      BY <3>2, <3>4, LastOfMarked
    <3> QED BY <1>2, <3>1, <3>5 DEF NumbersDiffer
  <2> QED BY <1>3, <2>4, <2>5
<1> QED BY <1>4, <1>5

\* Its cells are told by their names.
Labelled(header, names, N) ==
    /\ DOMAIN header = 1..N /\ Len(header) = N
    /\ \A j \in 1..N : header[j].text = names[j]

LEMMA CellAtItsName ==
  ASSUME NEW names, NEW N \in Nat, Distinct(names, N), NEW header, Labelled(header, names, N),
         NEW row, NEW j \in 1..N
  PROVE  CellUnder(names[j], header, row) = Padded(row, N)[j]
<1>1. PICK name : name = names[j]
  OBVIOUS
<1>2. PICK k : k = CHOOSE i \in DOMAIN header : header[i].text = name
  OBVIOUS
<1>3. k \in 1..N /\ header[k].text = name
  BY <1>1, <1>2 DEF Labelled
<1>4. k = j
  BY <1>1, <1>3 DEF Labelled, Distinct
<1>5. CellUnder(name, header, row) = Padded(row, Len(header))[k]
  BY <1>2, Zenon DEF CellUnder
<1> QED BY <1>1, <1>4, <1>5 DEF Labelled

-----------------------------------------------------------------------------
\* Periods

LEMMA LastDayOfAYear ==
  ASSUME NEW n \in Int, IsStichtag(n) PROVE YearOfDay(n) * DaysInYear = n
<1>1. PICK d \in Nat \ {0} : d = DaysInYear
  BY CalendarIsACalendar
<1>2. PICK q \in Int : n = d * q
  BY <1>1 DEF IsStichtag
<1>3. (n - 1) \div d = q - 1
  BY <1>1, <1>2
<1> QED BY <1>1, <1>2, <1>3 DEF YearOfDay

\* The rows of a sheet, as read and as meant, under the names its header says.
Sheet(names, N, header, full, data, C) ==
    /\ Distinct(names, N) /\ Labelled(header, names, N)
    /\ full \in Seq(Seq(C)) /\ data \in Seq(Seq(C)) /\ Fills(full, data, N, N)

LEMMA LengthOfAFunction ==
  ASSUME NEW n \in Nat, NEW f, f = [i \in 1..n |-> f[i]] PROVE Len(f) = n
<1>1. PICK S : S = {f[i] : i \in 1..n}
  OBVIOUS
<1>2. f \in [1..n -> S]
  BY <1>1
<1>3. f \in Seq(S)
  BY <1>2, IsASequence
<1>4. DOMAIN f = 1..n
  BY <1>2
<1> QED BY <1>3, <1>4, LengthOfDomain

LEMMA CellOfASheet ==
  ASSUME NEW N \in Nat, NEW C, NoText \in C, NEW names, NEW header, NEW full, NEW data,
         Sheet(names, N, header, full, data, C), NEW j \in 1..N, NEW r \in DOMAIN data
  PROVE  CellUnder(names[j], header, data[r]) = full[r][j] /\ full[r][j] \in C
<1>1. PICK row : row = data[r]
  OBVIOUS
<1>2. row \in Seq(C)
  BY <1>1 DEF Sheet
<1>3. CellUnder(names[j], header, row) = Padded(row, N)[j]
  BY CellAtItsName DEF Sheet
<1>4. full[r][j] = Padded(row, N)[j]
  BY <1>1 DEF Sheet, Fills
<1>5. Padded(row, N) \in Seq(C) /\ Len(Padded(row, N)) = N
  BY <1>2, PaddedRow
<1>6. Padded(row, N)[j] \in C
  BY <1>5
<1> QED BY <1>1, <1>3, <1>4, <1>6

\* What the property says of one column.
ColumnIsMeant(n, values, header, data) ==
    /\ Len(values) = Len(data)
    /\ \A r \in DOMAIN data : IsMeant(n, values[r], header, data[r])

LEMMA ColumnOfASheet ==
  ASSUME NEW N \in Nat, NEW C, NEW names, NEW header, NEW full, NEW data,
         Sheet(names, N, header, full, data, C), NEW values, values = [r \in DOMAIN full |-> values[r]]
  PROVE  Len(values) = Len(data) /\ DOMAIN full = DOMAIN data
<1>1. PICK S : S = Seq(C)
  OBVIOUS
<1>2. data \in Seq(S) /\ DOMAIN full = DOMAIN data
  BY <1>1 DEF Sheet, Fills
<1>3. PICK n \in Nat : n = Len(data) /\ DOMAIN data = 1..n
  BY <1>2
<1>4. values = [r \in 1..n |-> values[r]]
  BY <1>2, <1>3
<1> QED BY <1>2, <1>3, <1>4, LengthOfAFunction

\* A column of the spec.
LEMMA TypedIsMeant ==
  ASSUME NEW N \in Nat, NEW C, NoText \in C, NEW names, NEW header, NEW full, NEW data,
         Sheet(names, N, header, full, data, C),
         NEW X, names \in Seq(X), NEW spec, spec = FfcsvSchema(names),
         NEW typed, typed = TypedTable(CellsByName(names, full), spec), typed.ended = "table",
         NEW c \in ToSet(typed.columns), c.name # <<"value_marker">>
  PROVE  ColumnIsMeant(c.name, c.values, header, data)
<1>1. PICK n, values : n = c.name /\ values = c.values
  OBVIOUS
<1>2. IsColumn(values, n, names, N, full, spec)
  <2>1. PICK T : T = Seq(C)
    OBVIOUS
  <2>2. full \in Seq(T) /\ Distinct(names, N)
    BY <2>1 DEF Sheet
  <2>3. IsColumn(c.values, c.name, names, N, full, spec)
    BY <2>2, ColumnOfATable
  <2> QED BY <1>1, <2>3
<1>3. PICK j \in 1..N, i \in DOMAIN spec :
         /\ names[j] = n /\ spec[i].name = n
         /\ values = [r \in DOMAIN full |-> Convert(spec[i].type, full[r][j])]
  BY <1>2 DEF IsColumn
<1>4. PICK type : type = IF n = <<"value">> THEN "float" ELSE "string"
  OBVIOUS
<1>5. spec[i].type = type /\ n # <<"time">>
  BY <1>3, <1>4, SchemaOfNames
<1>6. Len(values) = Len(data) /\ DOMAIN full = DOMAIN data
  BY <1>3, ColumnOfASheet
<1>7. ASSUME NEW r \in DOMAIN data PROVE IsMeant(n, values[r], header, data[r])
  <2>1. PICK cell : cell = full[r][j]
    OBVIOUS
  <2>2. CellUnder(n, header, data[r]) = cell
    BY <1>3, <2>1, CellOfASheet
  <2>3. values[r] = Convert(type, cell)
    BY <1>3, <1>5, <1>6, <2>1
  <2>4. values[r] = Meaning(type, cell)
    BY <2>3, ConvertedAsMeant
  <2>5. n # <<"value_marker">>
    BY <1>1
  <2> QED BY <1>4, <1>5, <2>2, <2>4, <2>5, Zenon DEF IsMeant
<1> QED BY <1>1, <1>6, <1>7 DEF ColumnIsMeant

LEMMA TimeIsMeant ==
  ASSUME NEW N \in Nat, NEW C, NoText \in C, \A cell \in C : cell.number \in Int,
         NEW names, NEW header, NEW full, NEW data,
         Sheet(names, N, header, full, data, C), <<"time">> \in ToSet(names),
         NEW times, times = CellsByName(names, full)[<<"time">>],
         \A r \in DOMAIN times : IsGenesisTime(times[r]),
         NEW values,
         values = [r \in DOMAIN times |-> Converted("integer", Number(ParseGenesisTime(times[r])))]
  PROVE  ColumnIsMeant(<<"time">>, values, header, data)
<1>1. PICK n : n = <<"time">>
  OBVIOUS
<1>2. PICK j \in 1..N : names[j] = n
  BY <1>1 DEF Sheet, Distinct, ToSet
<1>3. times = [r \in DOMAIN full |-> full[r][j]]
  <2>1. PICK T : T = Seq(C)
    OBVIOUS
  <2>2. full \in Seq(T) /\ Distinct(names, N)
    BY <2>1 DEF Sheet
  <2>3. CellsByName(names, full)[names[j]] = [r \in DOMAIN full |-> full[r][j]]
    BY <2>2, CellsUnderAName
  <2> QED BY <1>1, <1>2, <2>3
<1>4. Len(values) = Len(data) /\ DOMAIN full = DOMAIN data
  <2>1. DOMAIN times = DOMAIN full
    BY <1>3
  <2>2. values = [r \in DOMAIN full |-> values[r]]
    BY <2>1
  <2> QED BY <2>2, ColumnOfASheet
<1>5. ASSUME NEW r \in DOMAIN data PROVE IsMeant(n, values[r], header, data[r])
  <2>1. PICK cell : cell = full[r][j]
    OBVIOUS
  <2>2. CellUnder(n, header, data[r]) = cell /\ cell \in C
    BY <1>2, <2>1, CellOfASheet
  <2>3. times[r] = cell /\ r \in DOMAIN times
    BY <1>3, <1>4, <2>1
  <2>4. PICK year : year = ParseGenesisTime(cell)
    OBVIOUS
  <2>5. values[r].number = year
    BY <2>3, <2>4 DEF Converted, Number, Cell
  <2>6. IsGenesisTime(cell) /\ cell.number \in Int
    BY <2>2, <2>3
  <2>7. cell.number = IF cell.kind = "day" THEN year * DaysInYear ELSE year
    <3>1. CASE cell.kind = "day"
      <4>1. IsStichtag(cell.number) /\ year = YearOfDay(cell.number)
        BY <2>4, <2>6, <3>1 DEF IsGenesisTime, ParseGenesisTime
      <4> QED BY <2>6, <3>1, <4>1, LastDayOfAYear
    <3>2. CASE cell.kind # "day"
      BY <2>4, <3>2 DEF ParseGenesisTime
    <3> QED BY <3>1, <3>2
  <2> QED BY <1>1, <2>2, <2>5, <2>7, Zenon DEF IsMeant
<1> QED BY <1>1, <1>4, <1>5 DEF ColumnIsMeant

LEMMA SignIsMeant ==
  ASSUME NEW N \in Nat, NEW C, NoText \in C,
         NEW names, NEW header, NEW full, NEW data,
         Sheet(names, N, header, full, data, C), <<"value">> \in ToSet(names),
         NEW figures, figures = CellsByName(names, full)[<<"value">>],
         NEW values,
         values = [r \in DOMAIN figures |-> Converted("string", Word(ValueMarker(figures[r])))]
  PROVE  ColumnIsMeant(<<"value_marker">>, values, header, data)
<1>1. PICK n, v : n = <<"value_marker">> /\ v = <<"value">>
  OBVIOUS
<1>2. PICK j \in 1..N : names[j] = v
  BY <1>1 DEF Sheet, Distinct, ToSet
<1>3. figures = [r \in DOMAIN full |-> full[r][j]]
  <2>1. PICK T : T = Seq(C)
    OBVIOUS
  <2>2. full \in Seq(T) /\ Distinct(names, N)
    BY <2>1 DEF Sheet
  <2>3. CellsByName(names, full)[names[j]] = [r \in DOMAIN full |-> full[r][j]]
    BY <2>2, CellsUnderAName
  <2> QED BY <1>1, <1>2, <2>3
<1>4. Len(values) = Len(data) /\ DOMAIN full = DOMAIN data
  <2>1. DOMAIN figures = DOMAIN full
    BY <1>3
  <2>2. values = [r \in DOMAIN full |-> values[r]]
    BY <2>1
  <2> QED BY <2>2, ColumnOfASheet
<1>5. ASSUME NEW r \in DOMAIN data PROVE IsMeant(n, values[r], header, data[r])
  <2>1. PICK cell : cell = full[r][j]
    OBVIOUS
  <2>2. CellUnder(v, header, data[r]) = cell
    BY <1>2, <2>1, CellOfASheet
  <2>3. figures[r] = cell /\ r \in DOMAIN figures
    BY <1>3, <1>4, <2>1
  <2>4. PICK sign : sign = IF cell.kind \in {"zero", "null"} THEN cell.text ELSE << >>
    OBVIOUS
  <2>5. values[r].text = sign
    BY <2>3, <2>4 DEF Converted, Word, Cell, ValueMarker
  <2>6. n # <<"time">>
    BY <1>1
  <2> QED BY <1>1, <2>2, <2>4, <2>5, <2>6, Zenon DEF IsMeant
<1> QED BY <1>1, <1>4, <1>5 DEF ColumnIsMeant

-----------------------------------------------------------------------------
\* parse_ffcsv_bytes

\* The two columns it adds.
TimeColumn(times) ==
    [name |-> <<"time">>, type |-> "integer",
     values |-> [r \in DOMAIN times |-> Converted("integer", Number(ParseGenesisTime(times[r])))]]

SignColumn(figures) ==
    [name |-> <<"value_marker">>, type |-> "string",
     values |-> [r \in DOMAIN figures |-> Converted("string", Word(ValueMarker(figures[r])))]]

WithTwo(columns, a, b) == columns \o <<a, b>>

\* What a reply had to be for its table.
PassedIts(t, frame, cells, typed) ==
    /\ frame.ended = "frame" /\ LayoutFits(frame.names) /\ typed.ended = "table"
    /\ \A r \in DOMAIN cells[<<"time">>] : IsGenesisTime(cells[<<"time">>][r])
    /\ t.columns = WithTwo(typed.columns, TimeColumn(cells[<<"time">>]), SignColumn(cells[<<"value">>]))

LEMMA PassedTheGuards ==
  ASSUME NEW csv, NEW t, t = ParseFfcsv(csv), t.ended = "table",
         NEW frame, frame = ReadCsv(Decoded(csv)),
         NEW cells, cells = CellsByName(frame.names, NotBlank(frame.rows)),
         NEW typed, typed = TypedTable(cells, FfcsvSchema(frame.names))
  PROVE  PassedIts(t, frame, cells, typed)
<1>1. PICK times, figures : times = cells[<<"time">>] /\ figures = cells[<<"value">>]
  OBVIOUS
<1>2. PICK more : more = <<TimeColumn(times), SignColumn(figures)>>
  OBVIOUS
<1>3. t = IF frame.ended # "frame" THEN frame
          ELSE IF ~LayoutFits(frame.names) THEN NoTable("layout")
          ELSE IF typed.ended # "table" THEN typed
          ELSE IF \E r \in DOMAIN times : ~IsGenesisTime(times[r]) THEN NoTable("no_time")
          ELSE IF \E r \in DOMAIN figures : figures[r] = NoText THEN NoTable("blank_value")
          ELSE [typed EXCEPT !.columns = @ \o more]
  BY <1>1, <1>2, Zenon DEF ParseFfcsv, TimeColumn, SignColumn
<1>4. frame.ended # "frame" => frame.ended # "table"
  <2>1. NoTable("no_header").ended # "table" /\ NoTable("ragged").ended # "table"
    BY DEF NoTable
  <2> QED BY <2>1, Zenon DEF ReadCsv
<1>5. \A why \in {"layout", "no_time", "blank_value"} : NoTable(why).ended # "table"
  BY DEF NoTable
<1>6. /\ frame.ended = "frame" /\ LayoutFits(frame.names) /\ typed.ended = "table"
      /\ \A r \in DOMAIN times : IsGenesisTime(times[r])
      /\ t = [typed EXCEPT !.columns = @ \o more]
  BY <1>3, <1>4, <1>5, Zenon
<1>7. typed = [ended |-> "table", columns |-> typed.columns]
  <2>1. NoTable("no_column").ended # "table" /\ NoTable("inconvertible").ended # "table"
    BY DEF NoTable
  <2> QED BY <1>6, <2>1 DEF TypedTable
<1>8. t.columns = typed.columns \o more
  BY <1>6, <1>7
<1> QED BY <1>1, <1>2, <1>6, <1>8 DEF PassedIts, WithTwo

\* The columns of the reply, and those two.
LEMMA ColumnsOfAReply ==
  ASSUME NEW M \in Nat, NEW spec, DOMAIN spec = 1..M, NEW cells,
         NEW typed, typed = TypedTable(cells, spec), typed.ended = "table", NEW a, NEW b
  PROVE  ToSet(WithTwo(typed.columns, a, b)) \subseteq ToSet(typed.columns) \cup {a, b}
<1> DEFINE Column(i) == [name |-> spec[i].name, type |-> spec[i].type,
                         values |-> [r \in DOMAIN cells[spec[i].name] |->
                                        Convert(spec[i].type, cells[spec[i].name][r])]]
<1>1. typed.columns = [i \in DOMAIN spec |-> Column(i)]
  <2>1. NoTable("no_column").ended # "table" /\ NoTable("inconvertible").ended # "table"
    BY DEF NoTable
  <2> QED BY <2>1 DEF TypedTable
<1> HIDE DEF Column
<1>3. PICK columns, S : columns = typed.columns /\ S = {Column(i) : i \in 1..M} \cup {a, b}
  OBVIOUS
<1>4. columns \in Seq(S)
  <2>1. columns \in [1..M -> S]
    BY <1>1, <1>3
  <2> QED BY <2>1, IsASequence
<1>5. PICK more : more = <<a, b>>
  OBVIOUS
<1>6. more \in Seq(S) /\ ToSet(more) = {a, b}
  <2>1. DOMAIN more = 1..2 /\ more[1] = a /\ more[2] = b
    BY <1>5
  <2>2. ToSet(more) = {a, b}
    BY <2>1 DEF ToSet
  <2>3. a \in S /\ b \in S
    BY <1>3
  <2>4. more \in Seq(S)
    BY <1>5, <2>3
  <2> QED BY <2>2, <2>4
<1>7. \A c \in ToSet(columns \o more) : c \in ToSet(columns) \/ c \in ToSet(more)
  BY <1>4, <1>6, InEither
<1>8. WithTwo(typed.columns, a, b) = columns \o more
  BY <1>3, <1>5 DEF WithTwo
<1> QED BY <1>3, <1>6, <1>7, <1>8

NumbersAreApart(rows) == \A row \in ToSet(rows) : NumbersDiffer(row)

LEMMA LabelledByItsHeader ==
  ASSUME NEW C, NEW W, \A c \in C : c.text \in Seq(W), NEW header, NEW data, NEW frame,
         Frames(frame, header, data, C), NumbersDiffer(header), Fits(frame.names)
  PROVE  Labelled(header, frame.names, Len(header))
<1>1. PICK names, N : names = frame.names /\ N = Len(header)
  OBVIOUS
<1>2. header \in Seq(C) /\ NamedBy(names, header) /\ Distinct(names, N)
  BY <1>1 DEF Frames, Heads
<1>3. DOMAIN header = 1..N /\ N \in Nat
  BY <1>1, <1>2
<1>4. ASSUME NEW j \in 1..N PROVE header[j].text = names[j]
  <2>1. names[j] \in ToSet(names)
    BY <1>2 DEF Distinct, ToSet
  <2>2. IsLayoutName(names[j])
    BY <1>1, <2>1 DEF Fits
  <2>3. j \in DOMAIN header
    BY <1>3
  <2> QED BY <1>2, <2>2, <2>3, CalledAsLabelled
<1> QED BY <1>1, <1>3, <1>4 DEF Labelled

LEMMA SignsInPlace ==
  ASSUME NEW csv, IsLegible(csv), MarksDiffer(csv.rows), NumbersAreApart(csv.rows),
         NEW lines, lines = Kept(csv.rows, {<< >>}),
         NEW header, header = Head(lines), NEW data, data = Tail(lines), Narrow(data, Len(header)),
         NEW t, t = ParseFfcsv(csv), t.ended = "table", NEW c \in ToSet(t.columns)
  PROVE  ColumnIsMeant(c.name, c.values, header, NotBlank(data))
<1>1. PICK rows, frame : rows = csv.rows /\ frame = ReadCsv(rows)
  OBVIOUS
<1>2. PICK C, W : /\ NoText \in C /\ rows \in Seq(Seq(C)) /\ \A x \in C : x.text \in Seq(W)
                  /\ \A x \in C : x.number \in Int
  BY <1>1, TextIsTyped DEF IsFile, IsLegible
<1>3. Decoded(csv) = rows
  BY <1>1, DecodedAsWritten DEF IsLegible
<1>4. PICK names, full : names = frame.names /\ full = NotBlank(frame.rows)
  OBVIOUS
<1>5. PICK cells, spec : cells = CellsByName(names, full) /\ spec = FfcsvSchema(names)
  OBVIOUS
<1>6. PICK typed : typed = TypedTable(cells, spec)
  OBVIOUS
<1>7. PICK times, figures : times = cells[<<"time">>] /\ figures = cells[<<"value">>]
  OBVIOUS
<1>8. /\ frame.ended = "frame" /\ LayoutFits(names) /\ typed.ended = "table"
      /\ \A r \in DOMAIN times : IsGenesisTime(times[r])
      /\ t.columns = WithTwo(typed.columns, TimeColumn(times), SignColumn(figures))
  <2>1. frame = ReadCsv(Decoded(csv)) /\ cells = CellsByName(frame.names, NotBlank(frame.rows))
        /\ typed = TypedTable(cells, FfcsvSchema(frame.names))
    BY <1>1, <1>3, <1>4, <1>5, <1>6
  <2>2. PassedIts(t, frame, cells, typed)
    BY <2>1, PassedTheGuards
  <2> QED BY <1>4, <1>7, <2>2 DEF PassedIts
<1>9. Frames(frame, header, data, C)
  <2>1. MarksDiffer(rows) /\ lines = Kept(rows, {<< >>})
    BY <1>1
  <2>2. Narrow(Tail(lines), Len(Head(lines))) /\ ReadCsv(rows).ended = "frame"
    BY <1>1, <1>8
  <2>3. Frames(ReadCsv(rows), Head(lines), Tail(lines), C)
    BY <1>2, <2>1, <2>2, FrameOfRows
  <2> QED BY <1>1, <2>3
<1>10. PICK N \in Nat : N = Len(header)
  BY <1>9 DEF Frames
<1>11. PICK X : names \in Seq(X)
  BY <1>4, <1>9 DEF Frames, Heads
<1>12. Fits(names)
  BY <1>8, <1>11, NamesThatFit
<1>13. Labelled(header, names, N)
  <2>1. NumbersDiffer(header)
    <3>1. lines # << >>
      <4>1. NoTable("no_header").ended # "frame"
        BY DEF NoTable
      <4> QED BY <1>1, <1>8, <4>1, Zenon DEF ReadCsv
    <3>2. PICK S : S = Seq(C)
      OBVIOUS
    <3>3. rows \in Seq(S)
      BY <1>2, <3>2
    <3>4. lines \in Seq(S)
      BY <1>1, <3>3, KeptAreOfTheirKind
    <3>5. header \in ToSet(lines)
      BY <3>1, <3>4 DEF ToSet
    <3>6. header \in ToSet(Kept(rows, {<< >>}))
      BY <1>1, <3>5
    <3>7. header \in ToSet(rows)
      BY <3>3, <3>6, KeptAreOthers
    <3> QED BY <1>1, <3>7 DEF NumbersAreApart
  <2> QED BY <1>2, <1>4, <1>9, <1>10, <1>12, <2>1, LabelledByItsHeader
<1>14. PICK kept, padded : kept = NotBlank(data) /\ padded = frame.rows
  OBVIOUS
<1>15. Sheet(names, N, header, full, kept, C)
  <2>1. PICK S : S = Seq(C)
    OBVIOUS
  <2>2. data \in Seq(S) /\ padded = [r \in DOMAIN data |-> Padded(data[r], N)]
    BY <1>9, <1>10, <1>14, <2>1 DEF Frames
  <2>3. data \in Seq(Seq(C)) /\ Narrow(data, N)
    BY <1>10, <2>1, <2>2
  <2>4. NotBlank(padded) \in Seq(Seq(C)) /\ Fills(NotBlank(padded), NotBlank(data), N, N)
    BY <1>2, <2>2, <2>3, PaddedRowsAreKept
  <2>5. kept \in Seq(S)
    BY <1>14, <2>2, KeptAreOfTheirKind DEF NotBlank
  <2>6. Distinct(names, N)
    BY <1>4, <1>9, <1>10 DEF Frames, Heads
  <2>7. full \in Seq(Seq(C)) /\ Fills(full, kept, N, N)
    BY <1>4, <1>14, <2>4
  <2> QED BY <1>13, <2>1, <2>5, <2>6, <2>7 DEF Sheet
<1>16. CASE c \in ToSet(typed.columns)
  <2>1. c.name # <<"value_marker">>
    <3>1. PICK i \in DOMAIN spec : c.name = spec[i].name
      <4>1. PICK T : T = Seq(C)
        OBVIOUS
      <4>2. full \in Seq(T) /\ Distinct(names, N)
        BY <1>15, <4>1 DEF Sheet
      <4>3. typed = TypedTable(CellsByName(names, full), spec)
        BY <1>5, <1>6
      <4>4. IsColumn(c.values, c.name, names, N, full, spec)
        BY <1>8, <1>16, <4>2, <4>3, ColumnOfATable
      <4> QED BY <4>4 DEF IsColumn
    <3>2. c.name \in ToSet(names)
      BY <1>5, <1>11, <3>1, SchemaOfNames
    <3> QED BY <1>12, <3>2 DEF Fits
  <2>2. typed = TypedTable(CellsByName(names, full), spec)
    BY <1>5, <1>6
  <2>3. ColumnIsMeant(c.name, c.values, header, kept)
    BY <1>2, <1>5, <1>8, <1>11, <1>15, <1>16, <2>1, <2>2, TypedIsMeant
  <2> QED BY <1>14, <2>3
<1>17. CASE c = TimeColumn(times)
  <2>1. <<"time">> \in ToSet(names)
    BY <1>12 DEF Fits
  <2>2. times = CellsByName(names, full)[<<"time">>]
    BY <1>5, <1>7
  <2>3. PICK values : values = [r \in DOMAIN times |-> Converted("integer", Number(ParseGenesisTime(times[r])))]
    OBVIOUS
  <2>4. c.name = <<"time">> /\ c.values = values
    BY <1>17, <2>3 DEF TimeColumn
  <2>5. ColumnIsMeant(<<"time">>, values, header, kept)
    BY <1>2, <1>8, <1>15, <2>1, <2>2, <2>3, TimeIsMeant
  <2> QED BY <1>14, <2>4, <2>5
<1>18. CASE c = SignColumn(figures)
  <2>1. <<"value">> \in ToSet(names)
    BY <1>12 DEF Fits
  <2>2. figures = CellsByName(names, full)[<<"value">>]
    BY <1>5, <1>7
  <2>3. PICK values : values = [r \in DOMAIN figures |-> Converted("string", Word(ValueMarker(figures[r])))]
    OBVIOUS
  <2>4. c.name = <<"value_marker">> /\ c.values = values
    BY <1>18, <2>3 DEF SignColumn
  <2>5. ColumnIsMeant(<<"value_marker">>, values, header, kept)
    BY <1>2, <1>15, <2>1, <2>2, <2>3, SignIsMeant
  <2> QED BY <1>14, <2>4, <2>5
<1>19. c \in ToSet(typed.columns) \/ c = TimeColumn(times) \/ c = SignColumn(figures)
  <2>1. PICK a, b : a = TimeColumn(times) /\ b = SignColumn(figures)
    OBVIOUS
  <2>2. PICK M \in Nat : DOMAIN spec = 1..M
    BY <1>5, <1>11, SchemaOfNames
  <2>3. ToSet(WithTwo(typed.columns, a, b)) \subseteq ToSet(typed.columns) \cup {a, b}
    BY <1>6, <1>8, <2>2, ColumnsOfAReply
  <2>4. t.columns = WithTwo(typed.columns, a, b)
    BY <1>8, <2>1
  <2> QED BY <2>1, <2>3, <2>4
<1> QED BY <1>16, <1>17, <1>18, <1>19

-----------------------------------------------------------------------------
\* The tables of replies

\* Only the Destatis reader makes a table of an archive, and of its one member.
LEMMA TablesOfReplies ==
  ASSUME NEW reader, NEW o, NEW b, b.kind = "ffcsv", NEW t, t = ParseBody(reader, o, b), t.ended = "table",
         IsList(b.is.members)
  PROVE  /\ reader = "DestatisReader" /\ t = ParseFfcsv(Head(b.is.members).file)
         /\ Head(b.is.members).file \in FilesIn(b)
<1>1. NoTable("other").ended # "table"
  BY DEF NoTable
<1>2. reader = "DestatisReader" /\ t = ParseFfcsvZip(b.is)
  BY <1>1 DEF ParseBody
<1>3. PICK reply, members : reply = b.is /\ members = reply.members
  OBVIOUS
<1>4. PICK m : m = Head(members)
  OBVIOUS
<1>5. Len(members) = 1 /\ t = ParseFfcsv(m.file)
  <2>1. \A why \in {"no_single_csv", "unreadable_member"} :
           NoTable(why).ended # "extracted" /\ NoTable(why).ended # "table"
    BY DEF NoTable
  <2>2. PICK extracted : extracted = ExtractFfcsvCsv(reply)
    OBVIOUS
  <2>3. t = IF extracted.ended = "extracted" THEN ParseFfcsv(extracted.file) ELSE extracted
    BY <1>2, <1>3, <2>2, Zenon DEF ParseFfcsvZip
  <2>4. \/ extracted = NoTable("no_single_csv")
        \/ extracted = NoTable("unreadable_member")
        \/ Len(members) = 1 /\ extracted = [ended |-> "extracted", file |-> m.file]
    BY <1>3, <1>4, <2>2 DEF ExtractFfcsvCsv
  <2>5. Len(members) = 1 /\ extracted = [ended |-> "extracted", file |-> m.file]
    BY <2>1, <2>3, <2>4
  <2> QED BY <2>3, <2>5
<1>6. members \in Seq(ToSet(members))
  BY <1>3 DEF IsList
<1>7. m \in ToSet(members)
  <2>1. DOMAIN members = 1..1
    BY <1>5, <1>6
  <2>2. m = members[1]
    BY <1>4
  <2> QED BY <2>1, <2>2 DEF ToSet
<1>8. m.file \in FilesIn(b)
  BY <1>3, <1>7 DEF FilesIn
<1> QED BY <1>2, <1>3, <1>4, <1>5, <1>8

LEMMA NumbersInFiles ==
  ASSUME NEW n \in DOMAIN Content, NEW csv \in FilesIn(Content[n]) PROVE NumbersAreApart(csv.rows)
BY NumbersAreNoNames DEF NumbersAreApart, NumbersDiffer

LEMMA AskedAreMeant ==
  ASSUME NEW t, NEW columns, Asked(columns, t), NEW header, NEW data,
         \A c \in ToSet(t.columns) : ColumnIsMeant(c.name, c.values, header, data),
         NEW n \in DOMAIN columns
  PROVE  ColumnIsMeant(n, columns[n], header, data)
<1>1. PICK wanted \in SUBSET {c.name : c \in ToSet(t.columns)} : columns = [k \in wanted |-> ValuesOf(t, k)]
  BY DEF Asked
<1>2. n \in wanted /\ columns[n] = ValuesOf(t, n)
  BY <1>1
<1>3. \E c \in ToSet(t.columns) : c.name = n
  BY <1>1, <1>2
<1>4. PICK c \in ToSet(t.columns) : c.name = n /\ ValuesOf(t, n) = c.values
  BY <1>3, ValuesAreOfAColumn
<1> QED BY <1>2, <1>4

LEMMA SignsOfParsed ==
  ASSUME ParsedOK PROVE SignsStayWithTheirValues
<1>0. SUFFICES ASSUME Loaded("ffcsv"),
                    NEW csv, csv = Head(Content[table.body].is.members).file,
                    NEW lines, lines = Kept(csv.rows, {<< >>}),
                    csv.written \in {"utf-8-sig", "cp1252"}, Narrow(Tail(lines), Len(Head(lines))),
                    NEW n \in DOMAIN table.columns
             PROVE  ColumnIsMeant(n, table.columns[n], Head(lines), NotBlank(Tail(lines)))
  BY Zenon DEF SignsStayWithTheirValues, Narrow, ColumnIsMeant
<1>1. PICK b, columns, reader : b = Content[table.body] /\ columns = table.columns /\ reader = table.reader
  OBVIOUS
<1>2. b.kind = "ffcsv" /\ table.body \in DOMAIN Content /\ table.ended = "loaded"
  BY <1>0, <1>1 DEF Loaded, ParsedOK, ParsedFromItsBody
<1>3. PICK t : t = ParseBody(reader, table.options, b)
  OBVIOUS
<1>4. /\ t.ended = "table"
      /\ \E wanted \in SUBSET ColumnNames(reader, t) : columns = SelectedColumns(reader, t, wanted)
  BY <1>1, <1>2, <1>3 DEF ParsedOK, ParsedFromItsBody
<1>5. reader = "DestatisReader" /\ t = ParseFfcsv(csv) /\ csv \in FilesIn(b)
  <2>1. IsList(b.is.members)
    BY <1>1, <1>2, FilesAreFiles
  <2>2. PICK options : options = table.options
    OBVIOUS
  <2>3. t = ParseBody(reader, options, b)
    BY <1>3, <2>2
  <2>4. b.kind = "ffcsv" /\ t.ended = "table"
    BY <1>2, <1>4
  <2>5. reader = "DestatisReader" /\ t = ParseFfcsv(Head(b.is.members).file) /\ Head(b.is.members).file \in FilesIn(b)
    BY ONLY <2>1, <2>3, <2>4, TablesOfReplies
  <2>6. csv = Head(b.is.members).file
    BY <1>0, <1>1
  <2> QED BY <2>5, <2>6
<1>6. IsLegible(csv) /\ MarksDiffer(csv.rows) /\ NumbersAreApart(csv.rows)
  BY <1>0, <1>1, <1>2, <1>5, FileIsMarked, NumbersInFiles DEF IsLegible
<1>7. Asked(columns, t)
  <2>1. PICK wanted \in SUBSET ColumnNames(reader, t) : columns = SelectedColumns(reader, t, wanted)
    BY <1>4
  <2>2. wanted \in SUBSET {c.name : c \in ToSet(t.columns)}
    BY <1>5, <2>1 DEF ColumnNames
  <2>3. columns = [k \in wanted |-> ValuesOf(t, k)]
    BY <1>5, <2>1, Zenon DEF SelectedColumns, ValuesOf
  <2> QED BY <2>2, <2>3 DEF Asked
<1>8. PICK header, data : header = Head(lines) /\ data = Tail(lines)
  OBVIOUS
<1>9. \A c \in ToSet(t.columns) : ColumnIsMeant(c.name, c.values, header, NotBlank(data))
  BY <1>0, <1>4, <1>5, <1>6, <1>8, SignsInPlace
<1>10. ColumnIsMeant(n, columns[n], header, NotBlank(data))
  BY <1>0, <1>1, <1>7, <1>9, AskedAreMeant
<1> QED BY <1>1, <1>8, <1>10

\* Whatever the replies: in a table of one in UTF-8 or cp1252 each row has what its row of
\* the reply has under the names of the layout, with the year of its time and the sign of
\* its value (destatis/core/parse.py:parse_ffcsv_bytes, period.py:parse_genesis_time).
THEOREM SignsAreWithTheirValues == ReaderSpec => []SignsStayWithTheirValues
<1>1. RInv /\ ParsedOK /\ [ReaderNext]_readerVars => RInv' /\ ParsedOK'
  BY StepKeepsRInv, StepKeepsParsed
<1>2. ParsedOK => SignsStayWithTheirValues
  BY SignsOfParsed
<1> QED BY InitRInv, InitParsedOK, <1>1, <1>2, PTL DEF ReaderSpec
=============================================================================
