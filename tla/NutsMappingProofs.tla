------------------------- MODULE NutsMappingProofs -------------------------
(***************************************************************************)
(* Proofs about NutsMapping.tla: a key has one region or one reason, a     *)
(* table has one true row per key, and what change files are read decides  *)
(* how many keys are mapped, never where to; and what they settle is       *)
(* mapped.                                                                 *)
(***************************************************************************)
EXTENDS NutsMapping, WellFoundedInduction, TLAPS

LEMMA YearsAreInts == Last \in Nat \ {0} /\ Last \in Years /\ 1 \in Years /\ ChangeYears \subseteq Years
  BY LastIsAYear DEF Years, ChangeYears

-----------------------------------------------------------------------------
\* Induction over years, in the form of a least or a greatest element

LEMMA LeastElement ==
  ASSUME NEW S \in SUBSET Nat, S # {}
  PROVE  \E n \in S : \A m \in S : n <= m
  <1> DEFINE R == {p \in Nat \X Nat : p[1] < p[2]}
  <1>1. R = OpToRel(<, Nat)
    BY DEF OpToRel
  <1>2. IsWellFoundedOn(OpToRel(<, Nat), Nat)
    BY NatLessThanWellFounded
  <1>3. ASSUME NEW m \in Nat, NEW n \in Nat, m < n PROVE <<m, n>> \in R
    BY <1>3
  <1> HIDE DEF R
  <1>4. PICK n \in S : \A m \in S : ~(<<m, n>> \in R)
    BY <1>1, <1>2, WFMin
  <1>5. ASSUME NEW m \in S PROVE n <= m
    <2>1. m \in Nat /\ n \in Nat
      OBVIOUS
    <2>2. ~(m < n)
      BY <2>1, <1>3, <1>4
    <2>3. QED
      BY <2>1, <2>2
  <1>6. QED
    BY <1>5

LEMMA GreatestYear ==
  ASSUME NEW S \in SUBSET Years, S # {}
  PROVE  \E n \in S : \A m \in S : m <= n
  <1> DEFINE D == {Last - m : m \in S}
  <1>1. D \in SUBSET Nat /\ D # {}
    <2>1. \A m \in S : Last - m \in Nat
      BY LastIsAYear DEF Years
    <2>2. QED
      BY <2>1
  <1>2. \A m \in S : Last - m \in D
    OBVIOUS
  <1>3. \A d \in D : \E n \in S : d = Last - n
    OBVIOUS
  <1> HIDE DEF D
  <1>4. PICK d \in D : \A e \in D : d <= e
    BY <1>1, LeastElement
  <1>5. PICK n \in S : d = Last - n
    BY <1>3
  <1>6. ASSUME NEW m \in S PROVE m <= n
    <2>1. Last - n <= Last - m
      BY <1>2, <1>4, <1>5
    <2>2. m \in Int /\ n \in Int /\ Last \in Int
      BY LastIsAYear DEF Years
    <2>3. QED
      BY <2>1, <2>2
  <1>7. QED
    BY <1>6

-----------------------------------------------------------------------------
\* The operators

\* The crosswalk has one row per Gemeinde, with its own region.
LEMMA LauRow ==
  ASSUME NEW row \in LauRows, region \in [Gemeinden -> Regions]
  PROVE  row.nuts3 \in Regions /\ row.nuts3 = region[row.gemeinde]
  BY DEF LauRows

\* Without a Kreis in two regions, no key resolves to two.
LEMMA OneRegion ==
  ASSUME NEW key, NEW years, ~SomeKreisSpans, region \in [Gemeinden -> Regions],
         NEW r \in Resolve(key, years), NEW s \in Resolve(key, years)
  PROVE  r = s
  <1>1. ASSUME NEW k, NEW a \in KreisIndex(k), NEW b \in KreisIndex(k) PROVE a = b
    BY <1>1 DEF KreisIndex, SomeKreisSpans
  <1>2. CASE key.level = "Kreis" /\ KreisIndex(key.kreis) # {}
    BY <1>2, <1>1 DEF Resolve
  <1>3. CASE key.level = "Kreis" /\ KreisIndex(key.kreis) = {}
    <2>1. /\ ~Ambiguous(key.kreis, years)
          /\ r \in UNION {KreisIndex(k) : k \in Candidates(key.kreis, years)}
          /\ s \in UNION {KreisIndex(k) : k \in Candidates(key.kreis, years)}
      BY <1>3 DEF Resolve
    <2>2. PICK k \in Candidates(key.kreis, years) : r \in KreisIndex(k)
      BY <2>1
    <2>3. PICK l \in Candidates(key.kreis, years) : s \in KreisIndex(l)
      BY <2>1
    <2>4. k = l
      BY <2>1 DEF Ambiguous
    <2>5. QED
      BY <2>2, <2>3, <2>4, <1>1
  <1>4. CASE key.level = "Gemeinde"
    <2>1. Resolve(key, years) =
            {row.nuts3 : row \in {row \in LauRows : row.kreis = key.kreis /\ row.gemeinde = key.gemeinde}}
      BY <1>4 DEF Resolve
    <2>2. PICK p \in LauRows : p.gemeinde = key.gemeinde /\ r = p.nuts3
      BY <2>1
    <2>3. PICK q \in LauRows : q.gemeinde = key.gemeinde /\ s = q.nuts3
      BY <2>1
    <2>4. QED
      BY <2>2, <2>3, LauRow
  <1>5. CASE key.level \notin {"Kreis", "Gemeinde"}
    BY <1>5 DEF Resolve
  <1>6. QED
    BY <1>2, <1>3, <1>4, <1>5

\* What a key resolves to is a region of the crosswalk.
LEMMA ResolveRange ==
  ASSUME NEW key, NEW years, region \in [Gemeinden -> Regions]
  PROVE  Resolve(key, years) \subseteq Regions
  <1>1. \A k : KreisIndex(k) \subseteq Regions
    BY LauRow DEF KreisIndex
  <1>2. CASE key.level = "Kreis"
    BY <1>2, <1>1 DEF Resolve
  <1>3. CASE key.level = "Gemeinde"
    BY <1>3, LauRow DEF Resolve
  <1>4. CASE key.level \notin {"Kreis", "Gemeinde"}
    BY <1>4 DEF Resolve
  <1>5. QED
    BY <1>2, <1>3, <1>4

\* There is always a reason to give.
LEMMA ReasonRange ==
  ASSUME NEW key, NEW years
  PROVE  Reason(key, years) \in Reasons /\ Reason(key, years) # ""
  BY DEF Reason, Reasons

LEMMA PresentKeys ==
  ASSUME NEW column \in Columns
  PROVE  Present(column) \subseteq Keys /\ \A i \in DOMAIN column : column[i] \in Keys \cup {Null}
  BY ColumnsAreKeys DEF Present

LEMMA MatchedElement ==
  ASSUME NEW keys, NEW years, NEW m
  PROVE  m \in Matched(keys, years) <=>
            \E k \in keys : \E r \in Resolve(k, years) : m = [key |-> k, nuts3 |-> r]
  BY DEF Matched

LEMMA UnmatchedElement ==
  ASSUME NEW keys, NEW years, NEW u
  PROVE  u \in Unmatched(keys, years) <=>
            \E k \in keys : Resolve(k, years) = {} /\ u = [key |-> k, reason |-> Reason(k, years)]
  BY DEF Unmatched

\* More change files give a key more candidates.
LEMMA MoreFiles ==
  ASSUME NEW years \in SUBSET ChangeYears, NEW k
  PROVE  Candidates(k, years) \subseteq Candidates(k, ChangeYears)
  BY DEF Candidates, Changes

LEMMA KreisRegions ==
  ASSUME NEW k, NEW g \in Held(Last, k)
  PROVE  region[g] \in KreisIndex(k)
  <1>1. [kreis |-> k, gemeinde |-> g, nuts3 |-> region[g]] \in LauRows
    BY DEF Held, LauRows
  <1>2. QED
    BY <1>1 DEF KreisIndex

LEMMA KreisOneRegion ==
  ASSUME ~SomeKreisSpans, NEW k, NEW r \in KreisIndex(k), NEW s \in KreisIndex(k)
  PROVE  r = s
  BY DEF KreisIndex, SomeKreisSpans

LEMMA KreisIndexStands ==
  ASSUME NEW k, KreisIndex(k) # {}
  PROVE  Last \in Standing(k)
  BY YearsAreInts DEF KreisIndex, LauRows, Standing, Held

LEMMA LastYearIsLast ==
  ASSUME NEW k, Standing(k) # {}
  PROVE  /\ LastYear(k) \in Standing(k)
         /\ \A y \in Standing(k) : y <= LastYear(k)
  <1>1. \E n \in Standing(k) : \A m \in Standing(k) : m <= n
    BY GreatestYear DEF Standing
  <1>2. QED
    BY <1>1 DEF LastYear

\* Who changes Kreis shows in a change file.
LEMMA MoveIsChange ==
  ASSUME NEW y \in ChangeYears, NEW g \in Gemeinden, borders[y - 1][g] # borders[y][g]
  PROVE  borders[y][g] \in Candidates(borders[y - 1][g], ChangeYears)
  <1>1. [from |-> borders[y - 1][g], to |-> borders[y][g], year |-> y] \in Changes(ChangeYears)
    BY DEF ChangeFile, Changes
  <1>2. QED
    BY <1>1 DEF Candidates

\* A candidate's origin once stood.
LEMMA CandidateOrigin ==
  ASSUME NEW k, NEW years \in SUBSET ChangeYears, Candidates(k, years) # {}
  PROVE  Standing(k) # {}
  <1>1. PICK y \in years, g \in Gemeinden : borders[y - 1][g] = k
    BY DEF Candidates, Changes, ChangeFile
  <1>2. y - 1 \in Years
    BY LastIsAYear DEF ChangeYears, Years
  <1>3. QED
    BY <1>1, <1>2 DEF Standing, Held

\* Where a Kreis gives nothing away, who is in it stays in it.
LEMMA StaysPut ==
  ASSUME NEW c, NEW y \in Years, NEW g \in Gemeinden, borders[y][g] = c,
         Candidates(c, ChangeYears) = {}
  PROVE  borders[Last][g] = c
  <1> DEFINE Away == {z \in y..Last : borders[z][g] # c}
  <1>1. y \in Nat /\ Last \in Nat /\ y <= Last /\ 1 <= y
    BY LastIsAYear DEF Years
  <1>2. SUFFICES ASSUME borders[Last][g] # c PROVE FALSE
    OBVIOUS
  <1>3. Away \in SUBSET Nat /\ Away # {}
    BY <1>1, <1>2
  <1>4. PICK z \in Away : \A w \in Away : z <= w
    <2> HIDE DEF Away
    <2>1. QED
      BY <1>3, LeastElement
  <1>5. z \in y..Last /\ borders[z][g] # c /\ z # y
    OBVIOUS
  <1>6. z - 1 \in y..Last /\ z \in ChangeYears
    BY <1>1, <1>5 DEF ChangeYears
  <1>7. borders[z - 1][g] = c
    BY <1>1, <1>4, <1>5, <1>6
  <1>8. borders[z][g] \in Candidates(c, ChangeYears)
    BY <1>5, <1>6, <1>7, MoveIsChange
  <1>9. QED
    BY <1>8

\* The region of a redirected Kreis is the one all its last Gemeinden are in.
LEMMA RedirectIsTrue ==
  ASSUME ~SomeKreisSpans, NEW key, key.level = "Kreis", Retired(key.kreis),
         \A c \in Candidates(key.kreis, ChangeYears) : Candidates(c, ChangeYears) = {},
         NEW r \in Resolve(key, ChangeYears), NEW g \in Held(LastYear(key.kreis), key.kreis)
  PROVE  region[g] = r
  <1> DEFINE k == key.kreis
             y == LastYear(k)
             c == borders[y + 1][g]
  <1>1. y \in Standing(k) /\ \A z \in Standing(k) : z <= y
    BY LastYearIsLast DEF Retired
  <1>2. Last \notin Standing(k)
    BY DEF Retired
  <1>3. y \in Years /\ y # Last
    BY <1>1, <1>2 DEF Standing
  <1>4. y + 1 \in ChangeYears /\ y + 1 \in Years /\ (y + 1) - 1 = y
    BY <1>3, LastIsAYear DEF Years, ChangeYears
  <1>5. g \in Gemeinden /\ borders[y][g] = k
    BY DEF Held
  <1> HIDE DEF k, y, c
  <1>6. c # k
    <2>1. y + 1 \notin Standing(k)
      BY <1>1, <1>3, LastIsAYear DEF Years
    <2>2. QED
      BY <2>1, <1>4, <1>5 DEF Standing, Held, c
  <1>7. c \in Candidates(k, ChangeYears)
    BY <1>4, <1>5, <1>6, MoveIsChange DEF c
  <1>8. KreisIndex(k) = {}
    BY <1>2, KreisIndexStands
  <1>9. /\ ~Ambiguous(k, ChangeYears)
        /\ r \in UNION {KreisIndex(l) : l \in Candidates(k, ChangeYears)}
    BY <1>8 DEF Resolve, k
  <1>10. r \in KreisIndex(c)
    BY <1>7, <1>9 DEF Ambiguous
  <1>11. borders[Last][g] = c
    <2>1. Candidates(c, ChangeYears) = {}
      BY <1>7 DEF k
    <2>2. QED
      BY <2>1, <1>4, <1>5, StaysPut DEF c
  <1>12. region[g] \in KreisIndex(c)
    BY <1>5, <1>11, KreisRegions DEF Held
  <1>13. QED
    BY <1>10, <1>12, KreisOneRegion

-----------------------------------------------------------------------------
\* The invariant

\* What was answered, of what was asked.
AnswerOK ==
    answer # Null =>
        /\ call.column \in Columns
        /\ call.years \in SUBSET ChangeYears
        /\ answer.outcome \in Outcomes
        /\ answer.matched \subseteq Matched(Present(call.column), call.years)
        /\ answer.unmatched \subseteq Unmatched(Present(call.column), call.years)
        /\ answer.matched # {} => ~SomeKreisSpans
        /\ answer.outcome = "result" => answer.matched = Matched(Present(call.column), call.years)
        /\ answer.outcome = "unmatched" => Unmatched(Present(call.column), call.years) # {}
        /\ answer.outcome = "table" =>
              /\ answer.rows = [i \in DOMAIN call.column |-> Row(call.column[i], call.years)]
              /\ answer.matched = Matched(Present(call.column), call.years)
              /\ call.policy = "raise" =>
                    /\ Null \notin {call.column[i] : i \in DOMAIN call.column}
                    /\ Unmatched(Present(call.column), call.years) = {}

WorldOK ==
    /\ borders \in [Years -> [Gemeinden -> Kreise]]
    /\ region \in [Gemeinden -> Regions]
    /\ history_years \in HistoryYears
    /\ cached \subseteq Files(ChangeYears)

Inv == WorldOK /\ AnswerOK

LEMMA InitInv == Init => Inv
  BY HistoriesAreBorders, GeographiesAreRegions DEF Init, Inv, WorldOK, AnswerOK

\* What is read off the publications changes with them only.
LEMMA Frame ==
  ASSUME UNCHANGED <<borders, region>>
  PROVE  /\ SomeKreisSpans' = SomeKreisSpans
         /\ \A keys, years : Matched(keys, years)' = Matched(keys, years)
         /\ \A keys, years : Unmatched(keys, years)' = Unmatched(keys, years)
         /\ \A key, years : Row(key, years)' = Row(key, years)
  <1>1. LauRows' = LauRows
    BY DEF LauRows
  <1>2. \A k : KreisIndex(k)' = KreisIndex(k)
    BY <1>1 DEF KreisIndex
  <1>3. \A y : ChangeFile(y)' = ChangeFile(y)
    BY DEF ChangeFile
  <1>4. \A years : Changes(years)' = Changes(years)
    BY <1>3 DEF Changes
  <1>5. \A k, years : Candidates(k, years)' = Candidates(k, years)
    BY <1>4 DEF Candidates
  <1>6. \A k, years : Ambiguous(k, years)' = Ambiguous(k, years)
    BY <1>5 DEF Ambiguous
  <1>7. \A key, years : Resolve(key, years)' = Resolve(key, years)
    BY <1>1, <1>2, <1>5, <1>6 DEF Resolve
  <1>8. \A key, years : Reason(key, years)' = Reason(key, years)
    BY <1>6 DEF Reason
  <1>9. SomeKreisSpans' = SomeKreisSpans
    BY <1>1 DEF SomeKreisSpans
  <1>10. \A keys, years : Matched(keys, years)' = Matched(keys, years)
    BY <1>7 DEF Matched
  <1>11. \A keys, years : Unmatched(keys, years)' = Unmatched(keys, years)
    BY <1>7, <1>8 DEF Unmatched
  <1>12. \A key, years : Row(key, years)' = Row(key, years)
    BY <1>7, <1>8 DEF Row
  <1>13. QED
    BY <1>9, <1>10, <1>11, <1>12

LEMMA FetchStep ==
  ASSUME Inv, FetchReference
  PROVE  Inv'
  <1>1. history_years \subseteq ChangeYears
    BY FilesAreOfYears DEF Inv, WorldOK, ChangeYears
  <1>2. WorldOK'
    BY <1>1 DEF Inv, WorldOK, FetchReference, Files
  <1>3. UNCHANGED <<borders, region, call, answer>>
    BY DEF FetchReference
  <1>4. AnswerOK'
    BY <1>3, Frame DEF Inv, AnswerOK
  <1>5. QED
    BY <1>2, <1>4 DEF Inv

\* map_ags_to_nuts answers no more than it mapped and rejected, and only over a
\* crosswalk that passed _kreis_index.
LEMMA MapStep ==
  ASSUME Inv, MapAgsToNuts
  PROVE  Inv'
  <1>1. UNCHANGED <<borders, region, history_years, cached>>
    BY DEF MapAgsToNuts
  <1>2. WorldOK'
    BY <1>1 DEF Inv, WorldOK
  <1>3. PICK column \in Columns, years \in SUBSET ChangeYears, data_year \in Years \cup {Null},
             policy \in {"raise", "drop", "flag"} :
          LET keys == Present(column)
              why == Refusal(keys, years, data_year, policy)
          IN  /\ call' = [column |-> column, years |-> years, policy |-> policy]
              /\ answer' =
                    IF why # "none" THEN Refused(why)
                    ELSE [outcome |-> "result", matched |-> Matched(keys, years),
                          unmatched |-> IF policy = "drop" THEN {} ELSE Unmatched(keys, years),
                          rows |-> <<>>]
    BY DEF MapAgsToNuts
  <1> DEFINE why == Refusal(Present(column), years, data_year, policy)
  <1>4. /\ why \in {"year", "spans regions", "unmatched", "none"} /\ (why = "none" => ~SomeKreisSpans)
        /\ why = "unmatched" => Unmatched(Present(column), years) # {}
    BY DEF Refusal
  <1>5. /\ call'.column = column /\ call'.years = years
        /\ answer'.outcome \in Outcomes /\ answer'.outcome # "table"
        /\ answer'.matched \subseteq Matched(Present(column), years)
        /\ answer'.unmatched \subseteq Unmatched(Present(column), years)
        /\ answer'.matched # {} => ~SomeKreisSpans
        /\ answer'.outcome = "result" => answer'.matched = Matched(Present(column), years)
        /\ answer'.outcome = "unmatched" => Unmatched(Present(column), years) # {}
    <2>1. CASE why # "none"
      BY <2>1, <1>3, <1>4 DEF Refused, Outcomes
    <2>2. CASE why = "none"
      BY <2>2, <1>3, <1>4 DEF Outcomes
    <2>3. QED
      BY <2>1, <2>2
  <1>6. AnswerOK'
    BY <1>1, <1>5, Frame DEF AnswerOK
  <1>7. QED
    BY <1>2, <1>6 DEF Inv

\* calculate_feature answers what map_ags_to_nuts mapped, or nothing.
LEMMA CalculateStep ==
  ASSUME Inv, CalculateFeature
  PROVE  Inv'
  <1>1. UNCHANGED <<borders, region, history_years, cached>>
    BY DEF CalculateFeature
  <1>2. WorldOK'
    BY <1>1 DEF Inv, WorldOK
  <1> DEFINE years == history_years
  <1>3. years \in SUBSET ChangeYears
    BY FilesAreOfYears DEF Inv, WorldOK, ChangeYears
  <1>4. PICK column \in Columns, policy \in {"raise", "flag"} :
          /\ call' = [column |-> column, years |-> years, policy |-> policy]
          /\ \/ \E why \in {"cache miss", "null key", "year", "spans regions", "unmatched"} :
                   /\ answer' = Refused(why)
                   /\ why = "unmatched" => Unmatched(Present(column), years) # {}
             \/ /\ ~(policy = "raise" /\ Null \in {column[i] : i \in DOMAIN column})
                /\ Refusal(Present(column), years, Null, policy) = "none"
                /\ answer' = [outcome |-> "table", matched |-> Matched(Present(column), years),
                              unmatched |-> Unmatched(Present(column), years),
                              rows |-> [i \in DOMAIN column |-> Row(column[i], years)]]
    <2>1. PICK column \in Columns, policy \in {"raise", "flag"} :
            LET keys == Present(column)
                why == Refusal(keys, years, Null, policy)
            IN  /\ call' = [column |-> column, years |-> years, policy |-> policy]
                /\ answer' =
                      IF ~(Files(years) \subseteq cached) THEN Refused("cache miss")
                      ELSE IF policy = "raise" /\ Null \in {column[i] : i \in DOMAIN column}
                           THEN Refused("null key")
                      ELSE IF why # "none" THEN Refused(why)
                      ELSE [outcome |-> "table", matched |-> Matched(keys, years),
                            unmatched |-> Unmatched(keys, years),
                            rows |-> [i \in DOMAIN column |-> Row(column[i], years)]]
      BY DEF CalculateFeature
    <2>2. /\ Refusal(Present(column), years, Null, policy) \in {"year", "spans regions", "unmatched", "none"}
          /\ Refusal(Present(column), years, Null, policy) = "unmatched"
                => Unmatched(Present(column), years) # {}
      BY DEF Refusal
    <2>3. QED
      BY <2>1, <2>2
  <1> HIDE DEF years
  <1>5. Refusal(Present(column), years, Null, policy) = "none" =>
          ~SomeKreisSpans /\ (policy = "raise" => Unmatched(Present(column), years) = {})
    BY DEF Refusal
  <1>6. call'.column = column /\ call'.years = years /\ call'.policy = policy
    BY <1>4
  <1>7. CASE \E why \in {"cache miss", "null key", "year", "spans regions", "unmatched"} :
                /\ answer' = Refused(why)
                /\ why = "unmatched" => Unmatched(Present(column), years) # {}
    <2>1. /\ answer'.outcome \in Outcomes \ {"table", "result"}
          /\ answer'.matched = {} /\ answer'.unmatched = {}
          /\ answer'.outcome = "unmatched" => Unmatched(Present(column), years) # {}
      <3>1. PICK why \in {"cache miss", "null key", "year", "spans regions", "unmatched"} :
               /\ answer' = [outcome |-> why, matched |-> {}, unmatched |-> {}, rows |-> <<>>]
               /\ why = "unmatched" => Unmatched(Present(column), years) # {}
        BY <1>7 DEF Refused
      <3>2. why \in Outcomes \ {"table", "result"}
        BY <3>1 DEF Outcomes
      <3>3. QED
        BY <3>1, <3>2
    <2>2. AnswerOK'
      BY <2>1, <1>1, <1>3, <1>6, Frame DEF AnswerOK
    <2>3. QED
      BY <2>2, <1>2 DEF Inv
  <1>8. CASE /\ ~(policy = "raise" /\ Null \in {column[i] : i \in DOMAIN column})
             /\ Refusal(Present(column), years, Null, policy) = "none"
             /\ answer' = [outcome |-> "table", matched |-> Matched(Present(column), years),
                           unmatched |-> Unmatched(Present(column), years),
                           rows |-> [i \in DOMAIN column |-> Row(column[i], years)]]
    <2>1. /\ answer'.outcome = "table"
          /\ answer'.matched = Matched(Present(column), years)
          /\ answer'.unmatched = Unmatched(Present(column), years)
          /\ answer'.rows = [i \in DOMAIN column |-> Row(column[i], years)]
      BY <1>8
    <2>2. "table" \in Outcomes
      BY DEF Outcomes
    <2>3. /\ ~SomeKreisSpans
          /\ policy = "raise" => Null \notin {column[i] : i \in DOMAIN column}
          /\ policy = "raise" => Unmatched(Present(column), years) = {}
      BY <1>5, <1>8
    <2>4. AnswerOK'
      BY <2>1, <2>2, <2>3, <1>1, <1>3, <1>6, Frame DEF AnswerOK
    <2>5. QED
      BY <2>4, <1>2 DEF Inv
  <1>9. QED
    BY <1>4, <1>7, <1>8

LEMMA InvStep == Inv /\ [Next]_vars => Inv'
  <1> SUFFICES ASSUME Inv, [Next]_vars PROVE Inv'
    OBVIOUS
  <1>1. CASE FetchReference
    BY <1>1, FetchStep
  <1>2. CASE MapAgsToNuts
    BY <1>2, MapStep
  <1>3. CASE CalculateFeature
    BY <1>3, CalculateStep
  <1>4. CASE UNCHANGED vars
    <2>1. UNCHANGED <<borders, region, history_years, cached, call, answer>>
      BY <1>4 DEF vars
    <2>2. AnswerOK' /\ WorldOK'
      BY <2>1, Frame DEF Inv, AnswerOK, WorldOK
    <2>3. QED
      BY <2>2 DEF Inv
  <1>5. QED
    BY <1>1, <1>2, <1>3, <1>4 DEF Next

-----------------------------------------------------------------------------
\* Theorems

\* The invariant the others follow from: an answer holds nothing but what its keys
\* resolve to, or why they do not, over a crosswalk without a Kreis in two regions.
THEOREM Invariance == Spec => []Inv
  BY InitInv, InvStep, PTL DEF Spec

\* Whatever the borders, the change files and the column are, a key is matched to one
\* region or unmatched for one reason (nuts.py 158-167).
THEOREM TypeCorrect == Spec => []TypeOK
  <1>1. ASSUME Inv PROVE TypeOK
    <2>1. WorldOK
      BY <1>1 DEF Inv
    <2> SUFFICES ASSUME answer # Null
                 PROVE  /\ answer.outcome \in Outcomes
                        /\ answer.matched \subseteq [key : Keys, nuts3 : Regions]
                        /\ answer.unmatched \subseteq [key : Keys, reason : Reasons]
                        /\ \A m, n \in answer.matched : m.key = n.key => m = n
                        /\ \A m \in answer.matched, u \in answer.unmatched : m.key # u.key
      BY <2>1 DEF TypeOK, WorldOK
    <2> DEFINE keys == Present(call.column)
               years == call.years
    <2>2. /\ answer.outcome \in Outcomes
          /\ answer.matched \subseteq Matched(keys, years)
          /\ answer.unmatched \subseteq Unmatched(keys, years)
          /\ answer.matched # {} => ~SomeKreisSpans
          /\ keys \subseteq Keys
      BY <1>1, PresentKeys DEF Inv, AnswerOK
    <2> HIDE DEF keys, years
    <2>3. ASSUME NEW m \in answer.matched
          PROVE  \E k \in Keys : \E r \in Resolve(k, years) : m = [key |-> k, nuts3 |-> r] /\ r \in Regions
      <3>1. PICK k \in keys : \E r \in Resolve(k, years) : m = [key |-> k, nuts3 |-> r]
        BY <2>2, MatchedElement
      <3>2. QED
        BY <3>1, <2>1, <2>2, ResolveRange DEF WorldOK
    <2>4. ASSUME NEW u \in answer.unmatched
          PROVE  \E k \in Keys : Resolve(k, years) = {} /\ u = [key |-> k, reason |-> Reason(k, years)]
      BY <2>2, UnmatchedElement
    <2>5. answer.matched \subseteq [key : Keys, nuts3 : Regions]
      BY <2>3
    <2>6. answer.unmatched \subseteq [key : Keys, reason : Reasons]
      <3>1. ASSUME NEW u \in answer.unmatched PROVE u \in [key : Keys, reason : Reasons]
        <4>1. PICK k \in Keys : Resolve(k, years) = {} /\ u = [key |-> k, reason |-> Reason(k, years)]
          BY <2>4
        <4>2. Reason(k, years) \in Reasons
          BY ReasonRange
        <4>3. QED
          BY <4>1, <4>2
      <3>2. QED
        BY <3>1
    <2>7. ASSUME NEW m \in answer.matched, NEW n \in answer.matched, m.key = n.key
          PROVE  m = n
      <3>1. PICK k \in Keys : \E r \in Resolve(k, years) : m = [key |-> k, nuts3 |-> r]
        BY <2>3
      <3>2. PICK r \in Resolve(k, years) : m = [key |-> k, nuts3 |-> r]
        BY <3>1
      <3>3. PICK l \in Keys : \E s \in Resolve(l, years) : n = [key |-> l, nuts3 |-> s]
        BY <2>3
      <3>4. PICK s \in Resolve(l, years) : n = [key |-> l, nuts3 |-> s]
        BY <3>3
      <3>5. k = l
        BY <2>7, <3>2, <3>4
      <3>6. r = s
        BY <3>2, <3>4, <3>5, <2>1, <2>2, OneRegion DEF WorldOK
      <3>7. QED
        BY <3>2, <3>4, <3>5, <3>6
    <2>8. ASSUME NEW m \in answer.matched, NEW u \in answer.unmatched
          PROVE  m.key # u.key
      <3>1. PICK k \in Keys : \E r \in Resolve(k, years) : m = [key |-> k, nuts3 |-> r]
        BY <2>3
      <3>2. PICK l \in Keys : Resolve(l, years) = {} /\ u = [key |-> l, reason |-> Reason(l, years)]
        BY <2>4
      <3>3. m.key = k /\ u.key = l /\ k # l
        BY <3>1, <3>2
      <3>4. QED
        BY <3>3
    <2>9. QED
      BY <2>2, <2>5, <2>6, <2>7, <2>8
  <1>2. QED
    BY <1>1, Invariance, PTL

\* Whatever happened to the borders, a Kreis is mapped to the region of every Gemeinde
\* it has or last had, if all change files are read and its successor has given nothing
\* away since (nuts.py 86-99).
THEOREM RegionTruth == Spec => []RegionIsTrue
  <1>1. ASSUME Inv PROVE RegionIsTrue
    <2> DEFINE years == call.years
    <2> SUFFICES ASSUME answer # Null, NEW m \in answer.matched, m.key.level = "Kreis",
                        Retired(m.key.kreis) =>
                          /\ years = ChangeYears
                          /\ \A c \in Candidates(m.key.kreis, years) : Candidates(c, years) = {},
                        NEW g \in Held(LastYear(m.key.kreis), m.key.kreis)
                 PROVE  region[g] = m.nuts3
      BY DEF RegionIsTrue
    <2>1. /\ years \in SUBSET ChangeYears
          /\ answer.matched \subseteq Matched(Present(call.column), years)
          /\ ~SomeKreisSpans
      BY <1>1 DEF Inv, AnswerOK
    <2> HIDE DEF years
    <2>2. PICK key \in Present(call.column) : \E r \in Resolve(key, years) : m = [key |-> key, nuts3 |-> r]
      BY <2>1, MatchedElement
    <2>3. m.nuts3 \in Resolve(key, years) /\ m.key = key
      BY <2>2
    <2> DEFINE k == key.kreis
    <2>4. CASE Retired(k)
      BY <2>1, <2>3, <2>4, RedirectIsTrue
    <2>5. CASE Last \in Standing(k)
      <3>1. LastYear(k) = Last
        <4>1. LastYear(k) \in Years /\ Last <= LastYear(k)
          BY <2>5, LastYearIsLast DEF Standing
        <4>2. QED
          BY <4>1, LastIsAYear DEF Years
      <3>2. region[g] \in KreisIndex(k)
        BY <3>1, <2>3, KreisRegions
      <3>3. m.nuts3 \in KreisIndex(k)
        BY <3>2, <2>3 DEF Resolve
      <3>4. QED
        BY <3>2, <3>3, <2>1, KreisOneRegion
    <2>6. CASE Standing(k) = {}
      <3>1. KreisIndex(k) = {} /\ Candidates(k, years) = {}
        BY <2>6, <2>1, KreisIndexStands, CandidateOrigin
      <3>2. Resolve(key, years) = {}
        BY <3>1, <2>3 DEF Resolve
      <3>3. QED
        BY <3>2, <2>3
    <2>7. QED
      BY <2>4, <2>5, <2>6 DEF Retired
  <1>2. QED
    BY <1>1, Invariance, PTL

\* With fewer change files a key is mapped to the region it has with all of them, or
\* it is one that all of them call ambiguous (nuts.py 86-99).
THEOREM Agreement == Spec => []FilesAgree
  <1>1. ASSUME Inv PROVE FilesAgree
    <2> SUFFICES ASSUME answer # Null, NEW m \in answer.matched
                 PROVE  \/ m \in Matched({m.key}, ChangeYears)
                        \/ m.key.level = "Kreis" /\ Ambiguous(m.key.kreis, ChangeYears)
      BY DEF FilesAgree
    <2> DEFINE years == call.years
    <2>1. years \in SUBSET ChangeYears /\ answer.matched \subseteq Matched(Present(call.column), years)
      BY <1>1 DEF Inv, AnswerOK
    <2> HIDE DEF years
    <2>2. PICK key \in Present(call.column) : \E r \in Resolve(key, years) : m = [key |-> key, nuts3 |-> r]
      BY <2>1, MatchedElement
    <2>3. PICK r \in Resolve(key, years) : m = [key |-> key, nuts3 |-> r]
      BY <2>2
    <2>4. m.key = key
      BY <2>3
    <2>5. SUFFICES ASSUME ~(key.level = "Kreis" /\ Ambiguous(key.kreis, ChangeYears))
                   PROVE  r \in Resolve(key, ChangeYears)
      BY <2>3, <2>4, MatchedElement
    <2>6. CASE key.level = "Kreis" /\ KreisIndex(key.kreis) = {}
      <3>1. r \in UNION {KreisIndex(k) : k \in Candidates(key.kreis, years)}
        BY <2>3, <2>6 DEF Resolve
      <3>2. PICK k \in Candidates(key.kreis, years) : r \in KreisIndex(k)
        BY <3>1
      <3>3. k \in Candidates(key.kreis, ChangeYears)
        BY <3>2, <2>1, MoreFiles
      <3>4. r \in UNION {KreisIndex(l) : l \in Candidates(key.kreis, ChangeYears)}
        BY <3>2, <3>3
      <3>5. QED
        BY <2>5, <2>6, <3>4 DEF Resolve
    <2>7. CASE key.level = "Kreis" /\ KreisIndex(key.kreis) # {}
      BY <2>3, <2>7 DEF Resolve
    <2>8. CASE key.level # "Kreis"
      BY <2>3, <2>8 DEF Resolve
    <2>9. QED
      BY <2>6, <2>7, <2>8
  <1>2. QED
    BY <1>1, Invariance, PTL

\* Every row of a table says its own key, and the region of that key or why there is
\* none; under "raise" there are regions only (harmonization/nuts.py 92-108).
THEOREM RowAlignment == Spec => []RowsAnswered
  <1>1. ASSUME Inv PROVE RowsAnswered
    <2> SUFFICES ASSUME answer # Null, answer.outcome = "table", NEW i \in DOMAIN call.column
                 PROVE  LET row == answer.rows[i] IN
                        /\ row.key = call.column[i]
                        /\ row.nuts3 # Null <=> row.unmatched = ""
                        /\ row.nuts3 # Null => [key |-> row.key, nuts3 |-> row.nuts3] \in answer.matched
                        /\ call.policy = "raise" => row.nuts3 # Null
      BY DEF RowsAnswered
    <2> DEFINE key == call.column[i]
               years == call.years
               row == Row(key, years)
    <2>1. /\ call.column \in Columns
          /\ answer.rows[i] = row
          /\ answer.matched = Matched(Present(call.column), years)
          /\ call.policy = "raise" =>
                key # Null /\ Unmatched(Present(call.column), years) = {}
      BY <1>1 DEF Inv, AnswerOK
    <2>2. key # Null => key \in Present(call.column)
      BY DEF Present
    <2>3. region \in [Gemeinden -> Regions] /\ Null \notin Regions
      BY <1>1, NullIsNothing DEF Inv, WorldOK
    <2> HIDE DEF key, years
    <2>4. CASE key = Null
      <3>1. row.key = Null /\ row.nuts3 = Null /\ row.unmatched = "null key cell"
        BY <2>4 DEF Row, NullRow
      <3>2. QED
        BY <3>1, <2>1, <2>4 DEF key
    <2>5. CASE key # Null /\ Resolve(key, years) = {}
      <3>1. row.key = key /\ row.nuts3 = Null /\ row.unmatched # ""
        BY <2>5, ReasonRange DEF Row
      <3>2. Unmatched(Present(call.column), years) # {}
        <4> DEFINE u == [key |-> key, reason |-> Reason(key, years)]
        <4>1. u \in Unmatched(Present(call.column), years)
          BY <2>2, <2>5, UnmatchedElement
        <4>2. QED
          BY <4>1
      <3>3. QED
        BY <3>1, <3>2, <2>1 DEF key
    <2>6. CASE key # Null /\ Resolve(key, years) # {}
      <3>1. PICK r \in Resolve(key, years) : row = [key |-> key, nuts3 |-> r, unmatched |-> ""]
        BY <2>6 DEF Row
      <3>2. r # Null
        BY <3>1, <2>3, ResolveRange
      <3>3. [key |-> key, nuts3 |-> r] \in answer.matched
        <4> DEFINE m == [key |-> key, nuts3 |-> r]
        <4>1. m \in Matched(Present(call.column), years)
          BY <3>1, <2>2, <2>6, MatchedElement
        <4>2. QED
          BY <4>1, <2>1
      <3> HIDE DEF row
      <3>4. row.key = key /\ row.nuts3 = r /\ row.unmatched = ""
        BY <3>1
      <3>5. QED
        BY <3>2, <3>3, <3>4, <2>1 DEF key
    <2>7. QED
      BY <2>4, <2>5, <2>6
  <1>2. QED
    BY <1>1, Invariance, PTL

-----------------------------------------------------------------------------
\* What is settled is found

\* A Kreis that stands has a region in the crosswalk.
LEMMA StandingIsIndexed ==
  ASSUME NEW k, Last \in Standing(k)
  PROVE  KreisIndex(k) # {}
  BY KreisRegions DEF Standing

\* A Kreis that is gone gave its last Gemeinden away in the year after its last.
LEMMA RetiredIsRedirected ==
  ASSUME WorldOK, NEW k, Retired(k), NEW years \in SUBSET ChangeYears, LastYear(k) + 1 \in years
  PROVE  Candidates(k, years) # {}
  <1> DEFINE y == LastYear(k) + 1
  <1>1. LastYear(k) \in Standing(k) /\ \A z \in Standing(k) : z <= LastYear(k)
    BY LastYearIsLast DEF Retired
  <1>2. LastYear(k) \in Years /\ Held(LastYear(k), k) # {}
    BY <1>1 DEF Standing
  <1>3. y \in ChangeYears /\ y \in Years /\ y - 1 = LastYear(k) /\ ~(y <= LastYear(k))
    BY <1>2, LastIsAYear DEF Years, ChangeYears
  <1> HIDE DEF y
  <1>4. y \in years
    BY DEF y
  <1>5. PICK g \in Gemeinden : borders[y - 1][g] = k
    BY <1>2, <1>3 DEF Held
  <1>6. borders[y][g] # k
    BY <1>1, <1>3, <1>5 DEF Standing, Held
  <1>7. [from |-> k, to |-> borders[y][g], year |-> y] \in ChangeFile(y)
    BY <1>5, <1>6 DEF ChangeFile
  <1>8. [from |-> k, to |-> borders[y][g], year |-> y] \in Changes(years)
    BY <1>4, <1>7 DEF Changes
  <1>9. QED
    BY <1>8 DEF Candidates

\* One that never gave to any other than one has no other candidate.
LEMMA OneSuccessor ==
  ASSUME NEW k, NEW to, NEW years \in SUBSET ChangeYears,
         \A y \in ChangeYears : \A g \in Held(y - 1, k) : borders[y][g] \in {k, to}
  PROVE  Candidates(k, years) \subseteq {to}
  <1> SUFFICES ASSUME NEW ch \in Changes(years), ch.from = k PROVE ch.to = to
    BY DEF Candidates
  <1>1. PICK y \in years : ch \in ChangeFile(y)
    BY DEF Changes
  <1>2. PICK g \in Gemeinden : /\ borders[y - 1][g] # borders[y][g]
                               /\ ch = [from |-> borders[y - 1][g], to |-> borders[y][g], year |-> y]
    BY <1>1 DEF ChangeFile
  <1>3. ch.from = borders[y - 1][g] /\ ch.to = borders[y][g]
    BY <1>2
  <1>4. g \in Held(y - 1, k) /\ y \in ChangeYears
    BY <1>3 DEF Held
  <1>5. QED
    BY <1>2, <1>3, <1>4

LEMMA SettledResolves ==
  ASSUME WorldOK, NEW key, NEW years \in SUBSET ChangeYears, Settled(key, years)
  PROVE  Resolve(key, years) # {}
  <1>1. CASE key.level = "Kreis" /\ Last \in Standing(key.kreis)
    BY <1>1, StandingIsIndexed DEF Resolve
  <1>2. CASE key.level = "Gemeinde" /\ key.gemeinde \in Held(Last, key.kreis)
    <2> DEFINE row == [kreis |-> key.kreis, gemeinde |-> key.gemeinde, nuts3 |-> region[key.gemeinde]]
    <2>1. row \in LauRows
      BY <1>2 DEF Held, LauRows
    <2>2. row.kreis = key.kreis /\ row.gemeinde = key.gemeinde
      OBVIOUS
    <2> HIDE DEF row
    <2>3. row.nuts3 \in Resolve(key, years)
      BY <1>2, <2>1, <2>2 DEF Resolve
    <2>4. QED
      BY <2>3
  <1>3. ASSUME key.level = "Kreis", Retired(key.kreis), LastYear(key.kreis) + 1 \in years,
               NEW to \in Kreise, Last \in Standing(to),
               \A y \in ChangeYears : \A g \in Held(y - 1, key.kreis) : borders[y][g] \in {key.kreis, to}
        PROVE  Resolve(key, years) # {}
    <2>1. Candidates(key.kreis, years) = {to}
      <3>1. Candidates(key.kreis, years) # {}
        BY <1>3, RetiredIsRedirected
      <3>2. Candidates(key.kreis, years) \subseteq {to}
        BY <1>3, OneSuccessor
      <3>3. QED
        BY <3>1, <3>2
    <2>2. ~Ambiguous(key.kreis, years)
      BY <2>1 DEF Ambiguous
    <2>3. KreisIndex(key.kreis) = {}
      BY <1>3, KreisIndexStands DEF Retired
    <2>4. KreisIndex(to) # {}
      BY <1>3, StandingIsIndexed
    <2>5. QED
      BY <1>3, <2>1, <2>2, <2>3, <2>4 DEF Resolve
  <1>4. QED
    BY <1>1, <1>2, <1>3 DEF Settled

\* A key the read files settle is never among the unmatched, for every history of the
\* borders and every choice of change files; so a refusal has a reason (nuts.py 86-104, 158-171).
THEOREM NothingSettledIsMissed == Spec => []SettledIsFound
  <1>1. ASSUME Inv PROVE SettledIsFound
    <2> SUFFICES ASSUME answer # Null
                 PROVE  /\ answer.outcome \in {"result", "table"} =>
                              \A key \in Present(call.column) :
                                 Settled(key, call.years) => \E m \in answer.matched : m.key = key
                        /\ answer.outcome = "unmatched" =>
                              \E key \in Present(call.column) : ~Settled(key, call.years)
      BY DEF SettledIsFound
    <2>1. WorldOK /\ AnswerOK
      BY <1>1 DEF Inv
    <2> DEFINE years == call.years
    <2>2. /\ years \in SUBSET ChangeYears
          /\ answer.outcome \in {"result", "table"}
                => answer.matched = Matched(Present(call.column), years)
          /\ answer.outcome = "unmatched" => Unmatched(Present(call.column), years) # {}
      BY <2>1 DEF AnswerOK
    <2> HIDE DEF years
    <2>3. ASSUME NEW key \in Present(call.column), Settled(key, years),
                 answer.outcome \in {"result", "table"}
          PROVE  \E m \in answer.matched : m.key = key
      <3>1. PICK r \in Resolve(key, years) : TRUE
        BY <2>1, <2>2, <2>3, SettledResolves
      <3>2. PICK m : m = [key |-> key, nuts3 |-> r]
        OBVIOUS
      <3>3. m \in Matched(Present(call.column), years)
        BY <3>1, <3>2, MatchedElement
      <3>4. QED
        BY <2>2, <2>3, <3>2, <3>3
    <2>4. ASSUME answer.outcome = "unmatched"
          PROVE  \E key \in Present(call.column) : ~Settled(key, years)
      <3>1. PICK u : u \in Unmatched(Present(call.column), years)
        BY <2>2, <2>4
      <3>2. PICK key \in Present(call.column) : Resolve(key, years) = {}
        BY <3>1, UnmatchedElement
      <3>3. QED
        BY <2>1, <2>2, <3>2, SettledResolves
    <2>5. QED
      BY <2>3, <2>4 DEF years
  <1>2. QED
    BY <1>1, Invariance, PTL
=============================================================================
