------------------------------ MODULE MCRebase ------------------------------
(* Three pieces of territory, three Kreise, three years: merges, splits,    *)
(* partial transfers, Kreise that come, go and come back; and on some of    *)
(* these histories one output or two of a table, with options of their own. *)
EXTENDS RebaseFeature

CONSTANTS a1, a2, a3, A, B, C

\* Nothing in the model depends on the names of Atoms and Kreise: of the histories
\* that differ in them only, the one with the least code is kept.
Digit == A :> 0 @@ B :> 1 @@ C :> 2
YearCode(f) == Digit[f[a1]] * 9 + Digit[f[a2]] * 3 + Digit[f[a3]]
Code(h) == (YearCode(h[1]) * 27 + YearCode(h[2])) * 27 + YearCode(h[3])
Renamed(h, p, q) == [y \in Years |-> [a \in Atoms |-> q[h[y][p[a]]]]]

FirstYears == {f \in [Atoms -> Kreise] : YearCode(f) \in {1, 5}}
MCHistories ==
    {h \in [Years -> [Atoms -> Kreise]] :
        /\ h[1] \in FirstYears
        /\ \A p \in Permutations(Atoms), q \in Permutations(Kreise) :
              Code(h) <= Code(Renamed(h, p, q))}

MCSpans == {<<1, 2>>, <<2, 3>>, <<1, 3>>}
MCSelections == {ks \X ys : ks \in (SUBSET Kreise) \ {{}}, ys \in {{2}, {1, 3}}}

-----------------------------------------------------------------------------
MCOutputs == <<"p", "q">>
MCKreisOrder == <<A, B, C>>
MCTables == {[variable |-> "KREISE", cells |-> cells] :
                cells \in {{}, {<<A, 1>>}, {<<C, 2>>, <<C, 3>>}, {A, B} \X {1}, {A, B} \X {3}}
                          \cup {{A, B, C} \X {y} : y \in Years}}
            \cup {[variable |-> "LAND", cells |-> {<<A, 1>>}]}
MCKeyFiles == {MCSpans, {<<1, 2>>}}
Feature(output, part, span, policy) ==
    [output |-> output, part |-> part, span |-> span, unmatched |-> policy, incomplete |-> policy]
MCRequests ==
    {{Feature("p", "", s, policy)} : s \in MCSpans, policy \in {Null, "drop", "flag"}}
    \cup {{Feature("p", "", <<1, 2>>, "keep")}, {Feature("p", "", <<2, 1>>, "flag")}, {Feature("p", "", <<Null, 2>>, "flag")}}
    \cup {{Feature("p", "", s, "flag"), Feature(o, "~value", t, x)} :
             s, t \in MCSpans, o \in {"p", "q"}, x \in {"flag", "drop"}}

\* The bound on the histories of features.
AllOf(f) == {f[a] : a \in Atoms}
SomeHistories ==
    {h \in MCHistories :
        /\ YearCode(h[1]) = 5 /\ h[1] \notin {h[2], h[3]}
        /\ Cardinality(AllOf(h[2])) = 2 /\ AllOf(h[3]) # AllOf(h[2])}

MCInit ==
    \/ borders \in SomeHistories /\ Init /\ FeatureInit
    \/ Init /\ FeatureInit /\ keys = Null

MCNext ==
    \/ call = Null /\ borders \in SomeHistories /\ FeatureNext /\ UNCHANGED vars
    \/ asked = Null /\ keys = Null /\ Next /\ UNCHANGED featureVars

MCSpec == MCInit /\ [][MCNext]_<<vars, featureVars>>
=============================================================================
