--------------------------- MODULE MCNutsMapping ---------------------------
(* Three Gemeinden, three Kreise, three years and two regions: Kreise that  *)
(* merge, split, give a part away, are gone, and come back.                 *)
EXTENDS NutsMapping, TLC

CONSTANTS g1, g2, g3, A, B, C, r1, r2

\* What differs in the names of Gemeinden or Kreise only is taken once: the first year
\* has its Kreise in order, and C is not used before B.
FirstYears == {g1 :> A @@ g2 :> A @@ g3 :> A, g1 :> A @@ g2 :> A @@ g3 :> B,
               g1 :> A @@ g2 :> B @@ g3 :> C}
MCHistories ==
    {h \in [Years -> [Gemeinden -> Kreise]] :
        /\ h[1] \in FirstYears
        /\ (\A g \in Gemeinden : h[1][g] = A) =>
              (\A g \in Gemeinden : h[2][g] # C) \/ (\E g \in Gemeinden : h[2][g] = B)}

MCGeographies == {f \in [Gemeinden -> Regions] : f[g1] = r1}

Kreis(k) == [level |-> "Kreis", kreis |-> k, gemeinde |-> Null]
Gemeinde(k, g) == [level |-> "Gemeinde", kreis |-> k, gemeinde |-> g]
Other(level) == [level |-> level, kreis |-> Null, gemeinde |-> Null]

MCColumns == {<<Kreis(A)>>, <<Kreis(A), Kreis(B), Kreis(A), Kreis(C)>>,
              <<Gemeinde(A, g1), Null, Gemeinde(B, g3), Other("Land"), Other("ARS"), Other("malformed")>>}
=============================================================================
