-------------------------- MODULE MCTamperedCache --------------------------
(* One caller, two URLs whose publishers may serve the same body, damaged  *)
(* files and every kind of validator.                                      *)
EXTENDS DownloadCache, TLC

CONSTANTS c1, u1, u2, b1, b2, d1, d2, dTorn

MCSha256 == (b1 :> d1) @@ (b2 :> d2) @@ (Torn :> dTorn)
MCPins == {None, d1}
MCHeaderSets == {{"etag"}, {"last_modified"}}
Symmetry == Permutations(Urls)
=============================================================================
