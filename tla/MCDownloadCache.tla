-------------------------- MODULE MCDownloadCache --------------------------
(* Two callers that share a cache directory and one URL.                   *)
EXTENDS DownloadCache, TLC

CONSTANTS c1, c2, u1, b1, b2, d1, d2, dTorn

MCSha256 == (b1 :> d1) @@ (b2 :> d2) @@ (Torn :> dTorn)
MCPins == {None, d1}
MCHeaderSets == {{}, {"etag"}}
Symmetry == Permutations(Callers)
=============================================================================
