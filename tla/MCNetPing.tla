----------------------------- MODULE MCNetPing ------------------------------
(* NetPing with two calls, so that a diagnosis finds the samples of another. *)
EXTENDS NetPing

MCSamples   == {-2, -1, 0, 3}
MCAddresses == {1, 2}

\* A host given as a literal address that accepts every connect.
OkSamples     == {3}
LiteralDomain == {1}
=============================================================================
