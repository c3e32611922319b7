------------------------------ MODULE MCHexgRing ------------------------------
EXTENDS HexgRing

Foreign(n, g, w) == [number |-> n, of |-> [launch |-> 0, game |-> g], gid |-> g, weight |-> w]

\* Rings of other writers: two games whose larger id is not the newest's, an
\* untagged row, weights of every bucket.
MCPreloads ==
    { <<Foreign(-2, 1, "low"), Foreign(-1, 0, "mid")>>,
      <<Foreign(-3, 2, "mid"), Foreign(-2, Untagged, "full"), Foreign(-1, 2, "low")>> }
=============================================================================
