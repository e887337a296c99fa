--------------------------- MODULE MCReplicate ---------------------------
(* An index ix of the image im, which has one layer, on two partitions.    *)
EXTENDS Replicate, TLC

CONSTANTS p1, p2, b, im, ix, t, loop, admin

MCBlobsOf == (im :> {b}) @@ (ix :> {})
MCChildrenOf == (im :> {}) @@ (ix :> {im})
MCGlobs == (loop :> {}) @@ (admin :> {{t}})

=============================================================================
