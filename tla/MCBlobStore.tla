----------------------------- MODULE MCBlobStore ------------------------------
(* Two threads of one process and one of another.                          *)
EXTENDS BlobStore, TLC

CONSTANTS c1, c2, c3, p1, p2

ThreeThreads == (c1 :> p1) @@ (c2 :> p1) @@ (c3 :> p2)
=============================================================================
