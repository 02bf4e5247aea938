----------------------------- MODULE MCLRUCache -----------------------------
(* Small instances of LRUCache for TLC. *)
EXTENDS LRUCache, TLC

CONSTANTS t1, t2, k1, k2, k3, kf, v1, v2, h1, h2, h3

MCThreads == {t1, t2}

(* kf is the key whose hash h3 is in the preloaded table; k1 and k2 share a *)
(* hash, which the dynamic table must not mind.                             *)
MCKeys == {k1, k2, k3, kf}

MCHash == k1 :> h1 @@ k2 :> h1 @@ k3 :> h2 @@ kf :> h3

MCFixed == h3 :> v2

=============================================================================
