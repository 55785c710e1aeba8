---------------------------- MODULE MCBootstrap ----------------------------
(***************************************************************************)
(* The instance of Bootstrap for TLC: two streams, one of them shared with *)
(* the other services, a hash and a sorted set.                            *)
(***************************************************************************)
EXTENDS Bootstrap, TLC

MCStructures ==
    ("bounty-stream" :> "stream") @@ ("live-update-stream" :> "stream")
        @@ ("doc-set" :> "hash") @@ ("leaderboard-sset" :> "zset")

\* An empty Valkey, one that an earlier server filled, what is left of a start
\* that was broken off, and keys of another type.
Nothing    == [n \in Name |-> "none"]
Everything == MCStructures
MCFound ==
    {Nothing, Everything,
     [Nothing EXCEPT !["live-update-stream"] = "stream"],
     [Everything EXCEPT !["leaderboard-sset"] = "none"],
     [Nothing EXCEPT !["doc-set"] = "string"],
     [Everything EXCEPT !["live-update-stream"] = "zset"]}
=============================================================================
