---------------------------- MODULE MCChatServer ----------------------------
(* Instantiation of ChatServer for TLC: two names, two connections, two    *)
(* worker threads.                                                          *)
EXTENDS ChatServer, TLC

CONSTANTS n1, n2, c1, c2, w1, w2

MCNames   == {n1, n2}
MCConns   == {c1, c2}
MCWorkers == {w1, w2}
MCConns1   == {c1}

(* Only n1 has a row when the server starts; each client identifies as    *)
(* its own user.                                                            *)
MCInitUsers == (1 :> n1) @@ (2 :> NoUser)
MCBeats     == {<<1, n1>>, <<2, n2>>}

(* /channel requests: every pair of names, or only pairs of distinct names. *)
MCAllPairs      == MCNames \X MCNames
MCDistinctPairs == {<<n1, n2>>, <<n2, n1>>}
MCToN2          == {<<n1, n2>>}

(* Both users have rows from the start. *)
MCBothUsers == (1 :> n1) @@ (2 :> n2)

(* Connections and workers are each interchangeable; names are not, as    *)
(* the initial user table and the heartbeat payloads name them.           *)
MCSymmetry == Permutations(MCConns) \cup Permutations(MCWorkers)

=============================================================================
