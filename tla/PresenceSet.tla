---------------------------- MODULE PresenceSet ----------------------------
(***************************************************************************)
(* The Presence Registry as spec 4.1 describes it: each user's set of live *)
(* connections.  register(user, conn) adds the handle, idempotently;       *)
(* deregister(conn) removes it from every user's set, and a user whose set *)
(* becomes empty has no entry.  The registry is a set of <<user, conn>>    *)
(* pairs, so an empty set and no entry are the same thing.                 *)
(***************************************************************************)
CONSTANTS UserIds, Conns

VARIABLE reg

Init == reg = {}

Register(u, c) == reg' = reg \cup {<<u, c>>}

Deregister(c) == reg' = {p \in reg : p[2] # c}

Next ==
    \/ \E u \in UserIds, c \in Conns : Register(u, c)
    \/ \E c \in Conns : Deregister(c)

Spec == Init /\ [][Next]_reg

=============================================================================
