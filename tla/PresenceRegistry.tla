-------------------------- MODULE PresenceRegistry --------------------------
(***************************************************************************)
(* The presence registry of src/slack/chat_server.cpp: the global          *)
(* std::map<long, std::vector<connection*>> wsMap, guarded by wsMutex.     *)
(* A map is a TLA+ function whose domain is the set of user ids that have  *)
(* a key; a vector is a sequence of connections (model values), which may  *)
(* hold the same connection more than once, as the vector in the code can. *)
(***************************************************************************)
EXTENDS SequencesExt

(* onmessage: wsMap[uid].push_back(&conn).  operator[] creates the key with *)
(* an empty vector; push_back appends whether or not &conn is already in.  *)
Register(map, uid, c) ==
    IF uid \in DOMAIN map
    THEN [map EXCEPT ![uid] = Append(@, c)]
    ELSE map @@ (uid :> <<c>>)

(* A variant of onclose that erases only the first copy of &conn in each   *)
(* vector (vec.erase(std::find(...)) instead of erase-remove).              *)
DeregisterFirstCopy(map, c) ==
    LET kept == {u \in DOMAIN map : RemoveFirst(map[u], c) # <<>>}
    IN  [u \in kept |-> RemoveFirst(map[u], c)]

(* A variant of onclose that erases the connection but never the key, so  *)
(* a user whose last connection closed keeps an empty vector.             *)
DeregisterKeepKeys(map, c) ==
    [u \in DOMAIN map |-> Remove(map[u], c)]

(* onclose: for every key, erase-remove every occurrence of &conn, and      *)
(* erase the key once its vector is empty.                                  *)
Deregister(map, c) ==
    LET kept == {u \in DOMAIN map : Remove(map[u], c) # <<>>}
    IN  [u \in kept |-> Remove(map[u], c)]

(* sendMessageOverWebSocket's lookup: for each membership in order,         *)
(* wsMap.find(m.user_id) and the connections of its vector, in order.       *)
ConnectionsOf(map, uids) ==
    FlattenSeq([i \in 1..Len(uids) |->
                    IF uids[i] \in DOMAIN map THEN map[uids[i]] ELSE <<>>])

=============================================================================
