---------------------------- MODULE ChannelStore ----------------------------
(***************************************************************************)
(* The queries the handlers of src/slack/chat_server.cpp run against the   *)
(* MySQL tables.  membership is the table as a sequence of rows            *)
(* [ch, uid] in membership_id order; msgs is the message table as a        *)
(* sequence of rows [sender, ch, ts] whose index is the message_id.  User  *)
(* id 0 is what findUserId returns for a name with no row.                 *)
(***************************************************************************)
EXTENDS SequencesExt, Integers

(* findUserId: SELECT id FROM user WHERE userName = ?, first row or 0.  The *)
(* query has no ORDER BY, so with several rows any of them may come first.  *)
FindUserId(users, name) ==
    LET ids == {u \in DOMAIN users : users[u] = name}
    IN  IF ids = {} THEN {0} ELSE ids

(* The channel lookup: channels joined with two membership rows, one with   *)
(* user_id = a and one with user_id = b (the same row when a = b).          *)
CommonChannels(membership, a, b) ==
    {r.ch : r \in {x \in ToSet(membership) :
                    /\ [ch |-> x.ch, uid |-> a] \in ToSet(membership)
                    /\ [ch |-> x.ch, uid |-> b] \in ToSet(membership)}}

(* sendMessage: SELECT ... FROM membership WHERE channel_id = ?, keeping    *)
(* the rows whose user_id differs from senderId, in row order.              *)
RecipientsExcept(membership, ch, sender) ==
    LET rows == SelectSeq(membership, LAMBDA r : r.ch = ch /\ r.uid # sender)
    IN  [i \in 1..Len(rows) |-> rows[i].uid]

(* createChannel, existing channel: SELECT ... FROM message WHERE           *)
(* channel_id = ? ORDER BY created_at DESC LIMIT limit.  Rows with equal    *)
(* created_at may come in any order, and which of them survive the LIMIT    *)
(* is the server's choice: any sequence of distinct message ids of the      *)
(* channel, non-increasing in ts, of length min(limit, count), such that    *)
(* no message left out is newer than the last one returned.                 *)
HistoryResults(msgs, ch, limit) ==
    LET ids  == {i \in 1..Len(msgs) : msgs[i].ch = ch}
        n    == IF Cardinality(ids) < limit THEN Cardinality(ids) ELSE limit
    IN  {h \in [1..n -> ids] :
            /\ \A i, j \in 1..n : i < j => h[i] # h[j] /\ msgs[h[i]].ts >= msgs[h[j]].ts
            /\ n > 0 => \A k \in ids \ Range(h) : msgs[k].ts <= msgs[h[n]].ts}

=============================================================================
