----------------------------- MODULE ChatServer -----------------------------
(***************************************************************************)
(* The direct-message server of src/slack/chat_server.cpp: HTTP handlers   *)
(* (createUser, createChannel, sendMessage) running on Crow's worker       *)
(* threads, and WebSocket callbacks (onopen, onmessage, onclose) running   *)
(* per connection, sharing the MySQL tables under dbMutex and the presence *)
(* map wsMap under wsMutex.                                                *)
(*                                                                         *)
(* Every wsMutex critical section is one step here: nothing else in it    *)
(* touches shared state.  dbMutex is held across steps by createChannel    *)
(* and sendMessage, which call sendMessageOverWebSocket (taking wsMutex)   *)
(* while they still hold it; dbHolder records the holder.  The database    *)
(* work inside one dbMutex section is one step, split where it calls out   *)
(* to wsMutex and, in createChannel, between the lookup and the inserts.   *)
(***************************************************************************)
EXTENDS Integers, SequencesExt, PresenceRegistry, FanOut, ChannelStore

CONSTANTS
    Names,          \* user names (model values)
    Conns,          \* WebSocket connections (model values)
    Workers,        \* Crow worker threads serving HTTP requests
    MaxUid,         \* user ids are 1..MaxUid
    MaxChannels,    \* bound on rows of the channel table
    MaxMsgs,        \* bound on rows of the message table
    MaxTime,        \* bound on the clock, in seconds
    MaxRegs,        \* bound on the length of one wsMap vector
    HistoryLimit,   \* the LIMIT of the history query (10 in the code)
    AllowDbFailure, \* whether a statement may throw sql::SQLException
    NoUser,         \* the name of a user id with no row
    InitUsers,      \* the user table when the server starts (it persists)
    Beats,          \* the <<uid, name>> payloads clients send as heartbeats
    ChannelRequests,\* the <<sender, receiver>> name pairs of /channel requests
    NoHolder        \* dbMutex is free

Uids      == 1..MaxUid
UidOrZero == 0..MaxUid
MsgIds    == 1..MaxMsgs

VARIABLES
    users,      \* user table: id -> userName, NoUser if there is no row
    lastTs,     \* user table: id -> last_timestamp
    autoInc,    \* the table's AUTO_INCREMENT counter
    nChan,      \* channel table: ids 1..nChan
    membership, \* membership table, rows [ch, uid] in membership_id order
    msgs,       \* message table, rows [sender, ch, ts]; index = message_id
    dbHolder,   \* the worker holding dbMutex across steps, or NoHolder
    wsMap,      \* the presence map, see PresenceRegistry
    connState,  \* transport state of each connection
    hb,         \* per-connection onmessage handler: pc, parsed payload, and
                \* whether it still holds wsMutex
    inbox,      \* message ids sent to each connection, in order
    wk,         \* per-worker request state
    clock,      \* system_clock::now(), whole seconds
    phase       \* main(): "connecting", then "serving" or "exited"

db    == <<users, lastTs, autoInc, nChan, membership, msgs>>
vars  == <<db, dbHolder, wsMap, connState, hb, inbox, wk, clock, phase>>

ConnStates == {"new", "open", "dead", "freed"}
IdleWorker == [pc |-> "idle", s |-> 0, r |-> 0, to |-> <<>>, m |-> 0, resp |-> <<>>]
IdleHb     == [pc |-> "idle", uid |-> 0, name |-> NoUser, ws |-> FALSE]
Live       == {c \in Conns : connState[c] = "open"}

(* wsMutex is free unless an onmessage handler holds it across steps; every *)
(* other wsMutex section is a single step, taken only when it is free.      *)
WsFree     == \A c \in Conns : ~hb[c].ws

(* The number of statements of a sequence of n that succeed before one     *)
(* throws: all n, or, when statements may fail, any prefix.                 *)
InsertOutcomes(n) == IF AllowDbFailure THEN 0..n ELSE {n}

Init ==
    /\ users = InitUsers
    /\ lastTs = [u \in Uids |-> 0]
    /\ autoInc = 1 + Cardinality({u \in Uids : InitUsers[u] # NoUser})
    /\ nChan = 0
    /\ membership = <<>>
    /\ msgs = <<>>
    /\ dbHolder = NoHolder
    /\ wsMap = <<>>
    /\ connState = [c \in Conns |-> "new"]
    /\ hb = [c \in Conns |-> IdleHb]
    /\ inbox = [c \in Conns |-> <<>>]
    /\ wk = [w \in Workers |-> IdleWorker]
    /\ clock = 0
    /\ phase = "connecting"

-----------------------------------------------------------------------------
(* Startup *)

(* main() calls connectToDb, which rethrows a failed connect or setSchema;  *)
(* main then returns 1.  Otherwise it registers the routes and app.run()    *)
(* serves requests until the process is stopped.  The tables persist       *)
(* across this, so they are the same in either case.                        *)
Start ==
    /\ phase = "connecting"
    /\ \/ phase' = "serving"
       \/ /\ AllowDbFailure
          /\ phase' = "exited"
    /\ UNCHANGED <<db, dbHolder, wsMap, connState, hb, inbox, wk, clock>>

(* The process has returned from main: nothing more happens. *)
Exited ==
    /\ phase = "exited"
    /\ UNCHANGED vars

-----------------------------------------------------------------------------
(* HTTP handlers *)

(* /createUser/<name>: under dbMutex, select by name and insert a row with  *)
(* the next auto-increment id when there is none.                           *)
CreateUser(w, name) ==
    /\ wk[w].pc = "idle"
    /\ dbHolder = NoHolder
    /\ IF \E u \in Uids : users[u] = name
       THEN UNCHANGED <<users, lastTs, autoInc>>
       ELSE /\ autoInc <= MaxUid
            /\ users' = [users EXCEPT ![autoInc] = name]
            /\ lastTs' = [lastTs EXCEPT ![autoInc] = clock]
            /\ autoInc' = autoInc + 1
    /\ wk' = [wk EXCEPT ![w] = IdleWorker]
    /\ UNCHANGED <<nChan, membership, msgs, dbHolder, wsMap, connState, hb, inbox, clock, phase>>

(* A variant of the lookup that does not hold dbMutex into the inserts: the *)
(* lock_guard scoped to the lookup alone.                                   *)
ChannelLookupUnlocked(w, senderName, receiverName) ==
    /\ wk[w].pc = "idle"
    /\ dbHolder = NoHolder
    /\ \E s \in FindUserId(users, senderName), r \in FindUserId(users, receiverName) :
         LET found == CommonChannels(membership, s, r) IN
         \/ /\ found # {}
            /\ \E c \in found : \E h \in HistoryResults(msgs, c, HistoryLimit) :
                 wk' = [wk EXCEPT ![w] = [IdleWorker EXCEPT !.resp = h]]
         \/ /\ found = {}
            /\ nChan < MaxChannels /\ Len(msgs) < MaxMsgs
            /\ wk' = [wk EXCEPT ![w] = [IdleWorker EXCEPT !.pc = "create", !.s = s, !.r = r]]
    /\ UNCHANGED <<db, dbHolder, wsMap, connState, hb, inbox, clock, phase>>

(* /channel/<sender>/<receiver>: take dbMutex, resolve both names and look  *)
(* up a channel with both as members.  Found: fetch the history and return *)
(* it (dbMutex released).  Not found: keep dbMutex for the inserts.        *)
ChannelLookup(w, senderName, receiverName) ==
    /\ wk[w].pc = "idle"
    /\ dbHolder = NoHolder
    /\ \E s \in FindUserId(users, senderName), r \in FindUserId(users, receiverName) :
         LET found == CommonChannels(membership, s, r) IN
         \/ /\ found # {}
            /\ \E c \in found : \E h \in HistoryResults(msgs, c, HistoryLimit) :
                 wk' = [wk EXCEPT ![w] = [IdleWorker EXCEPT !.resp = h]]
            /\ UNCHANGED dbHolder
         \/ /\ found = {}
            /\ nChan < MaxChannels /\ Len(msgs) < MaxMsgs
            /\ dbHolder' = w
            /\ wk' = [wk EXCEPT ![w] = [IdleWorker EXCEPT !.pc = "create", !.s = s, !.r = r]]
    /\ UNCHANGED <<db, wsMap, connState, hb, inbox, clock, phase>>

(* A variant of the create branch that releases dbMutex before calling     *)
(* sendMessageOverWebSocket, as section 5 of the spec suggests.             *)
ChannelCreateEarlyUnlock(w) ==
    LET s == wk[w].s
        r == wk[w].r
        c == nChan + 1
        rows == <<[ch |-> c, uid |-> s], [ch |-> c, uid |-> r]>>
    IN
    /\ wk[w].pc = "create"
    /\ \E k \in InsertOutcomes(4) :
         /\ nChan' = IF k >= 1 THEN c ELSE nChan
         /\ msgs' = IF k >= 2 THEN Append(msgs, [sender |-> s, ch |-> c, ts |-> clock])
                              ELSE msgs
         /\ membership' = membership \o SubSeq(rows, 1, k - 2)
         /\ dbHolder' = NoHolder
         /\ wk' = [wk EXCEPT ![w] = IF k = 4
                                    THEN [IdleWorker EXCEPT !.pc = "fanout", !.s = s,
                                             !.to = <<r>>, !.m = Len(msgs) + 1]
                                    ELSE IdleWorker]
    /\ UNCHANGED <<users, lastTs, autoInc, wsMap, connState, hb, inbox, clock, phase>>

(* The create branch: insert the channel row, the "channel created" message *)
(* from the sender, the sender's and the receiver's membership rows, each   *)
(* its own autocommitted statement; then call sendMessageOverWebSocket for  *)
(* the receiver still holding dbMutex.  A statement that throws ends the    *)
(* request with 500 and releases dbMutex, keeping the rows already written. *)
ChannelCreate(w) ==
    LET s == wk[w].s
        r == wk[w].r
        c == nChan + 1
        rows == <<[ch |-> c, uid |-> s], [ch |-> c, uid |-> r]>>
    IN
    /\ wk[w].pc = "create"
    /\ \E k \in InsertOutcomes(4) :
         /\ nChan' = IF k >= 1 THEN c ELSE nChan
         /\ msgs' = IF k >= 2 THEN Append(msgs, [sender |-> s, ch |-> c, ts |-> clock])
                              ELSE msgs
         /\ membership' = membership \o SubSeq(rows, 1, k - 2)
         /\ IF k = 4
            THEN /\ wk' = [wk EXCEPT ![w] = [IdleWorker EXCEPT
                              !.pc = "fanout", !.s = s, !.to = <<r>>, !.m = Len(msgs) + 1]]
                 /\ UNCHANGED dbHolder
            ELSE /\ wk' = [wk EXCEPT ![w] = IdleWorker]
                 /\ dbHolder' = NoHolder
    /\ UNCHANGED <<users, lastTs, autoInc, wsMap, connState, hb, inbox, clock, phase>>

(* /message/<senderId>/<channelId> with a non-empty msg: take dbMutex,      *)
(* insert the message, read the channel's members other than the sender    *)
(* and the sender's name; then call sendMessageOverWebSocket still holding *)
(* dbMutex.  An empty or unparsable body returns 400 before any of this.   *)
SendMessage(w, senderId, ch) ==
    /\ wk[w].pc = "idle"
    /\ dbHolder = NoHolder
    /\ Len(msgs) < MaxMsgs
    /\ \E k \in InsertOutcomes(2) :
         /\ msgs' = IF k >= 1 THEN Append(msgs, [sender |-> senderId, ch |-> ch, ts |-> clock])
                              ELSE msgs
         /\ IF k = 2
            THEN /\ dbHolder' = w
                 /\ wk' = [wk EXCEPT ![w] = [IdleWorker EXCEPT !.pc = "fanout", !.s = senderId,
                              !.to = RecipientsExcept(membership, ch, senderId),
                              !.m = Len(msgs) + 1]]
            ELSE /\ wk' = [wk EXCEPT ![w] = IdleWorker]
                 /\ UNCHANGED dbHolder
    /\ UNCHANGED <<users, lastTs, autoInc, nChan, membership, wsMap, connState, hb, inbox, clock, phase>>

(* sendMessageOverWebSocket, called by both handlers above: under wsMutex,  *)
(* send to every connection of every recipient; then the handler returns,  *)
(* releasing dbMutex.                                                       *)
Fanout(w) ==
    /\ wk[w].pc = "fanout"
    /\ WsFree
    /\ inbox' = Deliver(inbox, ConnectionsOf(wsMap, wk[w].to), wk[w].m, Live)
    /\ dbHolder' = NoHolder
    /\ wk' = [wk EXCEPT ![w] = IdleWorker]
    /\ UNCHANGED <<db, wsMap, connState, hb, clock, phase>>

-----------------------------------------------------------------------------
(* WebSocket callbacks; Crow runs those of one connection one at a time. *)

(* onopen only logs. *)
Open(c) ==
    /\ connState[c] = "new"
    /\ connState' = [connState EXCEPT ![c] = "open"]
    /\ UNCHANGED <<db, dbHolder, wsMap, hb, inbox, wk, clock, phase>>

(* A variant whose lock_guard on wsMutex is scoped to the whole handler    *)
(* rather than to the block around push_back, so the upsert that follows    *)
(* waits for dbMutex while still holding wsMutex.                           *)
HeartbeatHoldingWs(c, uid, name) ==
    /\ connState[c] = "open"
    /\ hb[c].pc = "idle"
    /\ WsFree
    /\ uid \in DOMAIN wsMap => Len(wsMap[uid]) < MaxRegs
    /\ wsMap' = Register(wsMap, uid, c)
    /\ hb' = [hb EXCEPT ![c] = [pc |-> "upsert", uid |-> uid, name |-> name, ws |-> TRUE]]
    /\ UNCHANGED <<db, dbHolder, connState, inbox, wk, clock, phase>>

(* onmessage with a "uid,name" frame: push &conn onto wsMap[uid] under     *)
(* wsMutex.  A frame without a comma, or whose uid std::stol rejects, only *)
(* logs and changes nothing.  The lock_guard's block ends before the      *)
(* upsert, so the handler leaves this step without wsMutex.                 *)
Heartbeat(c, uid, name) ==
    /\ connState[c] = "open"
    /\ hb[c].pc = "idle"
    /\ WsFree
    /\ uid \in DOMAIN wsMap => Len(wsMap[uid]) < MaxRegs
    /\ wsMap' = Register(wsMap, uid, c)
    /\ hb' = [hb EXCEPT ![c] = [pc |-> "upsert", uid |-> uid, name |-> name, ws |-> FALSE]]
    /\ UNCHANGED <<db, dbHolder, connState, inbox, wk, clock, phase>>

(* The rest of onmessage, after wsMutex is released: under dbMutex,        *)
(* INSERT (id, userName, last_timestamp) ON DUPLICATE KEY UPDATE            *)
(* last_timestamp.  An SQLException is logged and swallowed.                *)
HeartbeatUpsert(c) ==
    LET uid == hb[c].uid IN
    /\ hb[c].pc = "upsert"
    /\ dbHolder = NoHolder
    /\ \/ /\ users[uid] = NoUser
          /\ users' = [users EXCEPT ![uid] = hb[c].name]
          /\ lastTs' = [lastTs EXCEPT ![uid] = clock]
          /\ autoInc' = IF uid >= autoInc THEN uid + 1 ELSE autoInc
       \/ /\ users[uid] # NoUser
          /\ lastTs' = [lastTs EXCEPT ![uid] = clock]
          /\ UNCHANGED <<users, autoInc>>
       \/ /\ AllowDbFailure
          /\ UNCHANGED <<users, lastTs, autoInc>>
    /\ hb' = [hb EXCEPT ![c] = IdleHb]
    /\ UNCHANGED <<nChan, membership, msgs, dbHolder, wsMap, connState, inbox, wk, clock, phase>>

(* onclose: under wsMutex, remove the connection from every vector; Crow   *)
(* destroys the connection object once the handler returns.                *)
OnClose(c) ==
    /\ connState[c] \in {"open", "dead"}
    /\ hb[c].pc = "idle"
    /\ WsFree
    /\ wsMap' = Deregister(wsMap, c)
    /\ connState' = [connState EXCEPT ![c] = "freed"]
    /\ UNCHANGED <<db, dbHolder, hb, inbox, wk, clock, phase>>

-----------------------------------------------------------------------------
(* Environment *)

(* The peer vanishes; Crow has not yet run onclose. *)
PeerDrop(c) ==
    /\ connState[c] = "open"
    /\ connState' = [connState EXCEPT ![c] = "dead"]
    /\ UNCHANGED <<db, dbHolder, wsMap, hb, inbox, wk, clock, phase>>

Tick ==
    /\ clock < MaxTime
    /\ clock' = clock + 1
    /\ UNCHANGED <<db, dbHolder, wsMap, connState, hb, inbox, wk, phase>>

(* The handlers app.run() dispatches, on its worker and connection threads. *)
Serve ==
    \/ \E w \in Workers :
         \/ \E n \in Names : CreateUser(w, n)
         \/ \E p \in ChannelRequests : ChannelLookup(w, p[1], p[2])
         \/ ChannelCreate(w)
         \/ \E u \in Uids, ch \in 1..nChan : SendMessage(w, u, ch)
         \/ Fanout(w)
    \/ \E c \in Conns :
         \/ Open(c)
         \/ \E b \in Beats : Heartbeat(c, b[1], b[2])
         \/ HeartbeatUpsert(c)
         \/ OnClose(c)
         \/ PeerDrop(c)

Next ==
    \/ Start
    \/ Exited
    \/ phase = "serving" /\ Serve
    \/ Tick

Spec == Init /\ [][Next]_vars

(* main() runs connectToDb to its end.                                      *)
(* A worker thread inside a handler that holds dbMutex runs on to its end: *)
(* nothing in createChannel or sendMessageOverWebSocket waits for another  *)
(* request.  A heartbeat thread blocked on dbMutex takes it if it stays    *)
(* free.  std::mutex promises nothing more, so this is weak fairness only, *)
(* and nothing is assumed of requests that have not arrived.               *)
Fairness ==
    /\ WF_vars(Start)
    /\ \A w \in Workers : WF_vars(ChannelCreate(w)) /\ WF_vars(Fanout(w))
    /\ \A c \in Conns : WF_vars(HeartbeatUpsert(c))

FairSpec == Spec /\ Fairness

-----------------------------------------------------------------------------
(* Properties *)

TypeOK ==
    /\ users \in [Uids -> Names \cup {NoUser}]
    /\ lastTs \in [Uids -> 0..MaxTime]
    /\ autoInc \in 1..MaxUid + 1
    /\ nChan \in 0..MaxChannels
    /\ membership \in Seq([ch : 1..MaxChannels, uid : UidOrZero])
    /\ msgs \in Seq([sender : UidOrZero, ch : 1..MaxChannels, ts : 0..MaxTime])
    /\ dbHolder \in Workers \cup {NoHolder}
    /\ phase \in {"connecting", "serving", "exited"}
    /\ DOMAIN wsMap \subseteq Uids
    /\ \A u \in DOMAIN wsMap : wsMap[u] \in Seq(Conns) /\ wsMap[u] # <<>>
    /\ connState \in [Conns -> ConnStates]
    /\ inbox \in [Conns -> Seq(MsgIds)]
    /\ clock \in 0..MaxTime

(* The registry never holds a connection Crow has destroyed: onclose must  *)
(* take out every copy heartbeats pushed, under every key, before the      *)
(* object is freed, or a later fan-out writes through a dangling pointer.  *)
NoDanglingConnection ==
    \A u \in DOMAIN wsMap : \A c \in Range(wsMap[u]) : connState[c] # "freed"

(* However lookups and creations of channels interleave, two users never   *)
(* share more than one channel: the lookup and the inserts of              *)
(* createChannel must be one dbMutex critical section.                     *)
OneChannelPerPair ==
    \A a, b \in UidOrZero :
        a # b => Cardinality(CommonChannels(membership, a, b)) <= 1

(* Every connection receives messages in message_id order (the order they  *)
(* were stored), because each handler fans out before releasing dbMutex.   *)
DeliveryInStoreOrder ==
    \A c \in Conns : IsSorted(inbox[c], <=)

(* A fan-out reaches every open connection registered under a recipient,   *)
(* even when a connection before it in the loop is already dead.           *)
FanoutReachesLiveMembers ==
    [][\A w \in Workers :
          (wk[w].pc = "fanout" /\ wk'[w].pc = "idle") =>
             \A c \in Range(ConnectionsOf(wsMap, wk[w].to)) \cap Live :
                  Len(inbox'[c]) > Len(inbox[c]) /\ Last(inbox'[c]) = wk[w].m]_vars

(* The channel and message tables, seen as DirectChannels sees them: the  *)
(* members of each channel and the messages without their timestamps.      *)
DC == INSTANCE DirectChannels WITH
        Users    <- Uids,
        channels <- [i \in 1..nChan |-> {r.uid : r \in {x \in ToSet(membership) : x.ch = i}}],
        log      <- [i \in 1..Len(msgs) |-> [sender |-> msgs[i].sender, ch |-> msgs[i].ch]]

(* The resolver and message send implement DirectChannels when requests    *)
(* name two distinct existing users and no statement fails: every step of  *)
(* the server creates one channel of a new pair with its two memberships   *)
(* and creation message, appends one message, or leaves the tables alone.  *)
DirectChannelsSpec == DC!Spec

(* A worker that takes dbMutex releases it: createChannel between its      *)
(* lookup and its fan-out, and sendMessage up to its fan-out, reach the    *)
(* end of the lock_guard's scope on every path, the SQL error paths that   *)
(* answer 500 included, and the fan-out's wsMutex is never held by an      *)
(* onmessage that is itself waiting for dbMutex (the lock_guard's block     *)
(* ends at l. 426, before the upsert locks dbMutex at l. 430).  Otherwise   *)
(* every later request and every heartbeat upsert waits on dbMutex forever. *)
(* It says nothing of a message stored on an error path and never sent.     *)
DbMutexReleased ==
    \A w \in Workers : dbHolder = w ~> dbHolder # w

(* wsMap seen as the set of <<user, connection>> pairs spec 4.1 describes. *)
PS == INSTANCE PresenceSet WITH
        UserIds <- Uids,
        reg     <- {p \in Uids \X Conns : p[1] \in DOMAIN wsMap /\ p[2] \in Range(wsMap[p[1]])}

(* The registry implements spec 4.1 as a set: every change to the set of   *)
(* registered pairs is a heartbeat adding one pair or an onclose removing  *)
(* all pairs of one connection, and no other step changes it; the copies   *)
(* push_back makes do not show in the set.  A stuttering onclose also      *)
(* satisfies this; that close removes every copy is NoDanglingConnection.  *)
PresenceSetSpec == PS!Spec

-----------------------------------------------------------------------------
(* What the spec says of the program, and the code does not do. *)

(* Spec 4.1, 4.5 and 8: registering a connection again is idempotent, so   *)
(* a member's connection receives each message exactly once.  onmessage    *)
(* pushes &conn on every heartbeat, and the fan-out sends once per copy.   *)
NoDuplicateDelivery ==
    \A c \in Conns : \A i, j \in 1..Len(inbox[c]) : i # j => inbox[c][i] # inbox[c][j]

(* Spec 3, invariant 1: every membership's (channel, user) pair is unique. *)
(* createChannel with the same name twice inserts two identical rows.      *)
MembershipPairsUnique ==
    \A i, j \in 1..Len(membership) : i # j => membership[i] # membership[j]

(* Spec 3: history is newest first, ties in created_at broken by id.  The  *)
(* query orders by created_at alone, which has whole-second resolution.    *)
Newer(a, b) == msgs[a].ts > msgs[b].ts \/ (msgs[a].ts = msgs[b].ts /\ a > b)
HistoryNewestFirst ==
    \A w \in Workers : \A i \in 1..Len(wk[w].resp) - 1 :
        Newer(wk[w].resp[i], wk[w].resp[i + 1])

(* Spec 3, invariant 2, and 4.3: a channel always has exactly two          *)
(* memberships, its rows written as one unit.  createChannel runs four     *)
(* autocommitted INSERTs, and one that throws leaves the earlier ones.     *)
TwoMembersPerChannel ==
    \A c \in 1..nChan : Len(SelectSeq(membership, LAMBDA r : r.ch = c)) = 2

=============================================================================
