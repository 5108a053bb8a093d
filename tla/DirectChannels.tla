--------------------------- MODULE DirectChannels ---------------------------
(***************************************************************************)
(* What the Channel Resolver and message send promise (spec sections 3,    *)
(* 4.3 and 6), independent of locks, connections and SQL: a channel is     *)
(* created once per unordered pair of distinct users, together with its    *)
(* "channel created" message from the requesting user, as one unit; a     *)
(* message is appended to an existing channel.  Nothing is ever changed or *)
(* removed.  Reading the history changes nothing, so it is a stutter.      *)
(***************************************************************************)
EXTENDS Naturals, Sequences

CONSTANTS Users   \* user ids

VARIABLES
    channels, \* channel id -> the set of its two members, in id order
    log       \* the messages, [sender, ch], in message_id order

dcVars == <<channels, log>>

HasChannel(a, b) == \E i \in DOMAIN channels : channels[i] = {a, b}

Init ==
    /\ channels = <<>>
    /\ log = <<>>

(* resolveOrCreate(a, b) when the pair has no channel. *)
Create(a, b) ==
    /\ a # b
    /\ ~HasChannel(a, b)
    /\ channels' = Append(channels, {a, b})
    /\ log' = Append(log, [sender |-> a, ch |-> Len(channels) + 1])

(* sendMessage(s, ch, body) with a non-empty body. *)
Post(s, ch) ==
    /\ ch \in DOMAIN channels
    /\ log' = Append(log, [sender |-> s, ch |-> ch])
    /\ UNCHANGED channels

Next ==
    \/ \E a, b \in Users : Create(a, b)
    \/ \E s \in Users, ch \in DOMAIN channels : Post(s, ch)

Spec == Init /\ [][Next]_dcVars

=============================================================================
