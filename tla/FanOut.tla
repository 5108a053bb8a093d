------------------------------- MODULE FanOut -------------------------------
(***************************************************************************)
(* The send loop of sendMessageOverWebSocket (src/slack/chat_server.cpp).  *)
(* inbox[c] is the sequence of message ids connection c has been sent; a  *)
(* message body is abstracted to the id of its row in the message table.  *)
(* A send_text on a connection whose peer is gone does not reach it; the  *)
(* exception it may raise is caught inside the loop.                       *)
(***************************************************************************)
EXTENDS SequencesExt

(* A variant whose try/catch encloses the loop: the first send_text that   *)
(* throws, on a connection whose peer is gone, ends the whole fan-out.      *)
DeliverStopAtFailure(inbox, targets, m, live) ==
    LET dead == {i \in 1..Len(targets) : targets[i] \notin live}
        stop == IF dead = {} THEN Len(targets) ELSE Min(dead) - 1
    IN  FoldLeft(LAMBDA ib, c : [ib EXCEPT ![c] = Append(@, m)],
                 inbox, SubSeq(targets, 1, stop))

(* One conn->send_text(payload) per target, in order; live is the set of    *)
(* connections whose transport is still open.                               *)
Deliver(inbox, targets, m, live) ==
    FoldLeft(LAMBDA ib, c : IF c \in live
                            THEN [ib EXCEPT ![c] = Append(@, m)]
                            ELSE ib,
             inbox, targets)

=============================================================================
