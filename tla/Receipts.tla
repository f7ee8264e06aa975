------------------------------ MODULE Receipts ------------------------------
(***************************************************************************)
(* What the outbox of the gateway promises those who send, with nothing of *)
(* queues, attempts or processes (packages/gateway/src/outbox.ts, "durable *)
(* logical-message boundary").  An accepted message is open until it has a *)
(* receipt; the receipt is the last word on it until an operator asks for  *)
(* another delivery; "delivered" means that the channel showed it.         *)
(*                                                                         *)
(* Nobody who writes a record looks at its status, so the promise has an   *)
(* exception, and the exception has limits: only a recovery an operator    *)
(* asked for gives an open message a second sender (twofold), only such a  *)
(* message loses a receipt, and it is over when the process ends.          *)
(***************************************************************************)
EXTENDS Naturals

CONSTANTS Message, Reply    \* Reply: messages that may repeat another reply

VARIABLES receipt,          \* none, open, delivered, failed or cancelled
          shown,            \* what the channel has shown
          twofold,          \* messages with two senders
          recalls           \* how often an operator asked for another delivery

promised == <<receipt, shown, twofold, recalls>>

Final == {"delivered", "failed", "cancelled"}

InHand(m) == receipt[m] = "open" \/ m \in twofold

(* A record that is gone is not made again by those who report on it.       *)
Written(m, word) == [receipt EXCEPT ![m] = IF @ = "none" THEN @ ELSE word]
-----------------------------------------------------------------------------
Init == /\ receipt = [m \in Message |-> "none"]
        /\ shown = {} /\ twofold = {} /\ recalls = 0

(* A full outbox makes room by forgetting messages that have a receipt.  A  *)
(* message may have failed before the channel was asked.                    *)
Accept(m) == /\ receipt[m] = "none"
             /\ \E forgotten \in SUBSET {n \in Message : receipt[n] \in Final},
                   word \in {"open", "failed"} :
                  receipt' = [n \in Message |-> IF n = m THEN word
                                                ELSE IF n \in forgotten THEN "none"
                                                ELSE receipt[n]]
             /\ UNCHANGED <<shown, twofold, recalls>>

Show(m) == /\ InHand(m)
           /\ receipt' = Written(m, "delivered")
           /\ shown' = shown \cup {m}
           /\ UNCHANGED <<twofold, recalls>>

(* A reply with the content of one that went out before.                    *)
Repeat(m) == /\ InHand(m) /\ m \in Reply
             /\ receipt' = Written(m, "delivered")
             /\ UNCHANGED <<shown, twofold, recalls>>

(* Failed does not mean that the channel has not shown it: the receipt that *)
(* says so may have been lost.                                              *)
GiveUp(m) == /\ InHand(m)
             /\ \E word \in {"failed", "cancelled"} : receipt' = Written(m, word)
             /\ shown' \in {shown, shown \cup {m}}
             /\ UNCHANGED <<twofold, recalls>>

(* Shown, and no receipt of it.                                             *)
ShowUnseen(m) == /\ InHand(m)
                 /\ shown' = shown \cup {m}
                 /\ UNCHANGED <<receipt, twofold, recalls>>

(* The other sender of a twofold message tries again.                       *)
Reopen(m) == /\ m \in twofold
             /\ receipt' = Written(m, "open")
             /\ UNCHANGED <<shown, twofold, recalls>>

Recall(m) == /\ receipt[m] \in {"failed", "cancelled"}
             /\ receipt' = [receipt EXCEPT ![m] = "open"]
             /\ \E more \in SUBSET {n \in Message : receipt[n] = "open"} :
                  twofold' = twofold \cup more
             /\ recalls' = recalls + 1
             /\ UNCHANGED shown

Forget(m) == /\ receipt[m] \in Final
             /\ receipt' = [receipt EXCEPT ![m] = "none"]
             /\ UNCHANGED <<shown, twofold, recalls>>

Restart == twofold' = {} /\ UNCHANGED <<receipt, shown, recalls>>

Next == \/ \E m \in Message : \/ Accept(m) \/ Show(m) \/ Repeat(m) \/ GiveUp(m) \/ ShowUnseen(m)
                              \/ Reopen(m) \/ Recall(m) \/ Forget(m)
        \/ Restart

Spec == Init /\ [][Next]_promised
-----------------------------------------------------------------------------
(* What a sender concludes from it: a receipt of a message with one sender  *)
(* is never replaced, by an attempt, a stop or a recovery, unless an        *)
(* operator asked for that; the outbox at most forgets it.                  *)
LastWord ==
  [][\A m \in Message :
       receipt[m] \in Final /\ m \notin twofold /\ recalls' = recalls
         => receipt'[m] \in {receipt[m], "none"}]_promised
=============================================================================
