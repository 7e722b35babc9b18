----------------------------- MODULE CardLedger -----------------------------
(***************************************************************************)
(* What the pipeline promises the feed and the Telegram channel: a feed    *)
(* entry gets at most one card, the card is final, and an urgent notice is *)
(* sent once and only for a card that was published automatically.         *)
(***************************************************************************)
EXTENDS Naturals

CONSTANTS
  Items,      \* feed entries
  None,       \* no card
  Cards       \* what the pipeline may decide about an entry

VARIABLES
  card,       \* the card of each entry
  notices     \* urgent notices sent for each entry

Init ==
  /\ card = [r \in Items |-> None]
  /\ notices = [r \in Items |-> 0]

Make(r, c) ==
  /\ card[r] = None
  /\ card' = [card EXCEPT ![r] = c]
  /\ UNCHANGED notices

Announce(r) ==
  /\ card[r] # None
  /\ card[r].decision = "published"
  /\ card[r].urgent
  /\ notices[r] = 0
  /\ notices' = [notices EXCEPT ![r] = 1]
  /\ UNCHANGED card

Next == \E r \in Items : Announce(r) \/ \E c \in Cards : Make(r, c)

Spec == Init /\ [][Next]_<<card, notices>>
=============================================================================
