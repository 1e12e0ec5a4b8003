--------------------------- MODULE MCConversation ---------------------------
(* Small instances of Conversation: two turns in one conversation, one in    *)
(* another.                                                                  *)
EXTENDS ConversationContract, TLC

CONSTANTS c1, c2, r1, r2, r3

TwoOfOne == [r \in Requests |-> IF r \in {r1, r2} THEN c1 ELSE c2]
AllOfOne == [r \in Requests |-> c1]
SameTurns == Permutations({r1, r2})
=============================================================================
