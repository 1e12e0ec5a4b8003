------------------------ MODULE ConversationContract ------------------------
(* Conversation implements TurnContract: the rows of a turn are what the     *)
(* contract speaks of, until a confirmation of one of them is lost.          *)
EXTENDS ConversationInv

shown == [r \in Requests |-> IF r \in lost THEN "unknown" ELSE reply[r]]
told == [q \in Questions |-> IF q[1] \in lost THEN "unknown" ELSE question[q]]

Contract == INSTANCE TurnContract WITH status <- shown, asked <- told

\* Every step of the backend, whatever the interleaving and the failures, is one
\* that the contract allows for the turns it speaks of, or changes none of them.
ContractHolds == Contract!Spec
=============================================================================
