---------------------------- MODULE MCConversation --------------------------
(***************************************************************************)
(* Instances of Conversation: two clients that open with the same words,   *)
(* one of them streaming with Anthropic tool results, on two accounts.     *)
(***************************************************************************)
EXTENDS Conversation

\* Accounts are told apart by nothing.
Symmetry == Permutations(Accounts)

MCCalls == [c \in Clients |->
  IF c \in Streaming THEN {"none", "ungrouped"} ELSE {"grouped"}]

MCOpening == [c \in Clients |-> 1]
=============================================================================
