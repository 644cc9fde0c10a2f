--------------------------- MODULE MCConversation ----------------------------
\* A small instance: a window of two messages, a small file and a huge one.
EXTENDS Conversation

MCSizeOf == [n \in Names |-> IF n = "a" THEN 2100 ELSE 4200]
=============================================================================
