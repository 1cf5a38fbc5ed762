--------------------------- MODULE MCMessageQueue ---------------------------
(* Chats of the messages of an instance.                                   *)
EXTENDS MessageQueue

OneChat == [m \in Msgs |-> 1]
=============================================================================
