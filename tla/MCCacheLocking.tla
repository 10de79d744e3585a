--------------------------- MODULE MCCacheLocking ---------------------------
(* CacheLocking with threads of one process, and with a process each. *)
EXTENDS CacheLocking

Together == [t \in Threads |-> CHOOSE p \in Processes : TRUE]
Apart    == [t \in Threads |-> t]
=============================================================================
