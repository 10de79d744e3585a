------------------------------- MODULE CrashMap -------------------------------
(***************************************************************************)
(* What is left of LossyMap's promise when processes are killed: all of it *)
(* up to the first kill that breaks the file, nothing behind it.           *)
(***************************************************************************)
EXTENDS LossyMap

VARIABLE broken   \* whether such a kill has happened

CrashInit == Init /\ broken = FALSE

Break == broken' = TRUE

CrashNext == Break \/ (~broken' /\ Next)

CrashSpec == CrashInit /\ [][CrashNext]_<<vars, broken>>
=============================================================================
