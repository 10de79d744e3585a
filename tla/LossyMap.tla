------------------------------ MODULE LossyMap ------------------------------
(***************************************************************************)
(* What m_cache::SharedCache promises its callers: a map that may forget,  *)
(* but only while a Put is in progress, and that never answers a Get with  *)
(* anything but what the last successful Put of that key stored.           *)
(***************************************************************************)
CONSTANTS
  Keys,
  Values,
  Nothing   \* a miss, none of the Values

VARIABLES
  content,  \* content[k]: what the last successful Put of k stored
  view,     \* view[k]: what Get(k) answers, Nothing for a miss
  pending   \* the Put in progress, <<k, v>>, or <<>>

vars == <<content, view, pending>>

Init ==
  /\ content = [k \in Keys |-> Nothing]
  /\ view = [k \in Keys |-> Nothing]
  /\ pending = <<>>

Begin(k, v) ==
  /\ pending = <<>>
  /\ pending' = <<k, v>>
  /\ UNCHANGED <<content, view>>

(* While a Put works, entries may become unreadable, or readable again, and
   the key being stored may already answer with the new value.              *)
Disturb ==
  /\ pending # <<>>
  /\ \A k \in Keys : \/ view'[k] \in {Nothing, content[k]}
                     \/ <<k, view'[k]>> = pending
  /\ DOMAIN view' = Keys
  /\ UNCHANGED <<content, pending>>

(* A successful Put can be read back at once *)
Commit ==
  /\ pending # <<>>
  /\ view[pending[1]] = pending[2]
  /\ content' = [content EXCEPT ![pending[1]] = pending[2]]
  /\ pending' = <<>>
  /\ UNCHANGED view

(* A failed one stored nothing *)
Abort ==
  /\ pending # <<>>
  /\ \A k \in Keys : view[k] \in {Nothing, content[k]}
  /\ pending' = <<>>
  /\ UNCHANGED <<content, view>>

Remove(k) ==
  /\ pending = <<>>
  /\ content[k] # Nothing
  /\ content' = [content EXCEPT ![k] = Nothing]
  /\ view' = [view EXCEPT ![k] = Nothing]
  /\ UNCHANGED pending

Clear ==
  /\ pending = <<>>
  /\ content' = [k \in Keys |-> Nothing]
  /\ view' = [k \in Keys |-> Nothing]
  /\ UNCHANGED pending

Next ==
  \/ \E k \in Keys : (\E v \in Values : Begin(k, v)) \/ Remove(k)
  \/ Disturb \/ Commit \/ Abort
  \/ Clear

Spec == Init /\ [][Next]_vars
=============================================================================
