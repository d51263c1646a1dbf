----------------------------- MODULE MCEditLock -----------------------------
(***************************************************************************)
(* Two tabs.  Tab a makes every kind of request; tab b, which competes     *)
(* with it for the lock, those listed.                                     *)
(***************************************************************************)
EXTENDS EditLock

CONSTANTS a, b

MCDoes == [s \in {a, b} |->
    IF s = a THEN Kinds ELSE {"acquire", "heartbeat"}]

=============================================================================
