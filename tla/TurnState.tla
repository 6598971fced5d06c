------------------------------- MODULE TurnState -------------------------------
(***************************************************************************)
(* The turn state machine of a live conversation                           *)
(* (voice/conversation/turns.py).                                          *)
(***************************************************************************)

TurnStates == {"listening", "thinking", "speaking", "interrupted", "closed"}

AllowedTargets ==
    [s \in TurnStates |->
        CASE s = "listening"   -> {"thinking", "closed"}
          [] s = "thinking"    -> {"speaking", "listening", "interrupted", "closed"}
          [] s = "speaking"    -> {"listening", "interrupted", "closed"}
          [] s = "interrupted" -> {"listening", "closed"}
          [] s = "closed"      -> {}]

\* A turn is under way.
ActiveStates == {"thinking", "speaking"}

================================================================================
