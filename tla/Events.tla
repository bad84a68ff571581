------------------------------- MODULE Events -------------------------------
(* What the modules of the event client share.                               *)

CONSTANT EventIds    \* scada::EventId: the ids the server hands out

=============================================================================
