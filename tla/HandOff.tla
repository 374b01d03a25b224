------------------------------- MODULE HandOff -------------------------------
(***************************************************************************)
(* What a read-ahead buffer owes the two sides of it: the reader gets what *)
(* was sent, in order and in whole batches, and hears of the end - or of   *)
(* the error - only after the last of it.                                  *)
(***************************************************************************)
EXTENDS Naturals, Sequences, SequencesExt

VARIABLES
    sent,       \* all that was handed in, in order
    received,   \* all the reader got
    ended       \* the reader heard of the end

handOffVars == <<sent, received, ended>>

Init == sent = <<>> /\ received = <<>> /\ ended = FALSE

Send ==
    /\ ~ended
    /\ IsStrictPrefix(sent, sent')
    /\ UNCHANGED <<received, ended>>

Receive ==
    /\ ~ended
    /\ received' = sent
    /\ UNCHANGED <<sent, ended>>

End ==
    /\ received = sent
    /\ ended' = TRUE
    /\ UNCHANGED <<sent, received>>

Next == Send \/ Receive \/ End

Spec == Init /\ [][Next]_handOffVars
=============================================================================
