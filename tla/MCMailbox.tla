------------------------------ MODULE MCMailbox ------------------------------
(* Mailbox, with the environments of the run. *)
EXTENDS Mailbox

GoodAndBad == {{}, {"again"}, Happenings}
=============================================================================
