------------------------------ MODULE MCAcqcmd -------------------------------
(* Acqcmd: the uses of the program, calm and with troubles. *)
EXTENDS Acqcmd

ArmRunStop == <<"ARM", "RUN", "STOP">>

\* One condition or two; the pairs with both leave out the same state twice.
Polls ==
    [kind : {"poll"}, sock : BOOLEAN, timeout : BOOLEAN,
     while : {NoState, "RUN"}, until : {NoState, "STOP"}]
Uses ==
    {o \in Polls : o.while # NoState \/ o.until # NoState}
    \cup [kind : {"command", "stdin"}, sock : BOOLEAN, timeout : BOOLEAN,
          while : {NoState}, until : {NoState}]

OneByOne == {{}} \cup {{h} : h \in Happenings}
=============================================================================
