---------------------------- MODULE AcqcmdProofs -----------------------------
(***************************************************************************)
(* Proofs about the command line client for every course of the card, every *)
(* number of lines on stdin and every command line.                        *)
(***************************************************************************)
EXTENDS Acqcmd, TLAPS

Ends == {EOF, Null}
Lines == [text : Texts \cup {Null}, new : BOOLEAN]
Reading == {"pollread", "cmdread"}
Asking == {"start", "poll", "command", "stdin"}

\* Nothing is on its way.
Empty == inq = <<>> /\ serving = <<>> /\ out = <<>>

\* The command, a part of its answer, or an answer up to its end.
OneAnswer ==
    /\ out \in Seq(Lines) /\ \A i \in 1 .. Len(out) : out[i].new
    /\ \/ inq = <<TRUE>> /\ serving = <<>> /\ out = <<>>
       \/ /\ inq = <<>> /\ serving = <<TRUE>>
          /\ \A i \in 1 .. Len(out) : out[i].text \notin Ends
       \/ /\ inq = <<>> /\ serving = <<>> /\ Len(out) > 0
          /\ \A i \in 1 .. Len(out) : out[i].text \in Ends <=> i = Len(out)

\* At most one answer is on its way, and none when the next command is sent.  A
\* device is opened again for that, so it may keep what it likes until then.
WireInv ==
    /\ closed \in {"no", "refused", "gone"} /\ (closed # "no" => opt.sock)
    /\ closed = "no" => /\ pc \in Asking => Empty
                        /\ pc = "judge" /\ opt.sock => Empty
                        /\ pc \in Reading => OneAnswer
    /\ closed = "refused" => Empty
    /\ closed = "gone" => /\ inq = <<>> /\ serving = <<>> /\ pc # "start"
                          /\ pc \in Reading => /\ out \in Seq(Lines)
                                               /\ \A i \in 1 .. Len(out) : out[i].new

\* What a poll has found comes from one state that the card has been in.
Unanswered ==
    /\ found = {}
    /\ \/ inq = <<TRUE>>
       \/ /\ Len(out) > 0 /\ out[1].text \in since \cap States
          /\ \A i \in 2 .. Len(out) : out[i].text \in Ends
Answered == \E t \in since \cap States : found = Finds(t)
PollInv ==
    /\ pc = "pollread" =>
         /\ Course[card] \in since
         /\ \/ Unanswered
            \/ Answered /\ inq = <<>> /\ \A i \in 1 .. Len(out) : out[i].text \in Ends
    /\ pc = "judge" => Answered
    /\ pc = "done" => /\ rc = "ok" => IF opt.until # NoState THEN opt.until \in since
                                                             ELSE since \ {opt.while} # {}
                      /\ rc = "fail" => since \ {opt.while, opt.until} # {}

\* Which way a command line takes.
PollPlaces == {"start", "poll", "pollread", "judge", "done"}
CmdPlaces == {"start", "command", "stdin", "cmdread", "done"}
WayInv ==
    /\ opt \in Options /\ card \in 1 .. Len(Course) /\ nout \in {0, 1}
    /\ pc \in IF opt.kind = "poll" THEN PollPlaces ELSE CmdPlaces

Calm == ~ Troubles(Happenings)
CmdInv ==
    /\ WayInv
    /\ ~ OutOfStep => WireInv
    /\ Calm => closed = "no"
    /\ Calm /\ opt.kind = "poll" => PollInv

-----------------------------------------------------------------------------
LEMMA OptionFacts ==
    ASSUME opt \in Options
    PROVE  /\ opt.kind \in {"poll", "command", "stdin"}
           /\ opt.while \in States \cup {NoState} /\ opt.until \in States \cup {NoState}
BY OptionsAssumption

\* The text of an end says nothing about a state.
LEMMA EndFindsNothing == ASSUME opt \in Options, NEW e \in Ends PROVE Finds(e) = {}
<1>1. e # opt.while /\ e # opt.until
  BY OptionFacts, TextAssumption DEF Ends, Texts
<1> QED BY <1>1 DEF Finds

\* A command is sent when nothing else is on its way.
LEMMA SendStarts ==
    ASSUME WireInv, pc \in {"poll", "command", "stdin"}, SendCommand, pc' \in Reading
    PROVE  WireInv' /\ (closed = "no" => inq' = <<TRUE>>)
<1>1. /\ closed \in {"no", "refused"} /\ closed' = closed /\ Empty
  BY DEF SendCommand, WireInv, Asking
<1>2. inq' = IF closed = "refused" THEN inq ELSE Append(Old, TRUE)
  BY DEF SendCommand
<1>3. Old = <<>>
  BY <1>1 DEF Old, Empty
<1>4. out' = <<>>
  BY <1>1 DEF SendCommand, OldOut, Empty
<1>5. serving' = <<>>
  BY <1>1 DEF SendCommand, Empty
<1>6. closed = "no" => inq' = <<TRUE>>
  BY <1>2, <1>3
<1>7. closed = "refused" => inq' = <<>>
  BY <1>1, <1>2 DEF Empty
<1>8. out' \in Seq(Lines) /\ Len(out') = 0
  BY <1>4
<1>12. \A i \in 1 .. Len(out') : out'[i].new
  BY <1>8
<1>9. closed = "no" => OneAnswer'
  BY <1>4, <1>5, <1>6, <1>8, <1>12 DEF OneAnswer
<1>10. closed = "refused" => Empty'
  BY <1>4, <1>5, <1>7 DEF Empty
<1>11. pc' \notin Asking /\ pc' # "judge" /\ opt' = opt
  BY DEF Reading, Asking, SendCommand
<1> QED BY <1>1, <1>6, <1>9, <1>10, <1>11 DEF WireInv

\* A line is read: the rest of the answer stays in order, and nothing is left
\* after its end.
LEMMA ReadKeeps ==
    ASSUME OneAnswer, out # <<>>, out' = Tail(out), UNCHANGED <<inq, serving>>
    PROVE  /\ Head(out).text \notin Ends => OneAnswer'
           /\ Head(out).text \in Ends => Empty'
<1>7. out \in Seq(Lines) /\ inq = <<>> /\ \A i \in 1 .. Len(out) : out[i].new
  BY DEF OneAnswer
<1>8. Len(out) > 0 /\ Head(out) = out[1]
  BY <1>7
<1>1. /\ out \in Seq(Lines) /\ Len(out) > 0 /\ Head(out) = out[1] /\ inq = <<>>
      /\ \A i \in 1 .. Len(out) : out[i].new
  BY <1>7, <1>8
<1>2. /\ out' \in Seq(Lines) /\ Len(out') = Len(out) - 1
      /\ \A i \in 1 .. Len(out') : out'[i] = out[i + 1]
  BY <1>1
<1>3. \A i \in 1 .. Len(out') : i + 1 \in 1 .. Len(out) /\ (i + 1 = Len(out) <=> i = Len(out'))
  BY <1>1, <1>2
<1>4. \A i \in 1 .. Len(out') : out'[i].new
  BY <1>1, <1>2, <1>3
<1>5. CASE serving = <<TRUE>> /\ \A i \in 1 .. Len(out) : out[i].text \notin Ends
  <2>1. Head(out).text \notin Ends
    BY <1>1, <1>5
  <2>2. \A i \in 1 .. Len(out') : out'[i].text \notin Ends
    BY <1>2, <1>3, <1>5
  <2> QED BY <1>1, <1>2, <1>4, <1>5, <2>1, <2>2 DEF OneAnswer
<1>6. CASE serving = <<>> /\ \A i \in 1 .. Len(out) : out[i].text \in Ends <=> i = Len(out)
  <2>5. 1 \in 1 .. Len(out) /\ (1 = Len(out) <=> Len(out) = 1)
    BY <1>1
  <2>1. Head(out).text \in Ends <=> Len(out) = 1
    BY <1>1, <1>6, <2>5
  <2>2. \A i \in 1 .. Len(out') : out'[i].text \in Ends <=> i = Len(out')
    BY <1>2, <1>3, <1>6
  <2>3. Len(out) = 1 => out' = <<>>
    BY <1>1, <1>2
  <2>4. Len(out) # 1 => Len(out') > 0
    BY <1>1, <1>2
  <2> QED BY <1>1, <1>2, <1>4, <1>6, <2>1, <2>2, <2>3, <2>4 DEF OneAnswer, Empty
<1> QED BY <1>1, <1>5, <1>6 DEF OneAnswer

\* The daemon answers: the lines, then the end.
LEMMA ServeKeeps ==
    ASSUME opt \in Options, card \in 1 .. Len(Course), OneAnswer, Serve
    PROVE  /\ OneAnswer' /\ inq = <<TRUE>> /\ inq' = <<>>
           /\ opt.kind = "poll" => Len(out') = 1 /\ out'[1].text = Course[card]
<1>1. inq = <<TRUE>> /\ out = <<>> /\ inq # <<>>
  BY DEF Serve, OneAnswer
<1>2. serving' = <<TRUE>> /\ inq' = <<>>
  BY <1>1 DEF Serve
<1>3. PICK a \in Answers : out' = out \o [i \in DOMAIN a |-> [text |-> a[i], new |-> Head(inq)]]
  BY DEF Serve
<1>4. Course[card] \in States
  BY CourseAssumption
<1>5. /\ a \in Seq(Texts) /\ \A i \in 1 .. Len(a) : a[i] \notin Ends
      /\ opt.kind = "poll" => Len(a) = 1 /\ a[1] = Course[card]
  <2>1. CASE opt.kind = "poll"
    <3>1. a = <<Course[card]>>
      BY <1>3, <2>1 DEF Answers
    <3>2. Course[card] \in Texts /\ Course[card] \notin Ends
      BY <1>4, TextAssumption DEF Texts, Ends
    <3> QED BY <3>1, <3>2
  <2>2. CASE opt.kind # "poll"
    <3>1. a \in {<<>>, <<"data">>, <<"ERROR">>}
      BY <1>3, <2>2 DEF Answers
    <3>2. /\ "data" \in Texts /\ "data" \notin Ends
          /\ "ERROR" \in Texts /\ "ERROR" \notin Ends
      BY DEF Texts, Ends, EOF, Null
    <3>3. CASE a = <<>>
      BY <3>3, <2>2
    <3>4. CASE a = <<"data">>
      BY <3>2, <3>4, <2>2
    <3>5. CASE a = <<"ERROR">>
      BY <3>2, <3>5, <2>2
    <3> QED BY <3>1, <3>3, <3>4, <3>5
  <2> QED BY <2>1, <2>2
<1> DEFINE b == [i \in DOMAIN a |-> [text |-> a[i], new |-> TRUE]]
<1>10. DOMAIN a = 1 .. Len(a) /\ Len(a) \in Nat /\ \A i \in 1 .. Len(a) : a[i] \in Texts
  BY <1>5
<1>11. \A i \in 1 .. Len(a) : /\ b[i] = [text |-> a[i], new |-> TRUE]
                               /\ b[i] \in Lines /\ b[i].text = a[i] /\ b[i].new
  BY <1>10 DEF Lines
<1>12. b \in [1 .. Len(a) -> Lines]
  BY <1>10, <1>11
<1>6. /\ b \in Seq(Lines) /\ Len(b) = Len(a)
      /\ \A i \in 1 .. Len(a) : b[i].text = a[i] /\ b[i].new
  <2> HIDE DEF b
  <2>1. b \in Seq(Lines) /\ Len(b) = Len(a)
    BY <1>10, <1>12
  <2> QED BY <2>1, <1>11
<1>7. out' = <<>> \o b
  BY <1>1, <1>3
<1> HIDE DEF b
<1>8. out' = b
  BY <1>6, <1>7
<1>9. OneAnswer'
  BY <1>2, <1>5, <1>6, <1>8 DEF OneAnswer
<1> QED BY <1>1, <1>2, <1>5, <1>6, <1>8, <1>9

LEMMA EndKeeps ==
    ASSUME OneAnswer, ServeEnd
    PROVE  /\ OneAnswer' /\ inq = <<>> /\ inq' = <<>> /\ Len(out') = Len(out) + 1
           /\ \A i \in 1 .. Len(out) : out'[i] = out[i]
           /\ out'[Len(out')].text \in Ends
<1>1. inq = <<>> /\ serving = <<TRUE>> /\ \A i \in 1 .. Len(out) : out[i].text \notin Ends
  BY DEF ServeEnd, OneAnswer
<1> DEFINE e == [text |-> IF opt.sock THEN EOF ELSE Null, new |-> TRUE]
<1>2. e \in Lines /\ e.text \in Ends /\ e.new
  BY DEF Lines, Ends, Texts
<1>3. out' = Append(out, e) /\ serving' = <<>> /\ inq' = <<>>
  BY <1>1 DEF ServeEnd
<1> HIDE DEF e
<1>4. out \in Seq(Lines) /\ \A i \in 1 .. Len(out) : out[i].new
  BY DEF OneAnswer
<1>5. /\ out' \in Seq(Lines) /\ Len(out') = Len(out) + 1 /\ out'[Len(out')] = e
      /\ \A i \in 1 .. Len(out) : out'[i] = out[i]
  BY <1>2, <1>3, <1>4
<1>6. \A i \in 1 .. Len(out') : i = Len(out') \/ i \in 1 .. Len(out)
  BY <1>4, <1>5
<1>7. \A i \in 1 .. Len(out') : out'[i].new
  BY <1>2, <1>4, <1>5, <1>6
<1>8. \A i \in 1 .. Len(out') : out'[i].text \in Ends <=> i = Len(out')
  BY <1>1, <1>2, <1>4, <1>5, <1>6
<1>9. OneAnswer'
  BY <1>3, <1>4, <1>5, <1>7, <1>8 DEF OneAnswer
<1> QED BY <1>1, <1>2, <1>3, <1>5, <1>9

-----------------------------------------------------------------------------
(***************************************************************************)
(* Every step keeps the wire in order, when answers are not late.          *)
(***************************************************************************)
\* After an answer acqcmd exits or goes on with stdin.
LEMMA AnswerEnds ==
    ASSUME WayInv, pc = "cmdread", AfterAnswer
    PROVE  \/ pc' = "done"
           \/ pc' = "stdin" /\ opt.kind = "stdin"
<1>1. opt.kind \in {"command", "stdin"} /\ nout \in {0, 1}
  BY OptionFacts DEF WayInv, PollPlaces
<1>2. CASE nout = 0
  <2>2. nout = 0 /\ ~ (nout > 0)
    BY <1>2
  <2>1. AfterAnswer <=> Exit("fail")
    BY <2>2, Zenon DEF AfterAnswer
  <2> QED BY <2>1 DEF Exit
<1>3. CASE nout = 1
  <2>1. nout > 0 /\ nout # 0
    BY <1>3
  <2>2. CASE opt.kind = "command"
    <3>1. opt.kind # "stdin"
      BY <2>2
    <3>2. AfterAnswer <=> Exit(IF err THEN "error" ELSE "ok")
      BY <2>1, <2>2, <3>1, Zenon DEF AfterAnswer
    <3> QED BY <3>2 DEF Exit
  <2>3. CASE opt.kind = "stdin"
    <3>1. opt.kind # "command"
      BY <2>3
    <3>2. AfterAnswer <=> Goto("stdin") /\ UNCHANGED rc
      BY <2>1, <2>3, <3>1, Zenon DEF AfterAnswer
    <3> QED BY <3>2, <2>3 DEF Goto
  <2> QED BY <1>1, <2>2, <2>3
<1> QED BY <1>1, <1>2, <1>3

LEMMA WireStep ==
    ASSUME WayInv, WireInv, ~ OutOfStep, Next
    PROVE  WireInv'
<1> USE DEF WireInv, Reading, Asking
<1>w. opt \in Options /\ card \in 1 .. Len(Course)
  BY DEF WayInv
<1>1. CASE Connect
  <2>1. opt.kind \in {"poll", "command", "stdin"} /\ pc = "start" /\ pc' = opt.kind
    BY <1>1, <1>w, OptionFacts DEF Connect, Goto
  <2>2. UNCHANGED <<opt, inq, serving, out, closed>>
    BY <1>1 DEF Connect, wire
  <2> QED BY <2>1, <2>2 DEF Empty
<1>2. CASE ConnectRefused
  <2>1. opt.kind \in {"poll", "command", "stdin"} /\ pc = "start" /\ pc' = opt.kind
    BY <1>2, <1>w, OptionFacts DEF ConnectRefused, Goto
  <2>2. opt.sock /\ closed' = "refused" /\ UNCHANGED <<opt, inq, serving, out>>
    BY <1>2 DEF ConnectRefused
  <2> QED BY <2>1, <2>2 DEF Empty
<1>15. CASE StdinEnd
  <2>1. pc' = "done" /\ UNCHANGED <<opt, serving, out, closed>> /\ (closed # "no" => inq' = inq)
    BY <1>15 DEF StdinEnd, Exit
  <2> QED BY <2>1 DEF Empty
<1>16. CASE CmdReadFails
  <2>1. pc = "cmdread" /\ UNCHANGED <<opt, inq, serving, out, closed>> /\ opt.kind # "stdin"
    BY <1>16 DEF CmdReadFails, wire, OutOfStep
  <2>2. pc' = "done"
    BY <1>16, <2>1, AnswerEnds DEF CmdReadFails
  <2> QED BY <2>1, <2>2 DEF Empty
<1>3. CASE ConnectFails \/ Killed \/ Alarm
  <2>1. pc' = "done" /\ UNCHANGED <<opt, inq, serving, out, closed>>
    BY <1>3 DEF ConnectFails, Killed, Alarm, Exit, wire
  <2> QED BY <2>1 DEF Empty
<1>4. CASE PollSend \/ Command \/ StdinCommand
  <2>1. SendCommand /\ pc \in {"poll", "command", "stdin"} /\ pc' \in Reading
    BY <1>4 DEF PollSend, Command, StdinCommand, Goto
  <2> QED BY <2>1, SendStarts
<1>5. CASE PollRead
  <2>1. /\ pc = "pollread" /\ out # <<>> /\ out' = Tail(out) /\ Head(out).text # Null
        /\ pc' = IF ~ opt.sock \/ Head(out).text = EOF THEN "judge" ELSE "pollread"
        /\ UNCHANGED <<opt, inq, serving, closed>>
    BY <1>5 DEF PollRead, Look, Enough, Goto
  <2>2. CASE closed = "no"
    <3>1. OneAnswer
      BY <2>1, <2>2
    <3>2. /\ Head(out).text \notin Ends => OneAnswer'
          /\ Head(out).text \in Ends => Empty'
      BY <2>1, <3>1, ReadKeeps
    <3>3. Head(out).text \in Ends <=> Head(out).text = EOF
      BY <2>1 DEF Ends
    <3> QED BY <2>1, <2>2, <3>2, <3>3
  <2>3. CASE closed = "gone"
    <3>1. out \in Seq(Lines) /\ \A i \in 1 .. Len(out) : out[i].new
      BY <2>1, <2>3
    <3>2. out' \in Seq(Lines) /\ Len(out') = Len(out) - 1 /\ \A i \in 1 .. Len(out') : out'[i] = out[i + 1]
      BY <2>1, <3>1
    <3>3. \A i \in 1 .. Len(out') : i + 1 \in 1 .. Len(out)
      BY <3>1, <3>2
    <3>4. \A i \in 1 .. Len(out') : out'[i].new
      BY <3>1, <3>2, <3>3
    <3> QED BY <2>1, <2>3, <3>2, <3>4
  <2> QED BY <2>1, <2>2, <2>3 DEF Empty
<1>6. CASE PollReadNothing
  <2>1. /\ pc = "pollread" /\ UNCHANGED <<opt, inq, serving, out, closed>>
        /\ pc' \in {"judge", "pollread"} /\ (~ opt.sock => pc' = "judge")
        /\ opt.sock => closed # "no"
    BY <1>6 DEF PollReadNothing, Look, Enough, Goto, wire, OutOfStep
  <2>2. OneAnswer' <=> OneAnswer
    BY <2>1 DEF OneAnswer
  <2> QED BY <2>1, <2>2 DEF Empty
<1>7. CASE Judge
  <2>1. pc = "judge" /\ UNCHANGED <<opt, closed>>
    BY <1>7 DEF Judge, wire
  <2>2. CASE pc' = "done" /\ UNCHANGED wire
    BY <2>1, <2>2 DEF wire, Empty
  <2>3. CASE opt.sock /\ pc' = "poll" /\ UNCHANGED <<inq, serving, out>>
    BY <2>1, <2>3 DEF Empty
  <2>4. CASE ~ opt.sock /\ pc' = "start" /\ inq' = <<>> /\ serving' = <<>> /\ out' = <<>>
    BY <2>1, <2>4 DEF Empty
  <2> QED BY <1>7, <2>2, <2>3, <2>4 DEF Judge, Exit, Goto
<1>8. CASE StdinSkip \/ StdinContinued
  BY <1>8 DEF StdinSkip, StdinContinued, wire, Empty
<1>9. CASE CmdRead
  <2>1. /\ pc = "cmdread" /\ out # <<>> /\ out' = Tail(out) /\ Head(out).text \notin Ends
        /\ UNCHANGED <<opt, pc, inq, serving, closed>>
    BY <1>9 DEF CmdRead, Ends
  <2>2. CASE closed = "no"
    BY <2>1, <2>2, ReadKeeps
  <2>3. CASE closed = "gone"
    <3>1. out \in Seq(Lines) /\ \A i \in 1 .. Len(out) : out[i].new
      BY <2>1, <2>3
    <3>2. out' \in Seq(Lines) /\ Len(out') = Len(out) - 1 /\ \A i \in 1 .. Len(out') : out'[i] = out[i + 1]
      BY <2>1, <3>1
    <3>3. \A i \in 1 .. Len(out') : i + 1 \in 1 .. Len(out)
      BY <3>1, <3>2
    <3>4. \A i \in 1 .. Len(out') : out'[i].new
      BY <3>1, <3>2, <3>3
    <3> QED BY <2>1, <2>3, <3>2, <3>4
  <2> QED BY <2>1, <2>2, <2>3 DEF Empty
<1>10. CASE CmdEnd
  <2>1. pc = "cmdread" /\ UNCHANGED <<opt, inq, serving, closed>> /\ pc' \in {"done", "stdin"}
    BY <1>10, AnswerEnds DEF CmdEnd
  <2>2. CASE out # <<>> /\ Head(out).text \in Ends /\ out' = Tail(out)
    <3>1. CASE closed = "no"
      <4>1. Empty'
        BY <2>1, <2>2, <3>1, ReadKeeps
      <4> QED BY <2>1, <3>1, <4>1
    <3> QED BY <2>1, <2>2, <3>1 DEF Empty
  <2>3. CASE out = <<>> /\ closed # "no" /\ out' = out
    BY <2>1, <2>3 DEF Empty
  <2> QED BY <1>10, <2>2, <2>3 DEF CmdEnd, Ends
<1>11. CASE Serve
  <2>1. UNCHANGED <<opt, pc, closed>> /\ inq # <<>>
    BY <1>11 DEF Serve
  <2>2. pc \in Reading => OneAnswer'
    BY <1>11, <2>1, <1>w, ServeKeeps DEF Empty
  <2> QED BY <2>1, <2>2 DEF Empty
<1>12. CASE ServeEnd
  <2>1. UNCHANGED <<opt, pc, closed>> /\ serving # <<>>
    BY <1>12 DEF ServeEnd
  <2>2. pc \in Reading => OneAnswer'
    BY <1>12, <2>1, EndKeeps DEF Empty
  <2> QED BY <2>1, <2>2 DEF Empty
<1>13. CASE HangUp
  <2>1. /\ opt.sock /\ closed = "no" /\ pc # "start" /\ closed' = "gone"
        /\ inq' = <<>> /\ serving' = <<>> /\ UNCHANGED <<opt, pc, out>>
    BY <1>13 DEF HangUp
  <2> QED BY <2>1 DEF OneAnswer
<1>14. CASE CardMove
  <2>1. UNCHANGED <<opt, pc, inq, serving, out, closed>>
    BY <1>14 DEF CardMove, wire
  <2> QED BY <2>1 DEF Empty, OneAnswer
<1> QED BY <1>1, <1>2, <1>3, <1>4, <1>5, <1>6, <1>7, <1>8, <1>9, <1>10, <1>11, <1>12, <1>13, <1>14,
           <1>15, <1>16
        DEF Next, Poll, Commands, Daemon

LEMMA WayStep == WayInv /\ [Next]_vars => WayInv'
<1> SUFFICES ASSUME WayInv, [Next]_vars PROVE WayInv'
  OBVIOUS
<1>1. CASE UNCHANGED vars
  BY <1>1 DEF vars, client, WayInv
<1>2. CASE Next
  <2>1. opt' = opt /\ opt \in Options /\ opt.kind \in {"poll", "command", "stdin"}
    BY <1>2, OptionFacts
       DEF WayInv, Next, Connect, ConnectRefused, ConnectFails, Killed, Alarm, Poll, PollSend,
           SendCommand, PollRead, PollReadNothing, Judge, Commands, Command, StdinSkip, StdinCommand,
           StdinContinued, StdinEnd, CmdRead, CmdEnd, CmdReadFails, Daemon, Serve, ServeEnd, HangUp, CardMove
  <2>2. card' \in 1 .. Len(Course)
    <3>1. CASE CardMove
      BY <3>1, CourseAssumption DEF CardMove, WayInv
    <3>2. CASE card' = card
      BY <3>2 DEF WayInv
    <3> QED BY <1>2, <3>1, <3>2
       DEF Next, Connect, ConnectRefused, ConnectFails, Killed, Alarm, Poll, PollSend,
           SendCommand, PollRead, PollReadNothing, Judge, Commands, Command, StdinSkip, StdinCommand,
           StdinContinued, StdinEnd, CmdRead, CmdEnd, CmdReadFails, Daemon, Serve, ServeEnd, HangUp
  <2>3. nout' \in {0, 1}
    BY <1>2
       DEF WayInv, Next, Connect, ConnectRefused, ConnectFails, Killed, Alarm, Poll, PollSend, client,
           SendCommand, PollRead, PollReadNothing, Judge, Commands, Command, StdinSkip, StdinCommand,
           StdinContinued, StdinEnd, CmdRead, CmdEnd, CmdReadFails, Daemon, Serve, ServeEnd, HangUp, CardMove
  <2>4. pc' \in IF opt.kind = "poll" THEN PollPlaces ELSE CmdPlaces
    <3>1. CASE CmdEnd \/ CmdReadFails
      BY <3>1, AnswerEnds DEF CmdEnd, CmdReadFails, PollPlaces, CmdPlaces, WayInv
    <3>2. CASE Connect \/ ConnectRefused \/ ConnectFails \/ Killed \/ Alarm \/ StdinEnd
      BY <2>1, <3>2 DEF Connect, ConnectRefused, ConnectFails, Killed, Alarm, StdinEnd, Goto, Exit,
                        PollPlaces, CmdPlaces
    <3>3. CASE Poll
      BY <3>3 DEF Poll, PollSend, PollRead, PollReadNothing, Look, Judge, Goto, Exit, WayInv,
                  PollPlaces, CmdPlaces
    <3>4. CASE Command \/ StdinCommand
      BY <3>4 DEF Command, StdinCommand, Goto, WayInv, PollPlaces, CmdPlaces
    <3>5. CASE StdinSkip \/ StdinContinued \/ CmdRead \/ Daemon \/ HangUp \/ CardMove
      BY <3>5 DEF StdinSkip, StdinContinued, CmdRead, Daemon, Serve, ServeEnd, HangUp, CardMove, WayInv
    <3> QED BY <1>2, <3>1, <3>2, <3>3, <3>4, <3>5 DEF Next, Commands
  <2> QED BY <2>1, <2>2, <2>3, <2>4 DEF WayInv
<1> QED BY <1>1, <1>2

-----------------------------------------------------------------------------
(***************************************************************************)
(* What a poll finds, when nothing goes wrong.                             *)
(***************************************************************************)
\* The verdict on one state that the card has been in.
LEMMA VerdictRight ==
    ASSUME opt \in Options, Answered
    PROVE  /\ Verdict = "success" => IF opt.until # NoState THEN opt.until \in since
                                                          ELSE since \ {opt.while} # {}
           /\ Verdict = "fail" => since \ {opt.while, opt.until} # {}
<1>1. PICK t \in since \cap States : found = Finds(t)
  BY DEF Answered
<1>2. /\ "until" \in found <=> t = opt.until
      /\ "while" \in found <=> t = opt.while
  BY <1>1 DEF Finds
<1>3. t # NoState
  BY TextAssumption DEF Texts
<1>4. CASE "until" \in found
  <2>1. Verdict = "success"
    BY <1>4, Zenon DEF Verdict
  <2> QED BY <1>1, <1>2, <1>3, <1>4, <2>1
<1>5. CASE "until" \notin found /\ opt.until = NoState /\ "while" \notin found
  <2>1. t \in since \ {opt.while} /\ t \in since \ {opt.while, opt.until}
    BY <1>1, <1>2, <1>5
  <2> QED BY <1>5, <2>1
<1>6. CASE "until" \notin found /\ opt.until # NoState /\ "while" \notin found
  <2>1. t \in since \ {opt.while, opt.until}
    BY <1>1, <1>2, <1>6
  <2>2. Verdict # "success"
    BY <1>6 DEF Verdict
  <2> QED BY <2>1, <2>2
<1>7. CASE "until" \notin found /\ "while" \in found
  <2>1. Verdict = "again"
    BY <1>7 DEF Verdict
  <2> QED BY <2>1
<1> QED BY <1>4, <1>5, <1>6, <1>7

LEMMA PollStep ==
    ASSUME WayInv, WireInv, Calm, closed = "no", opt.kind = "poll", PollInv, Next
    PROVE  PollInv'
<1>w. opt \in Options /\ card \in 1 .. Len(Course) /\ pc \in PollPlaces
  BY DEF WayInv
<1>c. "late" \notin env /\ "readfail" \notin env /\ "hangup" \notin env
  BY DEF Calm, Troubles, Happenings
<1>1. CASE Connect \/ ConnectRefused
  <2>1. pc' = "poll"
    BY <1>1 DEF Connect, ConnectRefused, Goto
  <2> QED BY <2>1 DEF PollInv
<1>2. CASE ConnectFails \/ Killed \/ Alarm
  <2>1. pc' = "done" /\ rc' \in {"errno", "SIGPIPE", "ETIMEDOUT"}
    BY <1>2 DEF ConnectFails, Killed, Alarm, Exit
  <2> QED BY <2>1 DEF PollInv
<1>3. CASE PollSend
  <2>1. inq' = <<TRUE>>
    BY <1>3, SendStarts DEF PollSend, Goto, Reading
  <2>2. pc' = "pollread" /\ found' = {} /\ since' = {Course[card]} /\ card' = card
    BY <1>3 DEF PollSend, SendCommand, Goto
  <2> QED BY <2>1, <2>2 DEF PollInv, Unanswered
<1>4. CASE PollRead
  <2>1. /\ pc = "pollread" /\ out # <<>> /\ Head(out).text # Null /\ out' = Tail(out)
        /\ found' = found \cup Finds(Head(out).text)
        /\ pc' = IF ~ opt.sock \/ Head(out).text = EOF THEN "judge" ELSE "pollread"
        /\ UNCHANGED <<opt, inq, serving, card, since>>
    BY <1>4 DEF PollRead, Look, Enough, Goto
  <2>2. OneAnswer
    BY <2>1 DEF WireInv, Reading
  <2>3. /\ inq = <<>> /\ Len(out) > 0 /\ Head(out) = out[1] /\ Len(out') = Len(out) - 1
        /\ \A i \in 1 .. Len(out') : out'[i] = out[i + 1] /\ i + 1 \in 2 .. Len(out)
    <3>1. out \in Seq(Lines) /\ inq = <<>>
      BY <2>1, <2>2 DEF OneAnswer
    <3> QED BY <2>1, <3>1
  <2>4. \A t : Finds(t)' = Finds(t)
    BY <2>1 DEF Finds
  <2>5. CASE Unanswered
    <3>1. /\ found = {} /\ out[1].text \in since \cap States
          /\ \A i \in 2 .. Len(out) : out[i].text \in Ends
      BY <2>3, <2>5 DEF Unanswered
    <3>2. found' = Finds(out[1].text)
      BY <2>1, <2>3, <3>1
    <3>3. Answered'
      BY <2>1, <2>4, <3>1, <3>2 DEF Answered
    <3>4. \A i \in 1 .. Len(out') : out'[i].text \in Ends
      BY <2>3, <3>1
    <3> QED BY <2>1, <2>3, <3>3, <3>4 DEF PollInv
  <2>6. CASE Answered /\ \A i \in 1 .. Len(out) : out[i].text \in Ends
    <3>1. Head(out).text \in Ends
      BY <2>3, <2>6
    <3>2. found' = found
      BY <1>w, <2>1, <3>1, EndFindsNothing
    <3>3. Answered'
      BY <2>1, <2>4, <2>6, <3>2 DEF Answered
    <3>4. \A i \in 1 .. Len(out') : out'[i].text \in Ends
      BY <2>3, <2>6
    <3> QED BY <2>1, <2>3, <3>3, <3>4 DEF PollInv
  <2> QED BY <2>1, <2>5, <2>6 DEF PollInv
<1>5. CASE PollReadNothing
  BY <1>5, <1>c DEF PollReadNothing
<1>6. CASE Judge
  <2>1. pc = "judge" /\ Answered /\ UNCHANGED <<opt, since>>
    BY <1>6 DEF Judge, PollInv
  <2>2. CASE Verdict = "again" /\ pc' \in {"poll", "start"}
    BY <2>2 DEF PollInv
  <2>3. CASE Verdict = "success" /\ pc' = "done" /\ rc' = "ok"
    BY <1>w, <2>1, <2>3, VerdictRight DEF PollInv
  <2>4. CASE Verdict = "fail" /\ pc' = "done" /\ rc' = "fail"
    BY <1>w, <2>1, <2>4, VerdictRight DEF PollInv
  <2> QED BY <1>6, <2>2, <2>3, <2>4 DEF Judge, Exit, Goto
<1>7. CASE Commands
  BY <1>7, <1>w DEF Commands, Command, StdinSkip, StdinContinued, StdinCommand, StdinEnd, CmdRead,
                      CmdEnd, CmdReadFails, PollPlaces
<1>8. CASE Serve
  <2>1. UNCHANGED <<opt, pc, found, rc, card, since>>
    BY <1>8 DEF Serve, client
  <2>2. CASE pc = "pollread"
    <3>1. OneAnswer
      BY <2>2 DEF WireInv, Reading
    <3>2. inq = <<TRUE>> /\ Len(out') = 1 /\ out'[1].text = Course[card]
      BY <1>8, <1>w, <3>1, ServeKeeps
    <3>3. Course[card] \in since \cap States
      BY <1>w, <2>2, CourseAssumption DEF PollInv
    <3>4. found = {}
      BY <2>2, <3>2 DEF PollInv, Unanswered
    <3>5. Unanswered'
      <4>1. \A i \in 2 .. Len(out') : out'[i].text \in Ends
        BY <3>2
      <4>2. Len(out') > 0
        BY <3>2
      <4> QED BY <2>1, <3>2, <3>3, <3>4, <4>1, <4>2 DEF Unanswered
    <3> QED BY <2>1, <2>2, <3>3, <3>5 DEF PollInv
  <2>3. CASE pc # "pollread"
    <3>1. Answered' <=> Answered
      BY <2>1 DEF Answered, Finds
    <3> QED BY <2>1, <2>3, <3>1 DEF PollInv
  <2> QED BY <2>2, <2>3
<1>9. CASE ServeEnd
  <2>1. UNCHANGED <<opt, pc, found, rc, card, since>>
    BY <1>9 DEF ServeEnd, client
  <2>4. Answered' <=> Answered
    BY <2>1 DEF Answered, Finds
  <2>2. CASE pc = "pollread"
    <3>1. OneAnswer
      BY <2>2 DEF WireInv, Reading
    <3>2. /\ inq = <<>> /\ inq' = <<>> /\ Len(out') = Len(out) + 1 /\ Len(out) \in Nat
          /\ \A i \in 1 .. Len(out) : out'[i] = out[i]
          /\ out'[Len(out')].text \in Ends
      <4>1. Len(out) \in Nat
        BY <3>1 DEF OneAnswer
      <4> QED BY <1>9, <3>1, <4>1, EndKeeps
    <3>3. \A i \in 1 .. Len(out') : i = Len(out') \/ i \in 1 .. Len(out)
      BY <3>2
    <3>4. CASE Unanswered
      <4>1. /\ found = {} /\ Len(out) > 0 /\ out[1].text \in since \cap States
            /\ \A i \in 2 .. Len(out) : out[i].text \in Ends
        BY <3>2, <3>4 DEF Unanswered
      <4>2. \A i \in 2 .. Len(out') : i = Len(out') \/ (i \in 2 .. Len(out) /\ i \in 1 .. Len(out))
        BY <3>2
      <4>3. out'[1].text = out[1].text /\ Len(out') > 0
        BY <3>2, <4>1
      <4>4. \A i \in 2 .. Len(out') : out'[i].text \in Ends
        BY <3>2, <4>1, <4>2
      <4>5. Unanswered'
        BY <2>1, <4>1, <4>3, <4>4 DEF Unanswered
      <4> QED BY <2>1, <2>2, <4>5 DEF PollInv
    <3>5. CASE Answered /\ \A i \in 1 .. Len(out) : out[i].text \in Ends
      <4>1. \A i \in 1 .. Len(out') : out'[i].text \in Ends
        BY <3>2, <3>3, <3>5
      <4> QED BY <2>1, <2>2, <2>4, <3>2, <3>5, <4>1 DEF PollInv
    <3> QED BY <2>2, <3>4, <3>5 DEF PollInv
  <2>3. CASE pc # "pollread"
    BY <2>1, <2>3, <2>4 DEF PollInv
  <2> QED BY <2>2, <2>3
<1>10. CASE HangUp
  BY <1>10, <1>c DEF HangUp
<1>11. CASE CardMove
  <2>1. /\ UNCHANGED <<opt, pc, found, rc, inq, out>> /\ pc # "done"
        /\ since \subseteq since' /\ Course[card'] \in since'
    BY <1>11 DEF CardMove, client, wire
  <2>2. Answered => Answered'
    BY <2>1 DEF Answered, Finds
  <2>3. Unanswered => Unanswered'
    BY <2>1 DEF Unanswered
  <2> QED BY <2>1, <2>2, <2>3 DEF PollInv
<1> QED BY <1>1, <1>2, <1>3, <1>4, <1>5, <1>6, <1>7, <1>8, <1>9, <1>10, <1>11
        DEF Next, Poll, Daemon

LEMMA CmdStep == CmdInv /\ [Next]_vars => CmdInv'
<1> SUFFICES ASSUME CmdInv, [Next]_vars PROVE CmdInv'
  OBVIOUS
<1>1. WayInv'
  BY WayStep DEF CmdInv
<1>2. CASE Next
  <2>1. UNCHANGED <<opt, env>>
    BY <1>2
       DEF Next, Connect, ConnectRefused, ConnectFails, Killed, Alarm, Poll, PollSend,
           SendCommand, PollRead, PollReadNothing, Judge, Commands, Command, StdinSkip, StdinCommand,
           StdinContinued, StdinEnd, CmdRead, CmdEnd, CmdReadFails, Daemon, Serve, ServeEnd, HangUp, CardMove
  <2>2. ~ OutOfStep => WireInv'
    BY <1>2, WireStep DEF CmdInv
  <2>3. Calm => "hangup" \notin env /\ ~ OutOfStep
    BY DEF Calm, Troubles, Happenings, OutOfStep
  <2>4. Calm => closed' = "no"
    BY <1>2, <2>3
       DEF CmdInv, Next, Connect, ConnectRefused, ConnectFails, Killed, Alarm, Poll, PollSend, wire,
           SendCommand, PollRead, PollReadNothing, Judge, Commands, Command, StdinSkip, StdinCommand,
           StdinContinued, StdinEnd, CmdRead, CmdEnd, CmdReadFails, Daemon, Serve, ServeEnd, HangUp, CardMove
  <2>5. Calm /\ opt.kind = "poll" => PollInv'
    BY <1>2, <2>3, PollStep DEF CmdInv
  <2> QED BY <1>1, <2>1, <2>2, <2>4, <2>5 DEF CmdInv, Calm, Troubles, OutOfStep
<1>3. CASE UNCHANGED vars
  BY <1>1, <1>3 DEF vars, client, wire, CmdInv, WireInv, Empty, OneAnswer, Calm, Troubles, OutOfStep, PollInv,
                    Unanswered, Answered, Finds
<1> QED BY <1>2, <1>3

LEMMA CmdSafe == Spec => []CmdInv
<1>1. Init => CmdInv
  <2> SUFFICES ASSUME Init PROVE CmdInv
    OBVIOUS
  <2>1. WayInv
    BY CourseAssumption DEF Init, WayInv, PollPlaces, CmdPlaces
  <2>2. WireInv /\ closed = "no"
    BY DEF Init, WireInv, Empty, Asking, Reading
  <2>3. PollInv
    BY DEF Init, PollInv
  <2> QED BY <2>1, <2>2, <2>3 DEF CmdInv
<1> QED BY <1>1, CmdStep, PTL DEF Spec

\* Nobody takes the rest of one answer for the next: InStep.
THEOREM AnswersInStep == Spec => []InStep
<1>1. CmdInv => InStep
  <2> SUFFICES ASSUME WireInv, pc \in Reading PROVE \A i \in DOMAIN out : out[i].new
    BY DEF CmdInv, InStep, Reading
  <2>1. CASE closed \in {"no", "gone"}
    <3>1. out \in Seq(Lines) /\ \A i \in 1 .. Len(out) : out[i].new
      BY <2>1 DEF WireInv, OneAnswer
    <3> QED BY <3>1
  <2>2. CASE closed = "refused"
    BY <2>2 DEF WireInv, Empty
  <2> QED BY <2>1, <2>2 DEF WireInv
<1> QED BY <1>1, CmdSafe, PTL

\* The exit code of a poll stands for a state that the card has been in since
\* the last question: ResultIsSeen.
THEOREM ResultSeen == Spec => []ResultIsSeen
<1>1. CmdInv => ResultIsSeen
  BY DEF CmdInv, ResultIsSeen, PollInv, Calm
<1> QED BY <1>1, CmdSafe, PTL
=============================================================================
