------------------------------- MODULE Acqcmd --------------------------------
(***************************************************************************)
(* The command line client (acqcmd.c): one command, the commands of stdin, *)
(* or a poll of the state of the card until, or while, it is in a given    *)
(* state; over the socket of the control daemon or over a device node of   *)
(* the bridge.                                                             *)
(*                                                                         *)
(* The daemon answers a command with its lines and a line EOF, the device  *)
(* with its lines and the end of the file.  A line knows whether it        *)
(* belongs to the command that was sent last.                              *)
(***************************************************************************)
EXTENDS Naturals, Sequences

CONSTANTS States,    \* states that getState can report
          Course,    \* the states the card goes through
          NoState,   \* an option that is not given
          MaxLines,  \* bound on the lines of stdin
          MaxLag,    \* bound on the answers that wait to be read
          Options,   \* the command lines that are looked at
          Environments  \* what may happen in the behaviours that are looked at

Happenings ==
    {"late",      \* an answer takes more than the tenth of a second acqcmd sleeps
     "readfail",  \* a read of the device fails
     "hangup"}    \* the daemon is not there, or goes away

EOF == "EOF"
Null == "end"   \* fgets returns NULL
Texts == States \cup {EOF, "data", "ERROR", "garbage"}

ASSUME CourseAssumption == Course \in Seq(States) /\ Course # <<>>
ASSUME OptionsAssumption ==
    /\ NoState \notin States /\ MaxLines \in Nat /\ MaxLag \in Nat
    /\ Options \subseteq [kind : {"poll", "command", "stdin"}, sock : BOOLEAN, timeout : BOOLEAN,
                          while : States \cup {NoState}, until : States \cup {NoState}]
\* The name of a state is no other text, and an option that is not given is none.
ASSUME TextAssumption ==
    States \cap {EOF, Null, "data", "ERROR", "garbage"} = {} /\ NoState \notin Texts \cup {Null}
ASSUME EnvironmentAssumption == Environments \subseteq SUBSET Happenings

VARIABLES opt,     \* the command line: chosen once
          pc,      \* the place of acqcmd
          reply,   \* the text in reply
          found,   \* what the round has found: a subset of {"while", "until"}
          nout,    \* lines of the answer, 0 or more
          err,     \* a line of the answer began with ERROR_STRING
          rc,      \* the exit code
          lines,   \* lines read from stdin
          part,    \* a continued line is in the buffer of the connection
          inq,     \* commands on their way: TRUE for the last one
          serving, \* the answer that lacks its end: none, or as in inq
          out,     \* lines on their way back
          closed,  \* "no", "refused" at connect, or "gone" later
          card,    \* how far the card is on its Course
          since,   \* states the card was in since the last command was sent
          env      \* what may happen in this behaviour: chosen once

client == <<reply, found, nout, err, rc, lines, part>>
wire == <<inq, serving, out, closed>>
vars == <<opt, pc, client, wire, card, since, env>>

Init ==
    /\ opt \in Options /\ env \in Environments
    /\ pc = "start"
    /\ reply \in Texts   \* not initialised
    /\ found = {} /\ nout = 0 /\ err = FALSE /\ rc = "none" /\ lines = 0 /\ part = FALSE
    /\ inq = <<>> /\ serving = <<>> /\ out = <<>> /\ closed = "no"
    /\ card = 1 /\ since = {}

Goto(l) == pc' = l
Exit(code) == pc' = "done" /\ rc' = code

\* A new command makes what is still on its way an old matter.
Old == [i \in DOMAIN inq |-> FALSE]
OldOut == [i \in DOMAIN out |-> [out[i] EXCEPT !.new = FALSE]]
SendCommand ==
    /\ Len(inq) < MaxLag /\ Len(out) < 2 * MaxLag
    /\ closed # "gone"
    /\ inq' = IF closed = "refused" THEN inq ELSE Append(Old, TRUE)
    /\ out' = OldOut
    /\ serving' = [i \in DOMAIN serving |-> FALSE]
    /\ since' = {Course[card]}
    /\ UNCHANGED <<opt, closed, card, env>>

-----------------------------------------------------------------------------
(***************************************************************************)
(* main and make_connection.                                               *)
(***************************************************************************)
Connect ==
    /\ pc = "start"
    /\ Goto(opt.kind)
    /\ UNCHANGED <<opt, client, wire, card, since, env>>

\* connect fails: acqcmd says so and goes on with the socket it has.
ConnectRefused ==
    /\ pc = "start" /\ opt.sock /\ "hangup" \in env
    /\ closed' = "refused" /\ Goto(opt.kind)
    /\ UNCHANGED <<opt, client, inq, serving, out, card, since, env>>

\* No socket, or no such device.
ConnectFails ==
    /\ pc = "start" /\ Exit("errno")
    /\ UNCHANGED <<opt, reply, found, nout, err, lines, part, wire, card, since, env>>

\* alarm_handler.
Alarm ==
    /\ opt.timeout /\ pc # "done"
    /\ Exit("ETIMEDOUT")
    /\ UNCHANGED <<opt, reply, found, nout, err, lines, part, wire, card, since, env>>

\* Writing to a socket whose other end has gone: SIGPIPE.
Killed ==
    /\ pc \in {"poll", "command", "stdin"} /\ closed = "gone"
    /\ Exit("SIGPIPE")
    /\ UNCHANGED <<opt, reply, found, nout, err, lines, part, wire, card, since, env>>

-----------------------------------------------------------------------------
(***************************************************************************)
(* do_poll.                                                                *)
(***************************************************************************)
PollSend_KeepsFound ==
    /\ pc = "poll" /\ SendCommand /\ Goto("pollread")
    /\ UNCHANGED <<reply, found, nout, err, rc, lines, part>>
PollSend ==
    /\ pc = "poll" /\ SendCommand /\ Goto("pollread")
    /\ found' = {}
    /\ UNCHANGED <<reply, nout, err, rc, lines, part>>

\* What strstr finds in the buffer, after whatever fgets has done to it.
Finds(text) == (IF text = opt.while THEN {"while"} ELSE {})
               \cup (IF text = opt.until THEN {"until"} ELSE {})

\* The end of the inner loop: one line of a device, all lines of a socket.
Enough_OneLine(text) == TRUE
Enough(text) == ~ opt.sock \/ text = EOF

Look(text) ==
    /\ found' = found \cup Finds(text)
    /\ Goto(IF Enough(text) THEN "judge" ELSE "pollread")

PollRead ==
    /\ pc = "pollread" /\ out # <<>> /\ Head(out).text # Null
    /\ reply' = Head(out).text /\ out' = Tail(out)
    /\ Look(reply')
    /\ UNCHANGED <<opt, nout, err, rc, lines, part, inq, serving, closed, card, since, env>>

\* fgets fails: on the non-blocking socket nothing has come yet, or the daemon
\* has gone; on the device, the read failed.  reply keeps its last text.
PollReadNothing ==
    /\ pc = "pollread"
    /\ \/ opt.sock /\ out = <<>> /\ ("late" \in env \/ closed # "no")
       \/ ~ opt.sock /\ "readfail" \in env
    /\ Look(reply)
    /\ UNCHANGED <<opt, reply, nout, err, rc, lines, part, wire, card, since, env>>

\* found_until; or no until and the while state was not found; or once more,
\* with a new connection if it is a device; or neither was found.
Verdict_AnyNotWhile ==
    IF "until" \in found \/ "while" \notin found THEN "success" ELSE "again"
Verdict ==
    CASE "until" \in found -> "success"
      [] opt.until = NoState /\ "while" \notin found -> "success"
      [] "until" \notin found /\ opt.until # NoState
           /\ opt.while # NoState /\ "while" \notin found -> "fail"
      [] OTHER -> "again"

Judge ==
    /\ pc = "judge"
    /\ \/ Verdict = "success" /\ Exit("ok") /\ UNCHANGED wire
       \/ Verdict = "fail" /\ Exit("fail") /\ UNCHANGED wire
       \/ /\ Verdict = "again" /\ Goto(IF opt.sock THEN "poll" ELSE "start")
          /\ UNCHANGED <<rc, closed>>
          /\ IF opt.sock THEN UNCHANGED <<inq, serving, out>>
                         ELSE inq' = <<>> /\ serving' = <<>> /\ out' = <<>>
    /\ UNCHANGED <<opt, reply, found, nout, err, lines, part, card, since, env>>

-----------------------------------------------------------------------------
(***************************************************************************)
(* process_command and process_stdin.                                      *)
(***************************************************************************)
Command ==
    /\ pc = "command" /\ SendCommand /\ Goto("cmdread")
    /\ nout' = 0
    /\ UNCHANGED <<reply, found, err, rc, lines, part>>

\* Comments and blank lines are skipped.
StdinSkip ==
    /\ pc = "stdin" /\ lines < MaxLines
    /\ lines' = lines + 1
    /\ UNCHANGED <<opt, pc, reply, found, nout, err, rc, part, wire, card, since, env>>

\* A line that is continued is written and no answer is looked for: it stays in
\* the buffer of the connection and goes out with the line that ends it.
StdinContinued ==
    /\ pc = "stdin" /\ lines < MaxLines
    /\ lines' = lines + 1 /\ part' = TRUE
    /\ UNCHANGED <<opt, pc, reply, found, nout, err, rc, wire, card, since, env>>

StdinCommand ==
    /\ pc = "stdin" /\ lines < MaxLines /\ SendCommand /\ Goto("cmdread")
    /\ lines' = lines + 1 /\ part' = FALSE /\ nout' = 0
    /\ UNCHANGED <<reply, found, err, rc>>

\* What is left in the buffer goes out with exit, and nobody reads the answer.
StdinEnd ==
    /\ pc = "stdin" /\ Exit("ok")
    /\ inq' = IF part /\ closed = "no" THEN Append(Old, TRUE) ELSE inq
    /\ UNCHANGED <<opt, reply, found, nout, err, lines, part, serving, out, closed, card, since, env>>

CmdRead ==
    /\ pc = "cmdread" /\ out # <<>> /\ Head(out).text \notin {EOF, Null}
    /\ reply' = Head(out).text /\ out' = Tail(out)
    /\ nout' = 1
    /\ err' = (err \/ (opt.kind = "command" /\ reply' = "ERROR"))
    /\ UNCHANGED <<opt, pc, found, rc, lines, part, inq, serving, closed, card, since, env>>

\* The answer is complete, or the daemon has gone.
AfterAnswer ==
    CASE nout = 0 -> Exit("fail")
      [] nout > 0 /\ opt.kind = "command" -> Exit(IF err THEN "error" ELSE "ok")
      [] nout > 0 /\ opt.kind = "stdin" -> Goto("stdin") /\ UNCHANGED rc
CmdEnd ==
    /\ pc = "cmdread"
    /\ \/ /\ out # <<>> /\ Head(out).text \in {EOF, Null}
          /\ out' = Tail(out)
       \/ out = <<>> /\ closed # "no" /\ UNCHANGED out
    /\ AfterAnswer
    /\ UNCHANGED <<opt, reply, found, nout, err, lines, part, inq, serving, closed, card, since, env>>

\* A read of the device fails: fgets returns NULL as at the end of an answer,
\* and what is left of it stays unread.
CmdReadFails ==
    /\ pc = "cmdread" /\ ~ opt.sock /\ "readfail" \in env
    /\ AfterAnswer
    /\ UNCHANGED <<opt, reply, found, nout, err, lines, part, wire, card, since, env>>

-----------------------------------------------------------------------------
(***************************************************************************)
(* The card and its daemon.                                                *)
(***************************************************************************)
Answers == IF opt.kind = "poll" THEN {<<Course[card]>>} ELSE {<<>>, <<"data">>, <<"ERROR">>}

Serve ==
    /\ inq # <<>> /\ serving = <<>>
    /\ \E a \in Answers :
         out' = out \o [i \in DOMAIN a |-> [text |-> a[i], new |-> Head(inq)]]
    /\ serving' = <<Head(inq)>> /\ inq' = Tail(inq)
    /\ UNCHANGED <<opt, pc, client, closed, card, since, env>>

ServeEnd ==
    /\ serving # <<>>
    /\ out' = Append(out, [text |-> IF opt.sock THEN EOF ELSE Null, new |-> serving[1]])
    /\ serving' = <<>>
    /\ UNCHANGED <<opt, pc, client, inq, closed, card, since, env>>

HangUp ==
    /\ "hangup" \in env /\ opt.sock /\ closed = "no" /\ pc \notin {"start", "done"}
    /\ closed' = "gone" /\ inq' = <<>> /\ serving' = <<>>
    /\ UNCHANGED <<opt, pc, client, out, card, since, env>>

CardMove ==
    /\ card < Len(Course) /\ pc # "done"
    /\ card' = card + 1 /\ since' = since \cup {Course[card']}
    /\ UNCHANGED <<opt, pc, client, wire, env>>

-----------------------------------------------------------------------------
Poll == PollSend \/ PollRead \/ PollReadNothing \/ Judge
Commands ==
    \/ Command \/ StdinSkip \/ StdinContinued \/ StdinCommand \/ StdinEnd
    \/ CmdRead \/ CmdEnd \/ CmdReadFails
Daemon == Serve \/ ServeEnd

Next ==
    \/ Connect \/ ConnectRefused \/ ConnectFails \/ Killed \/ Alarm
    \/ Poll \/ Commands \/ Daemon \/ HangUp \/ CardMove

Spec == Init /\ [][Next]_vars

\* acqcmd runs, the daemon answers what it has been asked and an alarm goes
\* off.  Nothing is assumed of the card, nor that a daemon stays.
FairSpec ==
    /\ Spec
    /\ WF_vars(Connect) /\ WF_vars(Poll) /\ WF_vars(Commands) /\ WF_vars(Daemon) /\ WF_vars(Alarm)

-----------------------------------------------------------------------------
\* Some of these may happen in this behaviour.
Troubles(S) == env \cap S # {}

\* When a poll ends, the card has been in the state that the exit code stands
\* for since the last question ("run until state", "run while state",
\* acqcmd.c:108-109): success means the until state, or with while only a state
\* other than the while state; failure means a state that is neither.  Not when
\* an answer is late, a read fails or the daemon goes: then the text of an
\* earlier round, or what was on the stack, is taken for the answer (398-422).
ResultIsSeen ==
    Troubles(Happenings) \/
    (opt.kind = "poll" /\ pc = "done" =>
        /\ rc = "ok" => IF opt.until # NoState THEN opt.until \in since
                                               ELSE since \ {opt.while} # {}
        /\ rc = "fail" => since \ {opt.while, opt.until} # {})

\* What waits to be read belongs to the command that was sent last: nobody
\* takes the rest of one answer for the next one (acqcmd.c:338-345, 422, 492-499).
\* Not when an answer comes after acqcmd has gone on to the next round, nor when
\* a read of the device fails between two commands of stdin: the loop of 492-499
\* ends there as it does at the end of the answer, and the next command is sent.
OutOfStep == "late" \in env \/ ("readfail" \in env /\ opt.kind = "stdin")
InStep ==
    OutOfStep \/
    (pc \in {"pollread", "cmdread"} => \A i \in DOMAIN out : out[i].new)

\* A poll ends when the card stays in the until state, or for good out of the
\* while state; the other uses always end; and with a timeout acqcmd ends
\* whatever happens (acqcmd.c:178-183, 382-447).
Settled == IF opt.until # NoState THEN Course[card] = opt.until
                                  ELSE Course[card] # opt.while
EndsInTime ==
    (\/ opt.timeout
     \/ env = {} /\ (opt.kind # "poll" \/ <>[]Settled)) => <>(pc = "done")
=============================================================================
