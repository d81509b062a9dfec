------------------------------ MODULE HtStream -------------------------------
(***************************************************************************)
(* htstream with its files: the swinging buffers of BufferAB, where doWork *)
(* is fileWork of HtFiles.  A block may have any of Lengths; the reply     *)
(* that ends the data has length zero, and doWork is called for it too.    *)
(***************************************************************************)
EXTENDS BufferAB

CONSTANTS NFILES, MAXFILE, Lengths

ASSUME LimitsAssumption == NFILES \in Nat \ {0} /\ MAXFILE \in Nat
ASSUME LengthsAssumption == Lengths \subseteq Nat \ {0}

VARIABLES fd, pos, ifile, oneshot, files

F == INSTANCE HtFiles

filevars == <<fd, pos, ifile, oneshot, files>>
allvars == <<vars, filevars>>

StreamInit == Init /\ F!Init

AtEof == full[next] = EOF

\* doWork of the next buffer is fileWork.
FileWork(from, to) ==
    /\ Work(from, to)
    /\ IF AtEof THEN F!FileWork(<<>>, 0)
       ELSE \E len \in Lengths : F!FileWork(<<mem[next]>>, len)

\* The program ends in fileOpen.
FileExit ==
    /\ cpc \in {"work", "work2"}
    /\ full[next] # NoBlock
    /\ IF AtEof THEN F!Exit(0) ELSE \E len \in Lengths : F!Exit(len)
    /\ cpc' = "end"
    /\ UNCHANGED <<rchAB, abNext, lastId, reqs, block, mem, full, recycle, next, timeouts,
                   started, out, env>>

Htstream ==
    \/ (Ioctl \/ IoctlDone \/ WorkNone) /\ UNCHANGED filevars
    \/ FileWork("work", "work2") \/ FileWork("work2", AfterWork)
    \/ FileExit

StreamNext ==
    \/ Htstream
    \/ (IoctlTimeout \/ IoctlError \/ CardFill) /\ UNCHANGED filevars

StreamSpec == StreamInit /\ [][StreamNext]_allvars

\* The client and the driver run; the card delivers the blocks it has.
StreamFairSpec ==
    /\ StreamSpec
    /\ WF_allvars(Htstream)
    /\ SF_allvars(IoctlDone /\ UNCHANGED filevars)
    /\ WF_allvars(CardFill /\ UNCHANGED filevars)

-----------------------------------------------------------------------------
\* The files from the oldest to the open one: after fileOpen ifile is the
\* number of the file that will be opened, and truncated, next.
RECURSIVE FilesFrom(_, _)
FilesFrom(n, k) ==
    IF k = 0 THEN <<>> ELSE files[n] \o FilesFrom(IF n = NFILES THEN 0 ELSE n + 1, k - 1)
Kept == FilesFrom(IF ifile > NFILES THEN 0 ELSE ifile, NFILES + 1)

\* What is in the files, read from the oldest to the newest, is the end of what
\* htstream worked on, in the same order and without a gap, however the blocks
\* fall on the files; with ACQ200_ONESHOT it is all of it ("number of files to
\* write before repeating", "stop after NFILES", htstream.c:51-53).
NewestKept ==
    /\ Len(Kept) <= Len(out)
    /\ Kept = SubSeq(out, Len(out) - Len(Kept) + 1, Len(out))
    /\ oneshot => Kept = out
=============================================================================
