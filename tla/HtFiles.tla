------------------------------- MODULE HtFiles -------------------------------
(***************************************************************************)
(* The files that htstream writes: fileOpen and fileWork (htstream.c).     *)
(* A file is the sequence of the blocks in it; opening a file again        *)
(* truncates it.  HtStream calls these actions with the blocks it works on.*)
(***************************************************************************)
EXTENDS Naturals, Sequences

CONSTANTS NFILES,    \* ACQ200_NFILES
          MAXFILE    \* ACQ200_MAXFILE

VARIABLES fd,       \* the number of the open file, or None
          pos,      \* the file position, lseek(fd, 0, SEEK_CUR)
          ifile,    \* G_file.ifile
          oneshot,  \* G_file.oneshot, ACQ200_ONESHOT
          files     \* file number -> the blocks in it

Numbers == 0 .. NFILES
None == NFILES + 1

Init ==
    /\ fd = None /\ pos = 0 /\ ifile = 0
    /\ oneshot \in BOOLEAN
    /\ files = [n \in Numbers |-> <<>>]

\* fileOpen finds room in the open file.
Fits(len) == fd # None /\ pos + len < MAXFILE

\* fileWork with blocks, a sequence of one block, or of none at the end of the
\* data, of length len.
WriteOn(blocks, len) ==
    /\ Fits(len)
    /\ pos' = pos + len
    /\ files' = [files EXCEPT ![fd] = @ \o blocks]
    /\ UNCHANGED <<fd, ifile, oneshot>>

\* The number of the file after this one: ++ifile > nfiles starts again.
NextFile_FromOne == IF ifile + 1 > NFILES THEN 1 ELSE ifile + 1
NextFile == IF ifile + 1 > NFILES THEN 0 ELSE ifile + 1

LastFile == oneshot /\ ifile + 1 > NFILES

\* fileOpen closes the file and opens the next one, and fileWork writes.
NewFile(blocks, len) ==
    /\ ~ Fits(len) /\ ~ LastFile
    /\ fd' = ifile /\ ifile' = NextFile
    /\ pos' = len
    /\ files' = [files EXCEPT ![ifile] = blocks]
    /\ UNCHANGED oneshot

FileWork(blocks, len) == WriteOn(blocks, len) \/ NewFile(blocks, len)

\* With ACQ200_ONESHOT, exit(0) after the open and before the write.
Exit(len) ==
    /\ ~ Fits(len) /\ LastFile
    /\ fd' = ifile /\ pos' = 0
    /\ ifile' = ifile + 1
    /\ files' = [files EXCEPT ![ifile] = <<>>]
    /\ UNCHANGED oneshot
=============================================================================
