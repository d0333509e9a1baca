------------------------------- MODULE LogView -------------------------------
(* A command that follows a project's log (cli/logs.rs, follow_loop of       *)
(* cli/live.rs) while the project starts, writes, dies and starts again:     *)
(*   up       neals up, the merged log from where it ended before            *)
(*   logs     neals logs -f, the merged log                                  *)
(*   process  neals logs -f PROCESS, the log of one process                  *)
(* A byte is its number in the order of writing, negative for a newline.     *)
EXTENDS Integers, Sequences, SequencesExt

CONSTANTS Kinds,      \* the commands looked at
          LogMax,     \* length from which open_log renames the file
          TailLines,  \* lines shown before following
          Block,      \* TAIL_BLOCK
          MaxBytes,   \* bound on what is written
          MaxUps      \* bound on the ups of the project

ASSUME LogAssumption ==
    /\ Kinds \subseteq {"up", "logs", "process"}
    /\ {LogMax, TailLines, MaxBytes, MaxUps} \subseteq Nat
    /\ Block \in Nat \ {0}

VARIABLES kind,       \* the command
          data,       \* inode -> its bytes
          path,       \* the inode the log's path names, 0 if none
          gen, ups,   \* the namespace that lives (0 if none); how many there were
          listed,     \* the project is in the daemon's map
          out,        \* the inode the project writes to, 0 if none
          count,      \* bytes written
          pc,         \* how far the command is
          from,       \* the length neals up took before it asked for the up
          seen,       \* netns_pid
          fd, offset, pending,   \* LogFollower
          len,        \* the length poll_lines got from metadata, -1 before its first call
          shown,      \* bytes of the lines printed
          begin,      \* history: first byte of the up the view asked for
          cut,        \* history: the log was truncated or renamed since the view took
                      \* its length or opened it, and poll_lines has not noticed
          lost        \* history: bytes have gone by unseen (see the actions)

project == <<gen, ups, listed, out, count, data, path>>
follower == <<fd, offset, pending, len, shown>>
vars == <<kind, project, pc, from, seen, follower, begin, cut, lost>>

Inode == 1..(MaxUps + 1)
Opening == {"start", "asked", "starting", "find", "wait", "tailed"}
Attached == {"top", "stat"}
Ended == {"detached", "stopped", "exited", "failed"}

IsNewline(b) == b < 0
Id(b) == IF b < 0 THEN -b ELSE b

Init ==
    /\ kind \in Kinds
    /\ \E k \in 0..(LogMax + 1), nl \in BOOLEAN :
          /\ count = k
          /\ data = [i \in Inode |-> IF i # 1 THEN <<>>
                        ELSE [j \in 1..k |-> IF j = k /\ nl THEN -j ELSE j]]
          /\ path = IF k = 0 THEN 0 ELSE 1
    /\ gen = 0 /\ ups = 0 /\ listed = FALSE /\ out = 0
    /\ pc = IF kind = "up" THEN "start" ELSE "find"
    /\ from = 0 /\ seen = 0
    /\ fd = 0 /\ offset = 0 /\ pending = <<>> /\ len = -1 /\ shown = <<>>
    /\ begin = 0 /\ cut = FALSE /\ lost = FALSE

-----------------------------------------------------------------------------
(* tail_lines: backwards in blocks, until there are enough newlines. *)

Newlines(s) == {i \in DOMAIN s : IsNewline(s[i])}
Larger(S, i) == Cardinality({j \in S : j > i})

BlockStart(pos) == IF pos > Block THEN pos - Block ELSE 0

\* The newlines with `threshold` of them behind.
Cuts(s, threshold) == {i \in Newlines(s) : Larger(Newlines(s), i) = threshold}

\* What is left out, when the blocks read so far reach back to `pos`.
TailLoop(s, threshold) ==
    LET skip[pos \in 0..Len(s)] ==
            IF pos = 0 THEN 0
            ELSE IF \E i \in Cuts(s, threshold) : i > BlockStart(pos)
            THEN CHOOSE i \in Cuts(s, threshold) : i > BlockStart(pos)
            ELSE skip[BlockStart(pos)]
    IN  skip

TailFrom(s, threshold) == TailLoop(s, threshold)[Len(s)]

\* Variant: the last line is taken for complete.
tail_lines_complete(s, n) ==
    IF n = 0 \/ s = <<>> THEN <<>> ELSE SubSeq(s, TailFrom(s, n) + 1, Len(s))

tail_lines(s, n) ==
    IF n = 0 \/ s = <<>> THEN <<>>
    ELSE LET threshold == IF IsNewline(Last(s)) THEN n ELSE n - 1
         IN  SubSeq(s, TailFrom(s, threshold) + 1, Len(s))

-----------------------------------------------------------------------------
(* The project: up_project and open_log, devenv, the end of the namespace. *)

\* The view has taken something from the log already.
Relies == fd # 0 \/ pc = "tailed" \/ (kind = "up" /\ pc # "start")

\* open_log: a long log is renamed, the project appends to what the path names.
\* The inode of a file that is created is a new one.
OpensLog ==
    IF path = 0 \/ Len(data[path]) > LogMax
    THEN /\ path' = ups + 2 /\ out' = ups + 2
         /\ cut' = (cut \/ (path # 0 /\ Relies))
    ELSE out' = path /\ UNCHANGED <<path, cut>>

Starts ==
    /\ gen = 0 /\ ~listed /\ ups < MaxUps
    /\ ups' = ups + 1 /\ gen' = ups + 1
    /\ IF kind = "process" THEN out' = 0 /\ UNCHANGED <<path, cut>> ELSE OpensLog
    /\ UNCHANGED <<listed, count, data, kind, from, seen, follower, lost>>

\* neals up asks for it, or another command does.
StartElsewhere == Starts /\ UNCHANGED <<pc, begin>>

Listed ==
    /\ gen # 0 /\ ~listed
    /\ listed' = TRUE
    /\ pc' = IF pc = "starting" THEN "find" ELSE pc
    /\ UNCHANGED <<kind, gen, ups, out, count, data, path, from, seen, follower, begin, cut, lost>>

\* devenv starts the process anew with an empty log.
ProcessStarts ==
    /\ kind = "process" /\ gen # 0 /\ out = 0
    /\ path' = 1 /\ out' = 1
    /\ data' = [data EXCEPT ![1] = <<>>]
    /\ cut' = (cut \/ Relies)
    /\ UNCHANGED <<kind, gen, ups, listed, count, pc, from, seen, follower, begin, lost>>

Writes(newline) ==
    /\ out # 0 /\ count < MaxBytes
    /\ count' = count + 1
    /\ data' = [data EXCEPT ![out] = Append(@, IF newline THEN -count' ELSE count')]
    /\ lost' = (lost \/ pc = "tailed")   \* between tail_lines and open_at_end
    /\ UNCHANGED <<kind, gen, ups, listed, out, path, pc, from, seen, follower, begin, cut>>

\* By itself, or by down.
Dies ==
    /\ gen # 0
    /\ gen' = 0 /\ out' = 0
    /\ pc' = IF pc = "starting" THEN "failed" ELSE pc   \* the up it asked for fails
    /\ UNCHANGED <<kind, ups, listed, count, data, path, from, seen, follower, begin, cut, lost>>

Removed ==
    /\ listed /\ gen = 0
    /\ listed' = FALSE
    /\ UNCHANGED <<kind, gen, ups, out, count, data, path, pc, from, seen, follower, begin, cut, lost>>

-----------------------------------------------------------------------------
(* Before following *)

TakeLen ==
    /\ pc = "start"
    /\ pc' = "asked" /\ from' = IF path = 0 THEN 0 ELSE Len(data[path])
    /\ UNCHANGED <<kind, project, seen, follower, begin, cut, lost>>

AskUp ==
    /\ pc = "asked"
    /\ Starts
    /\ pc' = "starting" /\ begin' = count + 1

UpRefused ==
    /\ pc = "asked" /\ (gen # 0 \/ listed)
    /\ pc' = "failed"
    /\ UNCHANGED <<kind, project, from, seen, follower, begin, cut, lost>>

\* Variant: from where the log ends by now.
OpenFromEnd ==
    /\ pc = "find" /\ kind = "up" /\ path # 0
    /\ pc' = "top"
    /\ fd' = path /\ offset' = Len(data[path]) /\ from' = 0
    /\ UNCHANGED <<kind, project, seen, pending, len, shown, begin, cut, lost>>

\* open_from_offset, not beyond the present end of the file. The first poll_lines
\* follows at once, project_gone after it.
OpenFromOffset ==
    /\ pc = "find" /\ kind = "up" /\ path # 0
    /\ pc' = "top"
    /\ fd' = path /\ offset' = IF from < Len(data[path]) THEN from ELSE Len(data[path])
    /\ from' = 0
    /\ UNCHANGED <<kind, project, seen, pending, len, shown, begin, cut, lost>>

\* open_with_tail, print_process_logs: the last lines, then the end of the file.
ShowTail ==
    /\ pc = "find" /\ kind # "up" /\ path # 0
    /\ pc' = "tailed"
    /\ shown' = tail_lines(data[path], TailLines)
    /\ UNCHANGED <<kind, project, from, seen, fd, offset, pending, len, begin, cut, lost>>

\* open_at_end and the first project_gone.
OpenAtEnd ==
    /\ pc = "tailed"
    /\ pc' = "top"
    /\ fd' = path /\ offset' = Len(data[path])
    /\ seen' = IF listed THEN gen ELSE 0
    /\ UNCHANGED <<kind, project, from, pending, len, shown, begin, cut, lost>>

\* wait_for_log_file gives up; wait_for_process_logs waits (first project_gone).
NoFile ==
    /\ pc = "find" /\ path = 0
    /\ IF kind = "process" THEN pc' = "wait" /\ seen' = (IF listed THEN gen ELSE 0)
       ELSE pc' = "failed" /\ UNCHANGED seen
    /\ UNCHANGED <<kind, project, from, follower, begin, cut, lost>>

FileAppears ==
    /\ pc = "wait" /\ path # 0 /\ (seen = 0 \/ seen = gen)
    /\ pc' = "find"
    /\ UNCHANGED <<kind, project, from, seen, follower, begin, cut, lost>>

\* wait_for_process_logs ends when there are logs, of this up or of an earlier one,
\* and none is that of its process yet.
OnlyOtherLogs ==
    /\ pc = "wait" /\ path = 0 /\ ups > 0
    /\ pc' = "failed"
    /\ UNCHANGED <<kind, project, from, seen, follower, begin, cut, lost>>

-----------------------------------------------------------------------------
(* Following *)

\* Variant: only who waits for the log looks.
SeesDeadWaiting ==
    /\ pc = "wait" /\ seen # 0 /\ seen # gen
    /\ pc' = "exited"
    /\ UNCHANGED <<kind, project, from, seen, follower, begin, cut, lost>>

\* The namespace the view knows is gone.
SeesDead ==
    /\ pc \in {"top", "wait"} /\ seen # 0 /\ seen # gen
    /\ pc' = "exited"
    /\ UNCHANGED <<kind, project, from, seen, follower, begin, cut, lost>>

\* project_gone, every second: what the daemon says.
Discover ==
    /\ pc = "wait" \/ (pc = "top" /\ len # -1)
    /\ seen = 0 \/ seen = gen
    /\ IF listed THEN UNCHANGED pc /\ (IF gen # 0 THEN seen' = gen ELSE UNCHANGED seen)
       ELSE pc' = "exited" /\ UNCHANGED seen
    /\ UNCHANGED <<kind, project, from, follower, begin, cut, lost>>

\* Control-Q or B; Control-C or X asks for a down first.
Keys ==
    /\ pc = "top" /\ kind # "process"
    /\ pc' \in {"detached", "stopped"}
    /\ UNCHANGED <<kind, project, from, seen, follower, begin, cut, lost>>

\* poll_lines: metadata of the path; a shorter file is opened anew.
PollStat ==
    LET now == Len(data[path])
        again == now < offset
    IN  /\ pc = "top" /\ (seen = 0 \/ seen = gen)
        /\ pc' = "stat" /\ len' = now
        /\ IF again THEN fd' = path /\ offset' = 0 /\ pending' = <<>>
           ELSE UNCHANGED <<fd, offset, pending>>
        /\ cut' = (cut /\ ~again)
        /\ lost' = (lost \/ again \/ cut)
        /\ UNCHANGED <<kind, project, from, seen, shown, begin>>

\* Variant: one line at a time.
CompleteFirst(s) ==
    IF Newlines(s) = {} THEN 0 ELSE CHOOSE i \in Newlines(s) : \A j \in Newlines(s) : i <= j

\* What is complete of a text, and the rest.
Complete(s) ==
    IF Newlines(s) = {} THEN 0 ELSE CHOOSE i \in Newlines(s) : Larger(Newlines(s), i) = 0

\* Variant: what lacks its newline is forgotten.
PollReadForgets ==
    LET text == pending \o SubSeq(data[fd], offset + 1, len)
        n == Complete(text)
    IN  /\ pc = "stat"
        /\ Len(data[fd]) >= len \/ len <= offset
        /\ pc' = "top" /\ len' = 0
        /\ IF len > offset
           THEN offset' = len /\ shown' = shown \o SubSeq(text, 1, n) /\ pending' = <<>>
           ELSE UNCHANGED <<offset, shown, pending>>
        /\ UNCHANGED <<kind, project, from, seen, fd, begin, cut, lost>>

\* poll_lines: read_exact up to that length, from the file that is open.
PollRead ==
    LET text == pending \o SubSeq(data[fd], offset + 1, len)
        n == Complete(text)
    IN  /\ pc = "stat"
        /\ Len(data[fd]) >= len \/ len <= offset
        /\ pc' = "top" /\ len' = 0
        /\ IF len > offset
           THEN /\ offset' = len
                /\ shown' = shown \o SubSeq(text, 1, n)
                /\ pending' = SubSeq(text, n + 1, Len(text))
           ELSE UNCHANGED <<offset, shown, pending>>
        /\ UNCHANGED <<kind, project, from, seen, fd, begin, cut, lost>>

ReadFails ==
    /\ pc = "stat" /\ Len(data[fd]) < len /\ len > offset
    /\ pc' = "failed"
    /\ UNCHANGED <<kind, project, from, seen, follower, begin, cut, lost>>

-----------------------------------------------------------------------------
View ==
    \/ TakeLen \/ AskUp \/ UpRefused
    \/ OpenFromOffset \/ ShowTail \/ OpenAtEnd \/ NoFile \/ FileAppears
    \/ SeesDead \/ PollStat \/ PollRead \/ ReadFails

Project ==
    \/ StartElsewhere \/ Listed \/ ProcessStarts \/ Dies \/ Removed
    \/ \E newline \in BOOLEAN : Writes(newline)

\* What the project does when the view has ended is not looked at.
Next ==
    \/ pc \notin Ended /\ Project
    \/ View \/ OnlyOtherLogs \/ Discover \/ Keys

\* The view runs, the daemon ends what it has begun.
Spec ==
    /\ Init /\ [][Next]_vars
    /\ WF_vars(View) /\ SF_vars(Discover)
    /\ WF_vars(pc \notin Ended /\ Listed) /\ WF_vars(pc \notin Ended /\ Removed)
-----------------------------------------------------------------------------
(* Properties *)

LineCount(s) ==
    Cardinality(Newlines(s)) + (IF s = <<>> \/ IsNewline(Last(s)) THEN 0 ELSE 1)

Suffix(s, i) == SubSeq(s, i + 1, Len(s))

\* The tail of a log is its last n lines, all of it if it has no more, however
\* the lines lie in the blocks (tail_lines).
TailIsLastLines ==
    \A i \in Inode : \A n \in 0..2 :
        LET s == data[i]
            starts == {j \in 0..Len(s) : (j = 0 \/ IsNewline(s[j])) /\ LineCount(Suffix(s, j)) <= n}
            best == {j \in starts : \A k \in starts : j <= k}
        IN  IF n = 0 THEN tail_lines(s, n) = <<>>
            ELSE \A j \in best : tail_lines(s, n) = Suffix(s, j)

Unread == Suffix(data[fd], offset)

\* What was shown, what waits for its newline and what is still to be read are
\* the end of the log, without a gap and without a repetition, unless the log was
\* replaced or was written to between its tail and its opening (LogFollower).
NothingSkipped ==
    LET text == shown \o pending \o Unread IN
    pc \in Attached /\ ~cut /\ ~lost =>
        \E j \in 0..Len(data[fd]) : text = Suffix(data[fd], j)

\* neals up shows the log from the first byte of the up it asked for, although it
\* took the length before it asked, unless the log was replaced (cmd_up,
\* open_from_offset).
UpShowsItsLines ==
    pc \in Attached /\ kind = "up" /\ ~cut /\ ~lost =>
        {b \in ToSet(data[fd]) : Id(b) >= begin} \subseteq ToSet(shown \o pending \o Unread)

\* The last line the project writes gets shown (with NothingSkipped, those before
\* it too), unless the view ends or the log is replaced (follow_loop, poll_lines).
LinesAppear ==
    (pc \in Attached /\ -MaxBytes \in ToSet(Unread))
        ~> (-MaxBytes \in ToSet(shown) \/ pc \in Ended \/ cut \/ lost)

\* A view does not outlive its project: once it has ended, the view ends, unless
\* the project is started again (project_gone).
LeavesWithProject ==
    (pc \in Attached \union {"wait"} /\ gen = 0) ~> (pc \in Ended \/ gen # 0)
=============================================================================
