------------------------------- MODULE JobPool -------------------------------
(***************************************************************************)
(* The Sudoku program of Lab 1: main reads the puzzles of a file, one in a *)
(* line, while worker threads solve those it has read, and prints all      *)
(* answers when the workers have ended.                                    *)
(***************************************************************************)
EXTENDS Integers, Sequences

CONSTANTS
    Worker,     \* the threads, RunTask of them
    Line,       \* lines of a file
    Puzzle,     \* the lines long enough for a puzzle
    Solved,     \* solved boards
    solution(_),\* what the solver finds for a line, None if there is nothing
    MaxLines,   \* bound: lines in a file
    None        \* no puzzle read, no answer written

ASSUME PuzzleAssumption == Puzzle \subseteq Line
ASSUME SolutionAssumption == \A line \in Line : solution(line) \in Solved \cup {None}
ASSUME MaxLinesAssumption == MaxLines \in Nat
ASSUME NoneAssumption == None \notin Line /\ None \notin Solved

VARIABLES
    file,      \* the lines main has not read yet
    sudoku,    \* the puzzles read
    Answer,    \* the answers, None where nothing was written
    total,     \* puzzles read
    Sid,       \* puzzles handed out
    shutdown,  \* set with the last puzzle that there was
    mpc,       \* where main is
    wpc,       \* wpc[w]: where worker w is
    job,       \* job[w]: the puzzle it solves
    printed    \* the answers printed

vars == <<file, sudoku, Answer, total, Sid, shutdown, mpc, wpc, job, printed>>

Job == 0 .. MaxLines - 1

Init ==
    /\ file \in UNION {[1 .. n -> Line] : n \in 0 .. MaxLines}
    /\ sudoku = [i \in Job |-> None]
    /\ Answer = [i \in Job |-> None]
    /\ total = 0
    /\ Sid = 0
    /\ shutdown = FALSE
    /\ mpc = "read"
    /\ wpc = [w \in Worker |-> "loop"]
    /\ job = [w \in Worker |-> 0]
    /\ printed = <<>>

(***************************************************************************)
(* main                                                                    *)
(***************************************************************************)
\* The next line goes where the next puzzle belongs, without the mutex ...
ReadLine ==
    /\ mpc = "read"
    /\ file # <<>>
    /\ sudoku' = [sudoku EXCEPT ![total] = Head(file)]
    /\ file' = Tail(file)
    /\ mpc' = IF Head(file) \in Puzzle THEN "count" ELSE "read"
    /\ UNCHANGED <<Answer, total, Sid, shutdown, wpc, job, printed>>

\* ... and is counted when it is long enough.
CountPuzzle ==
    /\ mpc = "count"
    /\ total' = total + 1
    /\ mpc' = "read"
    /\ UNCHANGED <<file, sudoku, Answer, Sid, shutdown, wpc, job, printed>>

EndOfFile ==
    /\ mpc = "read"
    /\ file = <<>>
    /\ mpc' = "join"
    /\ UNCHANGED <<file, sudoku, Answer, total, Sid, shutdown, wpc, job, printed>>

\* Mutant: the answers are printed when all puzzles are handed out.
joinedWhenHandedOut == Sid = total
joined == \A w \in Worker : wpc[w] = "ended"

\* End waits for every thread, result prints.
Result ==
    /\ mpc = "join"
    /\ joined
    /\ printed' = [i \in 1 .. total |-> Answer[i - 1]]
    /\ mpc' = "ended"
    /\ UNCHANGED <<file, sudoku, Answer, total, Sid, shutdown, wpc, job>>

(***************************************************************************)
(* A worker                                                                *)
(***************************************************************************)
\* The loop's condition, read without the mutex.
Run(w) ==
    /\ wpc[w] = "loop"
    /\ wpc' = [wpc EXCEPT ![w] = IF shutdown THEN "ended" ELSE "getJob"]
    /\ UNCHANGED <<file, sudoku, Answer, total, Sid, shutdown, mpc, job, printed>>

\* Mutant: off by one.
allTaken == Sid > total
noneLeft == Sid >= total

\* Mutant: the last puzzle is handed out again.
sidStays == IF Sid = total - 1 THEN Sid ELSE Sid + 1
nextSid == Sid + 1

\* getJob, under the mutex.  The last puzzle there is sets shutdown, although
\* main may still be reading; without a puzzle the worker ends.
getJob(w) ==
    /\ wpc[w] = "getJob"
    /\ ~noneLeft
    /\ job' = [job EXCEPT ![w] = Sid]
    /\ Sid' = nextSid
    /\ shutdown' = (shutdown \/ Sid = total - 1)
    /\ wpc' = [wpc EXCEPT ![w] = "solve"]
    /\ UNCHANGED <<file, sudoku, Answer, total, mpc, printed>>

\* Mutant: a worker without a job tries again.
NoJobYet(w) ==
    /\ wpc[w] = "getJob"
    /\ noneLeft
    /\ wpc' = [wpc EXCEPT ![w] = "loop"]
    /\ UNCHANGED <<file, sudoku, Answer, total, Sid, shutdown, mpc, job, printed>>

NoJob(w) ==
    /\ wpc[w] = "getJob"
    /\ noneLeft
    /\ wpc' = [wpc EXCEPT ![w] = "ended"]
    /\ UNCHANGED <<file, sudoku, Answer, total, Sid, shutdown, mpc, job, printed>>

\* The worker reads its puzzle, solves it on a board of its own and writes its
\* answer, all of which nobody else touches (see JobsSeparate).  Without a
\* solution the answer stays empty.
Solve(w) ==
    /\ wpc[w] = "solve"
    /\ Answer' = [Answer EXCEPT ![job[w]] =
                    IF solution(sudoku[job[w]]) # None THEN solution(sudoku[job[w]]) ELSE @]
    /\ wpc' = [wpc EXCEPT ![w] = "loop"]
    /\ UNCHANGED <<file, sudoku, total, Sid, shutdown, mpc, job, printed>>

main == ReadLine \/ CountPuzzle \/ EndOfFile \/ Result
worker(w) == Run(w) \/ getJob(w) \/ NoJob(w) \/ Solve(w)

Next == main \/ \E w \in Worker : worker(w)

Spec == Init /\ [][Next]_vars /\ WF_vars(main) /\ \A w \in Worker : WF_vars(worker(w))

-----------------------------------------------------------------------------
\* Every variable has its type, and no puzzle is handed out before it is
\* counted.
TypeOK ==
    /\ file \in Seq(Line) /\ Len(file) + total <= MaxLines
    /\ sudoku \in [Job -> Line \cup {None}]
    /\ Answer \in [Job -> Solved \cup {None}]
    /\ total \in Nat /\ Sid \in 0 .. total
    /\ shutdown \in BOOLEAN
    /\ mpc \in {"read", "count", "join", "ended"}
    /\ wpc \in [Worker -> {"loop", "getJob", "solve", "ended"}]
    /\ job \in [Worker -> Nat]
    /\ printed \in Seq(Solved \cup {None})

\* The rows that the workers read and write without the mutex are apart from
\* each other and from the row main reads the next line into
\* (main.cpp:52-59, 104).
JobsSeparate ==
    \A w \in Worker : wpc[w] = "solve" =>
        /\ job[w] < total
        /\ \A v \in Worker : wpc[v] = "solve" /\ job[v] = job[w] => v = w

\* What is printed is the solution of every puzzle that was handed out, in the
\* order of the file, and nothing for those that were not.
PrintedPrefix ==
    mpc = "ended" =>
        \A i \in 0 .. total - 1 :
            printed[i + 1] = IF i < Sid THEN solution(sudoku[i]) ELSE None

\* Whatever the file and the order, the program ends.
Ends == <>(mpc = "ended")

\* All problems are solved in the end (Lab1 report, line 25).
AllSolved ==
    mpc = "ended" => \A i \in 0 .. total - 1 : printed[i + 1] = solution(sudoku[i])
=============================================================================
