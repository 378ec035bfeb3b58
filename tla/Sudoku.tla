------------------------------- MODULE Sudoku -------------------------------
(***************************************************************************)
(* The Sudoku program with its solver: the threads of JobPool, in which a  *)
(* worker solves its puzzle step by step on a Dance of its own.  A line is *)
(* the sequence of its digits; a worker without a Dance has None.          *)
(***************************************************************************)
EXTENDS JobPool, Dance

\* input asserts that every character is a digit of the board.
ASSUME DigitsAssumption == \A line \in Puzzle : \A cell \in Cell : line[cell + 1] \in 0 .. NUM

VARIABLE dance     \* dance[w]: the Dance of worker w

sudokuVars == <<vars, dance>>

SudokuInit == Init /\ dance = [w \in Worker |-> None]

searching(w, pc) == wpc[w] = "solve" /\ dance[w] # None /\ dance[w].pc = pc

\* Run reads the puzzle and solve_sudoku_dancing_links builds the matrix.
Input(w) ==
    /\ wpc[w] = "solve"
    /\ dance[w] = None
    /\ dance' = [dance EXCEPT ![w] = newDance(input(sudoku[job[w]]))]
    /\ UNCHANGED vars

Fill(w) ==
    /\ searching(w, "solve")
    /\ allCovered(dance[w])
    /\ dance' = [dance EXCEPT ![w] = fill(@)]
    /\ UNCHANGED vars

Choose(w) ==
    /\ searching(w, "solve")
    /\ ~allCovered(dance[w])
    /\ dance' = [dance EXCEPT ![w] = choose(@)]
    /\ UNCHANGED vars

Try(w) ==
    /\ searching(w, "row")
    /\ ~atHeader(dance[w])
    /\ dance' = [dance EXCEPT ![w] = try(@)]
    /\ UNCHANGED vars

GiveUp(w) ==
    /\ searching(w, "row")
    /\ atHeader(dance[w])
    /\ dance' = [dance EXCEPT ![w] = giveUp(@)]
    /\ UNCHANGED vars

\* The board is written where there is a solution.
Write(w) ==
    /\ searching(w, "true") \/ searching(w, "false")
    /\ Answer' = IF searching(w, "true")
                 THEN [Answer EXCEPT ![job[w]] = [i \in 1 .. N |-> dance[w].board[i - 1]]]
                 ELSE Answer
    /\ wpc' = [wpc EXCEPT ![w] = "loop"]
    /\ dance' = [dance EXCEPT ![w] = None]
    /\ UNCHANGED <<file, sudoku, total, Sid, shutdown, mpc, job, printed>>

search(w) == Input(w) \/ Fill(w) \/ Choose(w) \/ Try(w) \/ GiveUp(w) \/ Write(w)

pool(w) == Run(w) \/ getJob(w) \/ NoJob(w)

thread(w) == (pool(w) /\ UNCHANGED dance) \/ search(w)

SudokuNext == (main /\ UNCHANGED dance) \/ \E w \in Worker : thread(w)

\* Weak fairness of a thread: it has a step until it has ended, and nobody
\* else changes its place or its Dance.
moved(w) == wpc'[w] # wpc[w] \/ dance'[w] # dance[w]
fair(w) == []<>(wpc[w] = "ended") \/ []<><<moved(w)>>_sudokuVars

SudokuSpec ==
    /\ SudokuInit
    /\ [][SudokuNext]_sudokuVars
    /\ WF_sudokuVars(main /\ UNCHANGED dance)
    /\ \A w \in Worker : fair(w)

-----------------------------------------------------------------------------
\* However often the search has gone down and come back, the links are those
\* of the matrix without what is covered, and when it has failed, those of the
\* whole matrix (sudoku_dancing_links.cpp:170-234).
MatrixMatches ==
    \A w \in Worker : dance[w] # None /\ dance[w].pc # "true" => matches(dance[w])

\* A board that the solver calls solved passes the test of Run, whatever the
\* puzzle, even one whose givens contradict each other; no given is changed,
\* and no cell has the digit of a neighbor (main.cpp:53-56).
SolutionRight ==
    \A w \in Worker : searching(w, "true") =>
        LET puzzle == input(sudoku[job[w]])
            board  == dance[w].board
        IN  /\ solved(board)
            /\ \A me \in Cell : /\ puzzle[me] \in {0, board[me]}
                                /\ \A cell \in neighbors[me] : board[cell] # board[me]

\* The program is the job pool: a worker's search ends, and its answer is the
\* solution of the puzzle whenever there is one.
ImplementsPool == Spec
=============================================================================
