------------------------------ MODULE MCSudoku ------------------------------
(***************************************************************************)
(* Sudoku on boards of four rows.  What is the solution of a puzzle is     *)
(* found in the plainest way: the blanks are filled one after the other    *)
(* with every digit that no neighbor has.                                  *)
(***************************************************************************)
EXTENDS Sudoku

completions(board) ==
    LET digits(b, cell) == IF board[cell] # 0 THEN {board[cell]}
                           ELSE (1 .. NUM) \ {b[other] : other \in neighbors[cell]}
        filled[k \in 0 .. N] ==
            IF k = 0 THEN {board}
            ELSE UNION {{[b EXCEPT ![k - 1] = val] : val \in digits(b, k - 1)} :
                            b \in filled[k - 1]}
    IN  {b \in filled[N] : solved(b)}

\* Solved after wrong guesses.
guessed == <<0,4,0,1, 1,0,0,0, 4,0,0,2, 0,0,0,0>>
guessedSolved == <<3,4,2,1,1,2,3,4,4,3,1,2,2,1,4,3>>
\* A row has a digit twice, which the solver sees two guesses later.
clash == <<1,2,3,4, 3,4,1,2, 0,1,4,3, 4,0,1,0>>
short == <<1,2>>

MCLine == {guessed, clash, short}
MCPuzzle == {guessed, clash}
MCSolved == {guessedSolved}
MCSolution(line) == IF line = guessed THEN guessedSolved ELSE None

\* What the solver finds is a solution, and it finds one if there is any.
ASSUME SolutionAmongCompletions ==
    \A line \in MCPuzzle :
        IF MCSolution(line) = None THEN completions(input(line)) = {}
        ELSE input(MCSolution(line)) \in completions(input(line))
=============================================================================
