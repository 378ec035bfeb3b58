-------------------------------- MODULE Dance --------------------------------
(***************************************************************************)
(* The Sudoku solver of Lab 1: exact cover by dancing links.               *)
(*                                                                         *)
(* A board is a function from cells to digits, 0 for a blank.  The struct  *)
(* Dance is a record: the links of its nodes, the size of each column, and *)
(* where the recursion of solve stands.  Nodes are numbered in the order   *)
(* in which the constructor makes them: 0 is the root, then come the       *)
(* columns (their headers), then four nodes for every digit that a blank   *)
(* may have.                                                               *)
(***************************************************************************)
EXTENDS Integers, SequencesExt

CONSTANT Base      \* side of a box: 3 in the source

\* The names of columns are made of decimal digits.
ASSUME BaseAssumption == Base \in {2, 3}

NUM == Base * Base
N == NUM * NUM
Cell == 0 .. N - 1

rowOf(cell) == cell \div NUM
colOf(cell) == cell % NUM

input(line) == [cell \in Cell |-> line[cell + 1]]

(***************************************************************************)
(* neighbor.cpp: which cells exclude each other, and the test of a board.  *)
(***************************************************************************)
sameBox(a, b) == /\ rowOf(a) \div Base = rowOf(b) \div Base
                 /\ colOf(a) \div Base = colOf(b) \div Base

neighbors ==
    [me \in Cell |-> {cell \in Cell \ {me} : \/ rowOf(cell) = rowOf(me)
                                              \/ colOf(cell) = colOf(me)
                                              \/ sameBox(cell, me)}]

\* collect_neighbors asserts that there are NEIGHBOR of them, which is 20.
ASSUME NeighborAssumption ==
    \A me \in Cell : Cardinality(neighbors[me]) = 3 * NUM - 2 * Base - 1

occursOnce(board, cells) ==
    \A val \in 1 .. NUM : Cardinality({cell \in cells : board[cell] = val}) = 1

solved(board) ==
    \A me \in Cell :
        /\ occursOnce(board, {cell \in Cell : rowOf(cell) = rowOf(me)})
        /\ occursOnce(board, {cell \in Cell : colOf(cell) = colOf(me)})
        /\ occursOnce(board, {cell \in Cell : sameBox(cell, me)})

(***************************************************************************)
(* The columns by their names.  One below 100 is a cell that needs a       *)
(* digit; the others are a row, a column or a box that needs a digit.      *)
(***************************************************************************)
get_row_col(row, val) == 100 + row * 10 + val
get_col_col(col, val) == 200 + col * 10 + val
get_box_col(box, val) == 300 + box * 10 + val

boxOf(cell) == (rowOf(cell) \div Base) * Base + (colOf(cell) \div Base)

unitsOf(cell, val) == <<get_row_col(rowOf(cell), val),
                        get_col_col(colOf(cell), val),
                        get_box_col(boxOf(cell), val)>>

given(board) == UNION {ToSet(unitsOf(cell, board[cell])) : cell \in Cell}

\* The elements of seq that are in T.
those(seq, T) == FoldLeft(LAMBDA kept, x : IF x \in T THEN Append(kept, x) ELSE kept, <<>>, seq)

\* Tuples of w elements one after the other.
flat(tuples, w) == [k \in 1 .. Len(tuples) * w |-> tuples[((k - 1) \div w) + 1][((k - 1) % w) + 1]]

blanks(board) == those([k \in 1 .. N |-> k - 1], {cell \in Cell : board[cell] = 0})

\* Pairs of a blank cell, or of a number of a unit, with a digit.
withDigits(seq) == flat([k \in DOMAIN seq |-> [val \in 1 .. NUM |-> <<seq[k], val>>]], NUM)

columnNames(board) ==
    LET units == withDigits([k \in 1 .. NUM |-> k - 1])
        named(u) == <<get_row_col(u[1], u[2]), get_col_col(u[1], u[2]), get_box_col(u[1], u[2])>>
        all == flat([k \in DOMAIN units |-> named(units[k])], 3)
    IN  blanks(board) \o those(all, ToSet(all) \ given(board))

options(board) ==
    LET pairs == withDigits(blanks(board))
    IN  those(pairs, {o \in ToSet(pairs) : ToSet(unitsOf(o[1], o[2])) \cap given(board) = {}})

optionNames(board) ==
    LET opts == options(board)
        named(o) == <<o[1]>> \o unitsOf(o[1], o[2])
    IN  flat([k \in DOMAIN opts |-> named(opts[k])], 4)

(***************************************************************************)
(* The constructor: the headers and the four nodes of an option are rings  *)
(* from left to right, a header and the nodes below it a ring downwards.   *)
(***************************************************************************)
\* The neighbors of n in a ring of the nodes S.
after(S, n)  == IF n = Max(S) THEN Min(S) ELSE Min({m \in S : m > n})
before(S, n) == IF n = Min(S) THEN Max(S) ELSE Max({m \in S : m < n})

\* The nodes with these names, of which the first are the columns.
matrixOf(names, cols) ==
    LET Node == 0 .. Len(names)
        name == [n \in Node |-> IF n = 0 THEN 0 ELSE names[n]]
        col  == [n \in Node |-> CHOOSE c \in 0 .. cols : name[c] = name[n] /\ (c = 0 <=> n = 0)]
        row(n)  == IF n <= cols THEN 0 .. cols
                   ELSE LET first == n - ((n - cols - 1) % 4) IN first .. first + 3
        ring(n) == {m \in Node : col[m] = col[n]}
    IN  [name  |-> name,
         col   |-> col,
         right |-> [n \in Node |-> after(row(n), n)],
         left  |-> [n \in Node |-> before(row(n), n)],
         down  |-> [n \in Node |-> after(ring(n), n)],
         up    |-> [n \in Node |-> before(ring(n), n)],
         size  |-> [c \in 0 .. cols |-> Cardinality(ring(c)) - 1]]

newMatrix(board) == matrixOf(columnNames(board) \o optionNames(board), Len(columnNames(board)))

newDance(board) ==
    [matrix |-> newMatrix(board), board |-> board, stack |-> <<>>, row |-> 0, pc |-> "solve"]

\* The nodes that a loop `for (n = next of start; n != start; n = next)' sees.
\* It goes round at most as often as there are nodes.
walk(next, start) ==
    LET at[k \in DOMAIN next] == IF k = 0 THEN next[start] ELSE next[at[k - 1]]
        end == CHOOSE k \in DOMAIN next : at[k] = start /\ \A i \in 0 .. k - 1 : at[i] # start
    IN  [k \in 1 .. end |-> at[k - 1]]

(***************************************************************************)
(* cover takes a column out of the ring of headers and every option below  *)
(* it out of its other columns; uncover puts all back in reverse order.    *)
(* The loops of both run along rings that they do not change.              *)
(***************************************************************************)
hide(m, n) == [m EXCEPT !.up[m.down[n]] = m.up[n],
                        !.down[m.up[n]] = m.down[n],
                        !.size[m.col[n]] = @ - 1]

show(m, n) == [m EXCEPT !.size[m.col[n]] = @ + 1,
                        !.up[m.down[n]] = n,
                        !.down[m.up[n]] = n]

hideRow(m, r) == FoldLeft(hide, m, walk(m.right, r))
showRow(m, r) == FoldLeft(show, m, walk(m.left, r))

cover(m, c) ==
    FoldLeft(hideRow, [m EXCEPT !.left[m.right[c]] = m.left[c],
                                !.right[m.left[c]] = m.right[c]],
             walk(m.down, c))

uncover(m, c) ==
    LET shown == FoldLeft(showRow, m, walk(m.up, c))
    IN  [shown EXCEPT !.left[m.right[c]] = c, !.right[m.left[c]] = c]

\* The column of a node.
coverAt(m, n) == cover(m, m.col[n])
uncoverAt(m, n) == uncover(m, m.col[n])

coverAll(m, nodes) == FoldLeft(coverAt, m, nodes)
uncoverAll(m, nodes) == FoldLeft(uncoverAt, m, nodes)

\* The smallest column, the first of several; one of size 0 or 1 will do.
get_min_column(m) ==
    LET headers == walk(m.right, 0)
        min_size == Min({m.size[c] : c \in ToSet(headers)})
    IN  headers[Min({i \in DOMAIN headers : m.size[headers[i]] <= Max({1, min_size})})]

(***************************************************************************)
(* solve.  The recursion is kept in the record: stack has a node of every  *)
(* option chosen, its header is the column of the call, and row is where   *)
(* the innermost call's loop is.                                           *)
(***************************************************************************)
option(m, n) == <<n>> \o walk(m.right, n)

namesOf(m, n) == {m.name[i] : i \in ToSet(option(m, n))}

\* The cell of an option and its digit, whichever node of it was chosen.
cellOf(m, n) == CHOOSE name \in namesOf(m, n) : name < 100

\* Mutant: the wrong digit of the name.
numberOf(m, n) == ((CHOOSE name \in namesOf(m, n) : name >= 100) \div 10) % 10
valOf(m, n) == (CHOOSE name \in namesOf(m, n) : name >= 100) % 10

allCovered(d) == d.matrix.left[0] = 0
atHeader(d) == d.matrix.col[d.row] = d.row

\* Nothing is left to cover: the options chosen are the solution.
fill(d) ==
    LET chosen(cell) == {n \in ToSet(d.stack) : cellOf(d.matrix, n) = cell}
    IN  [d EXCEPT !.board = [cell \in Cell |-> IF chosen(cell) = {} THEN @[cell]
                                               ELSE valOf(d.matrix, Max(chosen(cell)))],
                  !.pc = "true"]

choose(d) ==
    LET c == get_min_column(d.matrix)
        m == cover(d.matrix, c)
    IN  [d EXCEPT !.matrix = m, !.row = m.down[c], !.pc = "row"]

try(d) ==
    [d EXCEPT !.matrix = coverAll(@, walk(@.right, d.row)),
              !.stack = Append(@, d.row),
              !.pc = "solve"]

\* Mutant: the columns come back in the order in which they went.
sameOrder(m, n) == walk(m.right, n)
reverseOrder(m, n) == walk(m.left, n)

\* Mutant: the first column that cannot be covered ends the search.
giveUpAtOnce(d) == [d EXCEPT !.matrix = uncover(@, d.row), !.pc = "false"]

\* The loop is over: the column comes back, and the caller, if there is one,
\* takes its option back and goes on to the next.
giveUp(d) ==
    LET m == uncover(d.matrix, d.row)
        n == Last(d.stack)
        back == uncoverAll(m, reverseOrder(m, n))
    IN  IF d.stack = <<>>
        THEN [d EXCEPT !.matrix = m, !.pc = "false"]
        ELSE [d EXCEPT !.matrix = back, !.stack = Front(@), !.row = back.down[n]]

-----------------------------------------------------------------------------
\* A ring visits S in the first order, and in the other direction backwards.
ordered(next, previous, start, S) ==
    LET seq == walk(next, start)
    IN  /\ ToSet(seq) = S
        /\ \A i \in 1 .. Len(seq) - 1 : seq[i] < seq[i + 1]
        /\ walk(previous, start) = Reverse(seq)

columnsOf(m, n) == {m.col[i] : i \in ToSet(option(m, n))}

coveredColumns(d) ==
    (UNION {columnsOf(d.matrix, n) : n \in ToSet(d.stack)})
        \cup (IF d.pc = "row" THEN {d.matrix.col[d.row]} ELSE {})

\* The rings are those of the matrix without the columns that are covered and
\* without the options that touch one of them, in the first order.
matches(d) ==
    LET m == d.matrix
        covered == coveredColumns(d)
        free    == DOMAIN m.size \ (covered \cup {0})
        kept    == {n \in DOMAIN m.col \ DOMAIN m.size : columnsOf(m, n) \cap covered = {}}
        below(c) == {n \in kept : m.col[n] = c}
    IN  /\ ordered(m.right, m.left, 0, free)
        /\ \A c \in free : /\ ordered(m.down, m.up, c, below(c))
                           /\ m.size[c] = Cardinality(below(c))
=============================================================================
