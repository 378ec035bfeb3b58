---------------------------- MODULE SudokuProofs ----------------------------
(***************************************************************************)
(* The proofs about the Sudoku program: the job pool gives every puzzle to *)
(* one worker; the links of every worker's Dance are those of its matrix   *)
(* without what is covered, however often its search has gone down and     *)
(* come back; and a board that it calls solved is a solution. For any      *)
(* puzzles, any number of workers and boards of 4x4 and 9x9.               *)
(***************************************************************************)
EXTENDS Sudoku, SequenceTheorems, FiniteSetTheorems, NaturalsInduction, WellFoundedInduction, TLAPS

-----------------------------------------------------------------------------
(***************************************************************************)
(* The job pool: a puzzle that was handed out is solved, or there is       *)
(* exactly one worker who has it.                                          *)
(***************************************************************************)
\* The line main has read and not yet counted has room.
Room == mpc = "count" => Len(file) + total < MaxLines

\* The rows up to the one main reads into are lines.
Counted ==
    \A i \in Job : i < total \/ (i = total /\ mpc = "count") => sudoku[i] \in Line

\* What becomes of a puzzle.
Handled ==
    /\ \A w \in Worker : wpc[w] = "solve" =>
         /\ job[w] < Sid
         /\ Answer[job[w]] = None
         /\ \A v \in Worker : wpc[v] = "solve" /\ job[v] = job[w] => v = w
    /\ \A i \in Job : i >= Sid => Answer[i] = None
    /\ \A i \in Job : i < Sid => \/ Answer[i] = solution(sudoku[i])
                                 \/ \E w \in Worker : wpc[w] = "solve" /\ job[w] = i

\* Main prints when no worker runs any more.
Printed == mpc = "ended" => joined /\ PrintedPrefix

PoolInv == TypeOK /\ Room /\ Counted /\ Handled /\ Printed

\* The invariant of the pool holds at first.
LEMMA InitPool == Init => PoolInv
<1> SUFFICES ASSUME Init PROVE PoolInv
  OBVIOUS
<1>1. file \in Seq(Line) /\ Len(file) <= MaxLines
  <2>1. PICK n \in 0 .. MaxLines : file \in [1 .. n -> Line]
    BY DEF Init
  <2> QED BY <2>1, MaxLinesAssumption
<1>2. TypeOK
  <2>1. printed \in Seq(Solved \cup {None})
    BY DEF Init
  <2>2. total = 0 /\ Len(file) + total <= MaxLines
    BY <1>1, MaxLinesAssumption DEF Init
  <2>3. total \in Nat /\ Sid \in 0 .. total
    BY DEF Init
  <2>4. shutdown \in BOOLEAN
    BY DEF Init
  <2>5. /\ sudoku \in [Job -> Line \cup {None}]
        /\ Answer \in [Job -> Solved \cup {None}]
        /\ job \in [Worker -> Nat]
    BY DEF Init
  <2>6. /\ mpc \in {"read", "count", "join", "ended"}
        /\ wpc \in [Worker -> {"loop", "getJob", "solve", "ended"}]
    BY DEF Init
  <2> QED BY <1>1, <2>1, <2>2, <2>3, <2>4, <2>5, <2>6 DEF TypeOK
<1> QED BY <1>2, MaxLinesAssumption DEF Init, PoolInv, Room, Counted, Handled, Printed, Job

\* Main's steps keep it.
LEMMA MainPool == ASSUME PoolInv, main PROVE PoolInv'
<1> USE MaxLinesAssumption DEF Job
<1>1. CASE ReadLine
  <2>1. /\ Head(file) \in Line /\ Tail(file) \in Seq(Line)
        /\ Len(file) > 0 /\ Len(Tail(file)) = Len(file) - 1
    BY <1>1 DEF ReadLine, PoolInv, TypeOK
  <2>2. TypeOK'
    BY <1>1, <2>1 DEF ReadLine, PoolInv, TypeOK
  <2>3. Handled'
    BY <1>1 DEF ReadLine, PoolInv, TypeOK, Handled
  <2> QED BY <1>1, <2>1, <2>2, <2>3 DEF ReadLine, PoolInv, TypeOK, Room, Counted, Printed
<1>2. CASE CountPuzzle
  <2>1. TypeOK'
    BY <1>2 DEF CountPuzzle, PoolInv, TypeOK, Room
  <2> QED BY <1>2, <2>1 DEF CountPuzzle, PoolInv, TypeOK, Room, Counted, Handled, Printed
<1>3. CASE EndOfFile
  <2>1. TypeOK'
    BY <1>3 DEF EndOfFile, PoolInv, TypeOK
  <2> QED BY <1>3, <2>1 DEF EndOfFile, PoolInv, Room, Counted, Handled, Printed
<1>4. CASE Result
  <2>1. printed' \in Seq(Solved \cup {None})
    <3>1. \A i \in 1 .. total : Answer[i - 1] \in Solved \cup {None}
      BY <1>4 DEF PoolInv, TypeOK
    <3> QED BY <1>4, <3>1 DEF Result, PoolInv, TypeOK
  <2>2. TypeOK'
    BY <1>4, <2>1 DEF Result, PoolInv, TypeOK
  <2>3. Handled'
    BY <1>4 DEF Result, PoolInv, Handled
  <2>4. joined' /\ PrintedPrefix'
    <3>1. \A w \in Worker : wpc[w] # "solve"
      BY <1>4 DEF Result, joined
    <3>2. \A i \in 0 .. total - 1 :
            Answer[i] = IF i < Sid THEN solution(sudoku[i]) ELSE None
      BY <3>1 DEF PoolInv, TypeOK, Handled
    <3>3. \A i \in 0 .. total - 1 : printed'[i + 1] = Answer[i]
      BY <1>4 DEF Result, PoolInv, TypeOK
    <3> QED BY <1>4, <3>2, <3>3 DEF Result, joined, PrintedPrefix
  <2> QED BY <1>4, <2>2, <2>3, <2>4 DEF Result, PoolInv, TypeOK, Room, Counted, Printed
<1> QED BY <1>1, <1>2, <1>3, <1>4 DEF main

\* A worker's steps keep it.
LEMMA WorkerPool == ASSUME PoolInv, NEW w \in Worker, worker(w) PROVE PoolInv'
<1> USE MaxLinesAssumption DEF Job
<1>1. mpc # "ended"
  BY DEF PoolInv, Printed, joined, worker, Run, getJob, NoJob, Solve
<1>2. CASE Run(w) \/ NoJob(w)
  <2>1. TypeOK'
    BY <1>2 DEF Run, NoJob, PoolInv, TypeOK
  <2>2. Handled'
    BY <1>2 DEF Run, NoJob, PoolInv, TypeOK, Handled
  <2> QED BY <1>1, <1>2, <2>1, <2>2 DEF Run, NoJob, PoolInv, TypeOK, Room, Counted, Printed
<1>3. CASE getJob(w)
  <2>1. Sid < total /\ Sid \in Job
    BY <1>3 DEF getJob, noneLeft, PoolInv, TypeOK
  <2>2. TypeOK'
    BY <1>3, <2>1 DEF getJob, nextSid, PoolInv, TypeOK
  <2>3. Handled'
    BY <1>3, <2>1 DEF getJob, nextSid, PoolInv, TypeOK, Handled
  <2> QED BY <1>1, <1>3, <2>2, <2>3 DEF getJob, PoolInv, TypeOK, Room, Counted, Printed
<1>4. CASE Solve(w)
  <2>1. job[w] \in Job /\ sudoku[job[w]] \in Line
    BY <1>4 DEF Solve, PoolInv, TypeOK, Counted, Handled
  <2>2. Answer' = [Answer EXCEPT ![job[w]] = solution(sudoku[job[w]])]
    BY <1>4, <2>1 DEF Solve, PoolInv, TypeOK, Handled
  <2>3. solution(sudoku[job[w]]) \in Solved \cup {None}
    BY <2>1, SolutionAssumption
  <2>4. TypeOK'
    BY <1>4, <2>1, <2>2, <2>3 DEF Solve, PoolInv, TypeOK
  <2>5. Handled'
    BY <1>4, <2>1, <2>2 DEF Solve, PoolInv, TypeOK, Handled
  <2> QED BY <1>1, <1>4, <2>4, <2>5 DEF Solve, PoolInv, TypeOK, Room, Counted, Printed
<1> QED BY <1>2, <1>3, <1>4 DEF worker

\* It is an invariant of the job pool.
LEMMA PoolInvariant == Spec => []PoolInv
<1>1. PoolInv /\ [Next]_vars => PoolInv'
  <2> SUFFICES ASSUME PoolInv, [Next]_vars PROVE PoolInv'
    OBVIOUS
  <2>1. CASE UNCHANGED vars
    BY <2>1 DEF vars, PoolInv, TypeOK, Room, Counted, Handled, Printed, joined, PrintedPrefix
  <2> QED BY <2>1, MainPool, WorkerPool DEF Next
<1> QED BY <1>1, InitPool, PTL DEF Spec

\* Every variable has its type, and no puzzle is handed out before it is
\* counted (main.cpp:22-36, 104-110).
THEOREM PoolTyped == Spec => []TypeOK
<1>1. PoolInv => TypeOK
  BY DEF PoolInv
<1> QED BY <1>1, PoolInvariant, PTL

\* The rows of workers are apart from each other and from the reader's
\* (main.cpp:52-59, 104), for any number of workers and any file.
THEOREM JobsKeptApart == Spec => []JobsSeparate
<1>1. PoolInv => JobsSeparate
  BY DEF PoolInv, TypeOK, Handled, JobsSeparate
<1> QED BY <1>1, PoolInvariant, PTL

\* What is printed is right for every puzzle that was handed out
\* (main.cpp:53-59, 85-89).
THEOREM PrintedRight == Spec => []PrintedPrefix
<1>1. PoolInv => PrintedPrefix
  BY DEF PoolInv, Printed, PrintedPrefix
<1> QED BY <1>1, PoolInvariant, PTL

\* A set of numbers that is not empty has a least one,
LEMMA LeastNumber ==
  ASSUME NEW T \in SUBSET Nat, T # {}
  PROVE  \E n \in T : \A m \in T : n <= m
<1> DEFINE R == {ss \in Nat \X Nat : ss[1] < ss[2]}
<1>1. IsWellFoundedOn(R, Nat)
  BY NatLessThanWellFounded DEF OpToRel
<1>2. \A m, n \in Nat : m < n => <<m, n>> \in R
  OBVIOUS
<1> HIDE DEF R
<1>3. PICK n \in T : \A m \in T : ~ (<<m, n>> \in R)
  BY <1>1, WFMin
<1>4. ASSUME NEW m \in T PROVE n <= m
  <2>1. m \in Nat /\ n \in Nat
    OBVIOUS
  <2>2. ~ (m < n)
    BY <1>2, <1>3, <2>1
  <2> QED BY <2>1, <2>2
<1> QED BY <1>4

\* and a greatest one if it is bounded;
LEMMA GreatestNumber ==
  ASSUME NEW n \in Nat, NEW T \in SUBSET (0 .. n), T # {}
  PROVE  \E k \in T : \A m \in T : m <= k
<1> DEFINE U == {n - m : m \in T}
<1>1. U \in SUBSET Nat /\ U # {}
  <2>1. \A m \in T : n - m \in Nat
    OBVIOUS
  <2> QED BY <2>1
<1>2. PICK u \in U : \A v \in U : u <= v
  BY <1>1, LeastNumber
<1>3. PICK k \in T : u = n - k
  OBVIOUS
<1>4. ASSUME NEW m \in T PROVE m <= k
  <2>1. u <= n - m
    BY <1>2
  <2> QED BY <1>3, <2>1
<1> QED BY <1>4

\* What holds for 0, and for a number if for all smaller ones, holds for all.
LEMMA Induction ==
  ASSUME NEW n \in Nat, NEW Holds,
         \A k \in 0 .. n : (\A j \in 0 .. k - 1 : j \in Holds) => k \in Holds
  PROVE  \A k \in 0 .. n : k \in Holds
<1> DEFINE T == {k \in 0 .. n : k \notin Holds}
<1> SUFFICES ASSUME T # {} PROVE FALSE
  OBVIOUS
<1>1. PICK k \in T : \A m \in T : k <= m
  <2> T \in SUBSET Nat
    OBVIOUS
  <2> HIDE DEF T
  <2> QED BY LeastNumber
<1>2. \A j \in 0 .. k - 1 : j \in Holds
  BY <1>1
<1> QED BY <1>1, <1>2

\* From one number to the next.
LEMMA StepByStep ==
  ASSUME NEW n \in Nat, NEW Holds, 0 \in Holds,
         \A k \in 1 .. n : k - 1 \in Holds => k \in Holds
  PROVE  \A k \in 0 .. n : k \in Holds
<1>1. ASSUME NEW k \in 0 .. n, \A j \in 0 .. k - 1 : j \in Holds PROVE k \in Holds
  <2>1. CASE k = 0
    BY <2>1
  <2>2. CASE k # 0
    <3>1. k - 1 \in 0 .. k - 1 /\ k \in 1 .. n
      BY <2>2
    <3> QED BY <1>1, <3>1
  <2> QED BY <2>1, <2>2
<1> QED BY <1>1, Induction

\* Max is that one,
LEMMA MaxNumber ==
  ASSUME NEW n \in Nat, NEW T \in SUBSET (0 .. n), T # {}
  PROVE  Max(T) \in T /\ \A m \in T : m <= Max(T)
<1>1. \E k \in T : \A m \in T : k >= m
  <2>1. PICK k \in T : \A m \in T : m <= k
    BY GreatestNumber
  <2> QED BY <2>1
<1>2. Max(T) \in T /\ \A m \in T : Max(T) >= m
  BY <1>1 DEF Max
<1> QED BY <1>2

\* and Min the least.
LEMMA MinNumber ==
  ASSUME NEW T \in SUBSET Nat, T # {}
  PROVE  Min(T) \in T /\ \A m \in T : Min(T) <= m
BY LeastNumber DEF Min

-----------------------------------------------------------------------------
(***************************************************************************)
(* The loops of the code: FoldLeft goes through a sequence in order, and   *)
(* walk through a ring.                                                    *)
(***************************************************************************)
apply(op, x, n) ==
  CASE op.name = "hide" -> hide(x, n)
    [] op.name = "show" -> show(x, n)
    [] op.name = "hideRow" -> hideRow(x, n)
    [] op.name = "showRow" -> showRow(x, n)
    [] op.name = "cover" -> coverAt(x, n)
    [] op.name = "uncover" -> uncoverAt(x, n)
    [] op.name = "those" -> IF n \in op.of THEN Append(x, n) ELSE x

Iterates(iter, op, x, seq, n) ==
  iter = [s \in SUBSET (1 .. n) |->
            IF s = {} THEN x ELSE apply(op, iter[s \ {Max(s)}], seq[Max(s)])]

\* FoldLeft is a recursive function over the sets 1 .. k: there is one that
\* satisfies its equation,
LEMMA IterationExists ==
  ASSUME NEW op, NEW x, NEW seq, NEW n \in Nat
  PROVE  \E iter : Iterates(iter, op, x, seq, n)
<1> DEFINE Holds == {k \in 0 .. n : \E iter : Iterates(iter, op, x, seq, k)}
<1>1. 0 \in Holds
  <2> DEFINE g == [s \in SUBSET (1 .. 0) |-> x]
  <2>1. \A s \in SUBSET (1 .. 0) : s = {}
    OBVIOUS
  <2>2. Iterates(g, op, x, seq, 0)
    BY <2>1 DEF Iterates
  <2> QED BY <2>2
<1>2. ASSUME NEW k \in 1 .. n, k - 1 \in Holds PROVE k \in Holds
  <2>1. PICK f : Iterates(f, op, x, seq, k - 1)
    BY <1>2
  <2> DEFINE g == [s \in SUBSET (1 .. k) |->
                     IF k \in s THEN apply(op, f[s \ {k}], seq[k]) ELSE f[s]]
  <2>2. \A s \in SUBSET (1 .. k - 1) :
           f[s] = IF s = {} THEN x ELSE apply(op, f[s \ {Max(s)}], seq[Max(s)])
    BY <2>1 DEF Iterates
  <2>3. ASSUME NEW s \in SUBSET (1 .. k)
        PROVE  g[s] = IF s = {} THEN x ELSE apply(op, g[s \ {Max(s)}], seq[Max(s)])
    <3>1. CASE s = {}
      BY <2>2, <3>1
    <3>2. CASE k \in s
      <4>1. Max(s) = k
        <5>1. Max(s) \in s /\ \A i \in s : i <= Max(s)
          <6> s \in SUBSET (0 .. k) /\ k \in Nat
            OBVIOUS
          <6> QED BY <3>2, MaxNumber
        <5>2. k <= Max(s) /\ Max(s) \in 1 .. k
          BY <3>2, <5>1
        <5> QED BY <5>2
      <4>2. s \ {k} \in SUBSET (1 .. k) /\ k \notin s \ {k}
        OBVIOUS
      <4>3. g[s \ {k}] = f[s \ {k}]
        BY <4>2
      <4>4. g[s] = apply(op, f[s \ {k}], seq[k])
        BY <3>2
      <4> HIDE DEF g
      <4> QED BY <3>2, <4>1, <4>3, <4>4
    <3>3. CASE k \notin s /\ s # {}
      <4>1. Max(s) \in s
        <5> s \in SUBSET (0 .. k) /\ k \in Nat
          OBVIOUS
        <5> QED BY <3>3, MaxNumber
      <4>2. s \in SUBSET (1 .. k - 1)
        BY <3>3
      <4>3. s \ {Max(s)} \in SUBSET (1 .. k) /\ k \notin s \ {Max(s)}
        BY <3>3
      <4>4. g[s \ {Max(s)}] = f[s \ {Max(s)}]
        BY <4>3
      <4>5. g[s] = f[s]
        BY <3>3
      <4> HIDE DEF g
      <4> QED BY <2>2, <3>3, <4>2, <4>4, <4>5
    <3> QED BY <3>1, <3>2, <3>3
  <2>4. g = [s \in SUBSET (1 .. k) |->
                 IF s = {} THEN x ELSE apply(op, g[s \ {Max(s)}], seq[Max(s)])]
    BY <2>3
  <2> HIDE DEF g
  <2>5. Iterates(g, op, x, seq, k)
    BY <2>4 DEF Iterates
  <2> QED BY <2>5
<1> HIDE DEF Holds
<1>3. \A k \in 0 .. n : k \in Holds
  BY <1>1, <1>2, StepByStep
<1>4. n \in Holds
  BY <1>3
<1> QED BY <1>4 DEF Holds

\* at[k]: what comes of x after k elements of seq.
Goes(at, op, x, seq) ==
  /\ at[0] = x
  /\ \A k \in 1 .. Len(seq) : at[k] = apply(op, at[k - 1], seq[k])

\* and it goes through the elements of a sequence from the first to the last.
LEMMA IterationGoes ==
  ASSUME NEW op, NEW x, NEW seq, NEW iter, Len(seq) \in Nat, DOMAIN seq = 1 .. Len(seq),
         Iterates(iter, op, x, seq, Len(seq))
  PROVE  \E at : Goes(at, op, x, seq) /\ at[Len(seq)] = iter[DOMAIN seq]
<1> DEFINE at == [k \in 0 .. Len(seq) |-> iter[1 .. k]]
<1>1. at[0] = x
  <2>1. 1 .. 0 = {} /\ {} \in SUBSET (1 .. Len(seq)) /\ at[0] = iter[1 .. 0]
    OBVIOUS
  <2>2. iter[{}] = x
    BY <2>1 DEF Iterates
  <2> HIDE DEF at
  <2> QED BY <2>1, <2>2
<1>2. ASSUME NEW k \in 1 .. Len(seq) PROVE at[k] = apply(op, at[k - 1], seq[k])
  <2>1. Max(1 .. k) = k
    <3>1. Max(1 .. k) \in 1 .. k /\ \A i \in 1 .. k : i <= Max(1 .. k)
      <4>1. 1 .. k \in SUBSET (0 .. k) /\ k \in Nat /\ k \in 1 .. k
        OBVIOUS
      <4> QED BY <4>1, MaxNumber
    <3> QED BY <3>1
  <2>2. 1 .. k \in SUBSET (1 .. Len(seq)) /\ 1 .. k # {} /\ (1 .. k) \ {k} = 1 .. k - 1
    <3>1. k \in 1 .. k /\ \A i \in 1 .. k : i # k => i \in 1 .. k - 1
      OBVIOUS
    <3>2. \A i \in 1 .. k - 1 : i \in 1 .. k /\ i # k
      OBVIOUS
    <3>3. (1 .. k) \ {k} = 1 .. k - 1
      BY <3>1, <3>2
    <3> QED BY <3>1, <3>3
  <2>3. iter[1 .. k] = apply(op, iter[(1 .. k) \ {Max(1 .. k)}], seq[Max(1 .. k)])
    BY <2>2 DEF Iterates
  <2>4. at[k] = iter[1 .. k] /\ at[k - 1] = iter[1 .. k - 1]
    OBVIOUS
  <2> HIDE DEF at
  <2> QED BY <2>1, <2>2, <2>3, <2>4
<1>3. at[Len(seq)] = iter[DOMAIN seq]
  OBVIOUS
<1> HIDE DEF at
<1> QED BY <1>1, <1>2, <1>3 DEF Goes

\* So do the loops of the code over the nodes of a row or a column: hide,
LEMMA FoldHide ==
  ASSUME NEW x, NEW seq, Len(seq) \in Nat, DOMAIN seq = 1 .. Len(seq)
  PROVE  \E at : /\ at[0] = x
                 /\ \A k \in 1 .. Len(seq) : at[k] = hide(at[k - 1], seq[k])
                 /\ at[Len(seq)] = FoldLeft(hide, x, seq)
<1> DEFINE op == [name |-> "hide", of |-> {}]
           S == SUBSET DOMAIN seq
           Folded(f) == f = [s \in S |-> IF s = {} THEN x
                                         ELSE hide(f[s \ {Max(s)}], seq[Max(s)])]
<1>1. \A y, n : apply(op, y, n) = hide(y, n)
  BY DEF apply
<1> HIDE DEF op
<1>2. ASSUME NEW f PROVE Folded(f) <=> Iterates(f, op, x, seq, Len(seq))
  <2>1. \A s \in S : apply(op, f[s \ {Max(s)}], seq[Max(s)]) = hide(f[s \ {Max(s)}], seq[Max(s)])
    BY <1>1
  <2> QED BY <2>1 DEF Iterates
<1>3. \E f : Folded(f)
  BY <1>2, IterationExists
<1>4. PICK f : Folded(f) /\ FoldLeft(hide, x, seq) = f[DOMAIN seq]
  BY <1>3 DEF FoldLeft, MapThenFoldSet
<1> HIDE DEF Folded
<1>5. PICK at : Goes(at, op, x, seq) /\ at[Len(seq)] = f[DOMAIN seq]
  BY <1>2, <1>4, IterationGoes
<1> QED BY <1>1, <1>4, <1>5 DEF Goes

\* show,
LEMMA FoldShow ==
  ASSUME NEW x, NEW seq, Len(seq) \in Nat, DOMAIN seq = 1 .. Len(seq)
  PROVE  \E at : /\ at[0] = x
                 /\ \A k \in 1 .. Len(seq) : at[k] = show(at[k - 1], seq[k])
                 /\ at[Len(seq)] = FoldLeft(show, x, seq)
<1> DEFINE op == [name |-> "show", of |-> {}]
           S == SUBSET DOMAIN seq
           Folded(f) == f = [s \in S |-> IF s = {} THEN x
                                         ELSE show(f[s \ {Max(s)}], seq[Max(s)])]
<1>1. \A y, n : apply(op, y, n) = show(y, n)
  BY DEF apply
<1> HIDE DEF op
<1>2. ASSUME NEW f PROVE Folded(f) <=> Iterates(f, op, x, seq, Len(seq))
  <2>1. \A s \in S : apply(op, f[s \ {Max(s)}], seq[Max(s)]) = show(f[s \ {Max(s)}], seq[Max(s)])
    BY <1>1
  <2> QED BY <2>1 DEF Iterates
<1>3. \E f : Folded(f)
  BY <1>2, IterationExists
<1>4. PICK f : Folded(f) /\ FoldLeft(show, x, seq) = f[DOMAIN seq]
  BY <1>3 DEF FoldLeft, MapThenFoldSet
<1> HIDE DEF Folded
<1>5. PICK at : Goes(at, op, x, seq) /\ at[Len(seq)] = f[DOMAIN seq]
  BY <1>2, <1>4, IterationGoes
<1> QED BY <1>1, <1>4, <1>5 DEF Goes

\* hideRow,
LEMMA FoldHideRow ==
  ASSUME NEW x, NEW seq, Len(seq) \in Nat, DOMAIN seq = 1 .. Len(seq)
  PROVE  \E at : /\ at[0] = x
                 /\ \A k \in 1 .. Len(seq) : at[k] = hideRow(at[k - 1], seq[k])
                 /\ at[Len(seq)] = FoldLeft(hideRow, x, seq)
<1> DEFINE op == [name |-> "hideRow", of |-> {}]
           S == SUBSET DOMAIN seq
           Folded(f) == f = [s \in S |-> IF s = {} THEN x
                                         ELSE hideRow(f[s \ {Max(s)}], seq[Max(s)])]
<1>1. \A y, n : apply(op, y, n) = hideRow(y, n)
  BY DEF apply
<1> HIDE DEF op
<1>2. ASSUME NEW f PROVE Folded(f) <=> Iterates(f, op, x, seq, Len(seq))
  <2>1. \A s \in S : apply(op, f[s \ {Max(s)}], seq[Max(s)]) = hideRow(f[s \ {Max(s)}], seq[Max(s)])
    BY <1>1
  <2> QED BY <2>1 DEF Iterates
<1>3. \E f : Folded(f)
  BY <1>2, IterationExists
<1>4. PICK f : Folded(f) /\ FoldLeft(hideRow, x, seq) = f[DOMAIN seq]
  BY <1>3 DEF FoldLeft, MapThenFoldSet
<1> HIDE DEF Folded
<1>5. PICK at : Goes(at, op, x, seq) /\ at[Len(seq)] = f[DOMAIN seq]
  BY <1>2, <1>4, IterationGoes
<1> QED BY <1>1, <1>4, <1>5 DEF Goes

\* showRow,
LEMMA FoldShowRow ==
  ASSUME NEW x, NEW seq, Len(seq) \in Nat, DOMAIN seq = 1 .. Len(seq)
  PROVE  \E at : /\ at[0] = x
                 /\ \A k \in 1 .. Len(seq) : at[k] = showRow(at[k - 1], seq[k])
                 /\ at[Len(seq)] = FoldLeft(showRow, x, seq)
<1> DEFINE op == [name |-> "showRow", of |-> {}]
           S == SUBSET DOMAIN seq
           Folded(f) == f = [s \in S |-> IF s = {} THEN x
                                         ELSE showRow(f[s \ {Max(s)}], seq[Max(s)])]
<1>1. \A y, n : apply(op, y, n) = showRow(y, n)
  BY DEF apply
<1> HIDE DEF op
<1>2. ASSUME NEW f PROVE Folded(f) <=> Iterates(f, op, x, seq, Len(seq))
  <2>1. \A s \in S : apply(op, f[s \ {Max(s)}], seq[Max(s)]) = showRow(f[s \ {Max(s)}], seq[Max(s)])
    BY <1>1
  <2> QED BY <2>1 DEF Iterates
<1>3. \E f : Folded(f)
  BY <1>2, IterationExists
<1>4. PICK f : Folded(f) /\ FoldLeft(showRow, x, seq) = f[DOMAIN seq]
  BY <1>3 DEF FoldLeft, MapThenFoldSet
<1> HIDE DEF Folded
<1>5. PICK at : Goes(at, op, x, seq) /\ at[Len(seq)] = f[DOMAIN seq]
  BY <1>2, <1>4, IterationGoes
<1> QED BY <1>1, <1>4, <1>5 DEF Goes

\* coverAt
LEMMA FoldCover ==
  ASSUME NEW x, NEW seq, Len(seq) \in Nat, DOMAIN seq = 1 .. Len(seq)
  PROVE  \E at : /\ at[0] = x
                 /\ \A k \in 1 .. Len(seq) : at[k] = coverAt(at[k - 1], seq[k])
                 /\ at[Len(seq)] = FoldLeft(coverAt, x, seq)
<1> DEFINE op == [name |-> "cover", of |-> {}]
           S == SUBSET DOMAIN seq
           Folded(f) == f = [s \in S |-> IF s = {} THEN x
                                         ELSE coverAt(f[s \ {Max(s)}], seq[Max(s)])]
<1>1. \A y, n : apply(op, y, n) = coverAt(y, n)
  BY DEF apply
<1> HIDE DEF op
<1>2. ASSUME NEW f PROVE Folded(f) <=> Iterates(f, op, x, seq, Len(seq))
  <2>1. \A s \in S : apply(op, f[s \ {Max(s)}], seq[Max(s)]) = coverAt(f[s \ {Max(s)}], seq[Max(s)])
    BY <1>1
  <2> QED BY <2>1 DEF Iterates
<1>3. \E f : Folded(f)
  BY <1>2, IterationExists
<1>4. PICK f : Folded(f) /\ FoldLeft(coverAt, x, seq) = f[DOMAIN seq]
  BY <1>3 DEF FoldLeft, MapThenFoldSet
<1> HIDE DEF Folded
<1>5. PICK at : Goes(at, op, x, seq) /\ at[Len(seq)] = f[DOMAIN seq]
  BY <1>2, <1>4, IterationGoes
<1> QED BY <1>1, <1>4, <1>5 DEF Goes

\* and uncoverAt.
LEMMA FoldUncover ==
  ASSUME NEW x, NEW seq, Len(seq) \in Nat, DOMAIN seq = 1 .. Len(seq)
  PROVE  \E at : /\ at[0] = x
                 /\ \A k \in 1 .. Len(seq) : at[k] = uncoverAt(at[k - 1], seq[k])
                 /\ at[Len(seq)] = FoldLeft(uncoverAt, x, seq)
<1> DEFINE op == [name |-> "uncover", of |-> {}]
           S == SUBSET DOMAIN seq
           Folded(f) == f = [s \in S |-> IF s = {} THEN x
                                         ELSE uncoverAt(f[s \ {Max(s)}], seq[Max(s)])]
<1>1. \A y, n : apply(op, y, n) = uncoverAt(y, n)
  BY DEF apply
<1> HIDE DEF op
<1>2. ASSUME NEW f PROVE Folded(f) <=> Iterates(f, op, x, seq, Len(seq))
  <2>1. \A s \in S : apply(op, f[s \ {Max(s)}], seq[Max(s)]) = uncoverAt(f[s \ {Max(s)}], seq[Max(s)])
    BY <1>1
  <2> QED BY <2>1 DEF Iterates
<1>3. \E f : Folded(f)
  BY <1>2, IterationExists
<1>4. PICK f : Folded(f) /\ FoldLeft(uncoverAt, x, seq) = f[DOMAIN seq]
  BY <1>3 DEF FoldLeft, MapThenFoldSet
<1> HIDE DEF Folded
<1>5. PICK at : Goes(at, op, x, seq) /\ at[Len(seq)] = f[DOMAIN seq]
  BY <1>2, <1>4, IterationGoes
<1> QED BY <1>1, <1>4, <1>5 DEF Goes

\* g[k]: the node that the loop reaches after k steps.
Around(next, start, g, n) ==
  g = [k \in 0 .. n |-> IF k = 0 THEN next[start] ELSE next[g[k - 1]]]

\* The node after k steps is next of the one after k - 1.
LEMMA Steps ==
  ASSUME NEW K \in Nat, NEW next, NEW start, NEW f, Around(next, start, f, K)
  PROVE  f[0] = next[start] /\ \A k \in 1 .. K : f[k] = next[f[k - 1]]
BY DEF Around

\* There is a node after every number of steps.
LEMMA StepsExist ==
  ASSUME NEW K \in Nat, NEW next, NEW start
  PROVE  \E g : Around(next, start, g, K)
<1> DEFINE Holds == {n \in 0 .. K : \E g : Around(next, start, g, n)}
<1>1. 0 \in Holds
  <2> DEFINE g == [k \in 0 .. 0 |-> next[start]]
  <2>1. Around(next, start, g, 0)
    <3>1. \A k \in 0 .. 0 : next[start] = IF k = 0 THEN next[start] ELSE next[g[k - 1]]
      OBVIOUS
    <3> QED BY <3>1 DEF Around
  <2> HIDE DEF g
  <2> QED BY <2>1
<1>2. ASSUME NEW n \in 1 .. K, n - 1 \in Holds PROVE n \in Holds
  <2>1. PICK h : Around(next, start, h, n - 1)
    BY <1>2
  <2> DEFINE g == [k \in 0 .. n |-> IF k < n THEN h[k] ELSE next[h[k - 1]]]
  <2>2. ASSUME NEW k \in 0 .. n PROVE g[k] = IF k = 0 THEN next[start] ELSE next[g[k - 1]]
    <3>0. k # 0 => g[k - 1] = h[k - 1]
      OBVIOUS
    <3>1. CASE k < n
      <4>1. k \in 0 .. n - 1 /\ g[k] = h[k]
        BY <3>1
      <4> HIDE DEF g
      <4>2. h[k] = IF k = 0 THEN next[start] ELSE next[h[k - 1]]
        BY <2>1, <4>1 DEF Around
      <4> QED BY <3>0, <4>1, <4>2
    <3>2. CASE k = n
      <4>1. g[k] = next[h[k - 1]] /\ k # 0
        BY <3>2
      <4> HIDE DEF g
      <4> QED BY <3>0, <4>1
    <3> QED BY <3>1, <3>2
  <2>3. Around(next, start, g, n)
    BY <2>2 DEF Around
  <2> HIDE DEF g
  <2>4. \E f1 : Around(next, start, f1, n)
    BY <2>3
  <2> QED BY <2>4
<1> HIDE DEF Holds
<1>3. \A n \in 0 .. K : n \in Holds
  BY <1>1, <1>2, StepByStep
<1>4. K \in Holds
  BY <1>3
<1> QED BY <1>4 DEF Holds

\* The loop's nodes, one after the other.
Tour(K, next, start, e, f) ==
  /\ e \in 0 .. K
  /\ f[0] = next[start]
  /\ \A k \in 1 .. e : f[k] = next[f[k - 1]]
  /\ f[e] = start
  /\ \A i \in 0 .. e - 1 : f[i] # start

\* walk lists the nodes of a tour that comes back to its start.
LEMMA WalkIs ==
  ASSUME NEW K \in Nat, NEW next, DOMAIN next = 0 .. K, NEW start, NEW e, NEW f,
         Tour(K, next, start, e, f)
  PROVE  walk(next, start) = [k \in 1 .. e |-> f[k - 1]]
<1>0. /\ e \in 0 .. K
      /\ f[0] = next[start]
      /\ \A k \in 1 .. e : f[k] = next[f[k - 1]]
      /\ f[e] = start
      /\ \A i \in 0 .. e - 1 : f[i] # start
  BY DEF Tour
<1> DEFINE ends(g, k) == g[k] = start /\ \A i \in 0 .. k - 1 : g[i] # start
<1> DEFINE Rounds(g) == g = [k \in 0 .. K |-> IF k = 0 THEN next[start] ELSE next[g[k - 1]]]
<1>3. \E g : Rounds(g)
  <2>1. PICK g : Around(next, start, g, K)
    BY StepsExist
  <2>2. Rounds(g)
    BY <2>1 DEF Around
  <2> HIDE DEF Rounds
  <2> QED BY <2>2
<1>4. PICK g : /\ Rounds(g)
               /\ walk(next, start) = [k \in 1 .. (CHOOSE k \in 0 .. K : ends(g, k)) |-> g[k - 1]]
  <2> DEFINE W == CHOOSE g : Rounds(g)
             end == CHOOSE k \in 0 .. K : ends(W, k)
  <2>1. Rounds(W)
    <3> HIDE DEF Rounds
    <3> QED BY <1>3
  <2>2. walk(next, start) = [k \in 1 .. end |-> W[k - 1]]
    BY DEF walk
  <2> HIDE DEF W, Rounds
  <2> QED BY <2>1, <2>2
<1>5. \A k \in 0 .. e : g[k] = f[k]
  <2> DEFINE Same == {k \in 0 .. e : g[k] = f[k]}
  <2>1. 0 \in Same
    BY <1>0, <1>4
  <2>2. ASSUME NEW k \in 1 .. e, k - 1 \in Same PROVE k \in Same
    <3>1. g[k] = next[g[k - 1]]
      BY <1>0, <1>4
    <3> QED BY <1>0, <2>2, <3>1
  <2> HIDE DEF Same
  <2> e \in Nat
    BY <1>0
  <2>3. \A k \in 0 .. e : k \in Same
    BY <2>1, <2>2, StepByStep
  <2> QED BY <2>3 DEF Same
<1>6. ends(g, e)
  <2>1. \A i \in 0 .. e - 1 : g[i] = f[i]
    BY <1>0, <1>5
  <2> QED BY <1>0, <1>5, <2>1
<1>7. ASSUME NEW k \in 0 .. K, ends(g, k) PROVE k = e
  <2> e \in Nat
    BY <1>0
  <2>1. ~ (e < k)
    <3> SUFFICES ASSUME e < k PROVE FALSE
      OBVIOUS
    <3>1. e \in 0 .. k - 1
      OBVIOUS
    <3> QED BY <1>6, <1>7, <3>1
  <2>2. ~ (k < e)
    <3> SUFFICES ASSUME k < e PROVE FALSE
      OBVIOUS
    <3>1. k \in 0 .. e - 1
      OBVIOUS
    <3> QED BY <1>6, <1>7, <3>1
  <2> QED BY <2>1, <2>2
<1>8. (CHOOSE k \in 0 .. K : ends(g, k)) = e
  <2> HIDE DEF ends
  <2> QED BY <1>0, <1>6, <1>7
<1>9. \A k \in 1 .. e : g[k - 1] = f[k - 1]
  BY <1>0, <1>5
<1> QED BY <1>4, <1>8, <1>9

-----------------------------------------------------------------------------
(***************************************************************************)
(* Rings: next goes up through a set and comes back to its least node.     *)
(***************************************************************************)
\* next and prev go round T in order, and prev is the way back.
Ring(next, prev, T) ==
  \A n \in T :
    /\ next[n] \in T /\ prev[n] \in T
    /\ prev[next[n]] = n /\ next[prev[n]] = n
    /\ \A k \in T : n < k => n < next[n] /\ next[n] <= k
    /\ (\A k \in T : k <= n) => \A k \in T : next[n] <= k

\* Taking out one of several nodes leaves a ring of the others.
LEMMA RingWithout ==
  ASSUME NEW K \in Nat, NEW next \in [0 .. K -> 0 .. K], NEW prev \in [0 .. K -> 0 .. K],
         NEW T \in SUBSET (0 .. K), Ring(next, prev, T),
         NEW m \in T, NEW h \in T \ {m}
  PROVE  Ring([next EXCEPT ![prev[m]] = next[m]], [prev EXCEPT ![next[m]] = prev[m]], T \ {m})
<1> DEFINE next1 == [next EXCEPT ![prev[m]] = next[m]]
           prev1 == [prev EXCEPT ![next[m]] = prev[m]]
<1>1. /\ next[m] \in T /\ prev[m] \in T
      /\ prev[next[m]] = m /\ next[prev[m]] = m
      /\ m \in Nat /\ next[m] \in Nat /\ prev[m] \in Nat
  BY DEF Ring
<1>2. next[m] # m /\ prev[m] # m
  <2>1. next[m] # m
    <3> SUFFICES ASSUME next[m] = m PROVE FALSE
      OBVIOUS
    <3>1. \A k \in T : k <= m
      BY DEF Ring
    <3>2. \A k \in T : next[m] <= k
      BY <3>1 DEF Ring
    <3>3. h <= m /\ m <= h /\ h \in Nat
      BY <3>1, <3>2
    <3> QED BY <3>3, <1>1
  <2> QED BY <1>1, <2>1
<1>3. ASSUME NEW n \in T \ {m}
      PROVE  /\ next1[n] = IF n = prev[m] THEN next[m] ELSE next[n]
             /\ prev1[n] = IF n = next[m] THEN prev[m] ELSE prev[n]
  OBVIOUS
<1> HIDE DEF next1, prev1
<1>4. ASSUME NEW n \in T \ {m}
      PROVE  /\ next1[n] \in T \ {m} /\ prev1[n] \in T \ {m}
             /\ prev1[next1[n]] = n /\ next1[prev1[n]] = n
  <2>1. /\ next[n] \in T /\ prev[n] \in T /\ prev[next[n]] = n /\ next[prev[n]] = n
        /\ n # prev[m] => next[n] # m
        /\ n # next[m] => prev[n] # m
    BY <1>1 DEF Ring
  <2>2. next1[n] \in T \ {m} /\ prev1[n] \in T \ {m}
    BY <1>1, <1>2, <1>3, <2>1
  <2>3. prev1[next1[n]] = IF next1[n] = next[m] THEN prev[m] ELSE prev[next1[n]]
    BY <1>3, <2>2
  <2>4. next1[prev1[n]] = IF prev1[n] = prev[m] THEN next[m] ELSE next[prev1[n]]
    BY <1>3, <2>2
  <2>5. next[n] = next[m] => n = m
    BY <1>1, <2>1
  <2>6. prev[n] = prev[m] => n = m
    BY <1>1, <2>1
  <2> QED BY <1>1, <1>2, <1>3, <2>1, <2>2, <2>3, <2>4, <2>5, <2>6
<1>5. ASSUME NEW n \in T \ {m}, NEW k \in T \ {m}, n < k
      PROVE  n < next1[n] /\ next1[n] <= k
  <2>0. n \in Nat /\ k \in Nat
    OBVIOUS
  <2>1. CASE n = prev[m]
    <3>1. n < m /\ m <= k
      <4>1. next[n] = m
        BY <2>1 DEF Ring
      <4>2. n < next[n] /\ next[n] <= k
        BY <1>5 DEF Ring
      <4> QED BY <4>1, <4>2
    <3>2. m < next[m] /\ next[m] <= k
      <4>1. m < k
        BY <2>0, <3>1, <1>1
      <4> QED BY <4>1 DEF Ring
    <3>3. next1[n] = next[m]
      BY <1>3, <2>1
    <3> QED BY <1>1, <2>0, <3>1, <3>2, <3>3, SMTT(60)
  <2>2. CASE n # prev[m]
    BY <1>3, <1>5, <2>2 DEF Ring
  <2> QED BY <2>1, <2>2
<1>6. ASSUME NEW n \in T \ {m}, \A k \in T \ {m} : k <= n, NEW k \in T \ {m}
      PROVE  next1[n] <= k
  <2>0. n \in Nat /\ k \in Nat
    OBVIOUS
  <2>1. CASE n < m
    <3>1. n = prev[m]
      <4>1. n < next[n] /\ next[n] <= m /\ next[n] \in T /\ next[n] \in Nat
        BY <2>1 DEF Ring
      <4>2. next[n] = m
        <5> SUFFICES ASSUME next[n] # m PROVE FALSE
          OBVIOUS
        <5>1. next[n] <= n
          BY <1>6, <4>1
        <5> QED BY <2>0, <4>1, <5>1, SMTT(60)
      <4> QED BY <4>2 DEF Ring
    <3>2. \A i \in T : i <= m
      BY <1>1, <1>6, <2>0, <2>1
    <3>3. next[m] <= k
      BY <3>2 DEF Ring
    <3> QED BY <1>3, <3>1, <3>3
  <2>2. CASE m < n
    <3>1. \A i \in T : i <= n
      BY <1>6, <1>1, <2>0, <2>2
    <3>2. next[n] <= k /\ next[n] <= m
      BY <3>1 DEF Ring
    <3>3. CASE n = prev[m]
      <4>1. next[n] = m
        BY <1>1, <3>3
      <4>2. m <= k /\ m # k
        BY <3>2, <4>1
      <4>3. m < k
        BY <1>1, <2>0, <4>2
      <4>4. next[m] <= k
        BY <4>3 DEF Ring
      <4> QED BY <1>3, <3>3, <4>4
    <3>4. CASE n # prev[m]
      BY <1>3, <3>2, <3>4
    <3> QED BY <3>3, <3>4
  <2>3. n # m
    OBVIOUS
  <2> QED BY <1>1, <2>0, <2>1, <2>2, <2>3
<1>7. Ring(next1, prev1, T \ {m})
  BY <1>4, <1>5, <1>6 DEF Ring
<1> QED BY <1>7 DEF next1, prev1

\* What the loop sees of a ring from its least node on.
Visits(seq, h, T) ==
  /\ seq \in Seq(T \ {h})
  /\ ToSet(seq) = T \ {h}
  /\ \A i, j \in 1 .. Len(seq) : i < j => seq[i] < seq[j]

\* Every node but the last leads to a greater one.
LEMMA RingGrows ==
  ASSUME NEW K \in Nat, NEW next, NEW prev, DOMAIN next = 0 .. K, DOMAIN prev = 0 .. K,
         NEW T \in SUBSET (0 .. K), Ring(next, prev, T),
         NEW h \in T, \A k \in T : h <= k
  PROVE  \A n \in T : next[n] = h \/ n < next[n]
<1>a. /\ \A n \in T : n \in Nat /\ n <= K /\ h <= n
      /\ h \in Nat
      /\ \A n \in T : next[n] \in T /\ prev[next[n]] = n
      /\ \A n, k \in T : n < k => n < next[n] /\ next[n] <= k
      /\ \A n \in T : (\A k \in T : k <= n) => \A k \in T : next[n] <= k
  BY DEF Ring
<1> SUFFICES ASSUME NEW n \in T PROVE next[n] = h \/ n < next[n]
  OBVIOUS
<1>0. n \in Nat /\ next[n] \in T /\ next[n] \in Nat /\ h \in Nat /\ h <= next[n]
  BY <1>a
<1>1. CASE \A k \in T : k <= n
  <2>1. next[n] <= h
    BY <1>a, <1>0, <1>1
  <2> QED BY <1>a, <1>0, <2>1
<1>2. CASE ~ \A k \in T : k <= n
  <2>1. PICK k \in T : n < k
    BY <1>a, <1>0, <1>2
  <2> QED BY <1>a, <1>0, <2>1
<1> QED BY <1>1, <1>2

\* The loop comes back to the least node of the ring.
LEMMA RingTour ==
  ASSUME NEW K \in Nat, NEW next, NEW prev, DOMAIN next = 0 .. K, DOMAIN prev = 0 .. K,
         NEW T \in SUBSET (0 .. K), Ring(next, prev, T),
         NEW h \in T, \A k \in T : h <= k
  PROVE  \E e, f : Tour(K, next, h, e, f) /\ \A k \in 0 .. K : f[k] \in T
<1>0. /\ \A n \in T : n \in Nat /\ n <= K /\ h <= n
      /\ h \in Nat
      /\ \A n \in T : next[n] \in T /\ prev[next[n]] = n
      /\ \A n, k \in T : n < k => n < next[n] /\ next[n] <= k
      /\ \A n \in T : (\A k \in T : k <= n) => \A k \in T : next[n] <= k
  BY DEF Ring
<1>1. PICK f : Around(next, h, f, K)
  BY StepsExist
<1>2. f[0] = next[h] /\ \A k \in 1 .. K : f[k] = next[f[k - 1]]
  BY <1>1, Steps
<1>3. \A k \in 0 .. K : f[k] \in T
  <2> DEFINE Holds == {k \in 0 .. K : f[k] \in T}
  <2>1. 0 \in Holds
    BY <1>0, <1>2
  <2>2. ASSUME NEW k \in 1 .. K, k - 1 \in Holds PROVE k \in Holds
    <3>1. f[k - 1] \in T
      BY <2>2
    <3>2. f[k] \in T
      BY <1>0, <1>2, <3>1
    <3> QED BY <3>2
  <2> HIDE DEF Holds
  <2>3. \A k \in 0 .. K : k \in Holds
    BY <2>1, <2>2, StepByStep
  <2> QED BY <2>3 DEF Holds
<1>4. \A n \in T : next[n] = h \/ n < next[n]
  BY RingGrows
<1>5. \E k \in 0 .. K : f[k] = h
  <2> SUFFICES ASSUME \A k \in 0 .. K : f[k] # h PROVE FALSE
    OBVIOUS
  <2> DEFINE Holds == {k \in 0 .. K : k < f[k]}
  <2>1. 0 \in Holds
    <3>0. f[0] \in T /\ f[0] # h
      BY <1>3
    <3>1. f[0] \in Nat /\ h \in Nat /\ h < f[0]
      <4>1. \A n \in T : n \in Nat /\ h <= n
        BY <1>0
      <4>2. f[0] \in Nat /\ h <= f[0]
        BY <3>0, <4>1
      <4> QED BY <1>0, <3>0, <4>2
    <3> QED BY <3>1
  <2>2. ASSUME NEW k \in 1 .. K, k - 1 \in Holds PROVE k \in Holds
    <3>0. f[k - 1] \in T /\ f[k] \in T /\ f[k] # h
      BY <1>3
    <3>1. f[k] \in Nat /\ f[k - 1] \in Nat
      <4>1. \A n \in T : n \in Nat
        BY <1>0
      <4> QED BY <3>0, <4>1
    <3>2. f[k - 1] < f[k]
      BY <1>2, <1>4, <3>0
    <3>3. k - 1 < f[k - 1]
      BY <2>2
    <3> QED BY <3>1, <3>2, <3>3
  <2> HIDE DEF Holds
  <2>3. \A k \in 0 .. K : k \in Holds
    BY <2>1, <2>2, StepByStep
  <2>4. K < f[K]
    BY <2>3 DEF Holds
  <2>5. f[K] \in Nat /\ f[K] <= K
    <3>1. f[K] \in T
      BY <1>3
    <3> QED BY <1>0, <3>1
  <2> QED BY <2>4, <2>5
<1>6. PICK e \in 0 .. K : f[e] = h /\ \A i \in 0 .. e - 1 : f[i] # h
  <2> DEFINE U == {k \in 0 .. K : f[k] = h}
  <2>1. U \in SUBSET Nat /\ U # {}
    BY <1>5
  <2>2. PICK e \in U : \A k \in U : e <= k
    <3> HIDE DEF U
    <3> QED BY <2>1, LeastNumber
  <2>3. \A i \in 0 .. e - 1 : f[i] # h
    <3> SUFFICES ASSUME NEW i \in 0 .. e - 1, f[i] = h PROVE FALSE
      OBVIOUS
    <3>1. i \in U
      OBVIOUS
    <3>2. e <= i
      BY <2>2, <3>1
    <3> QED BY <3>2
  <2> QED BY <2>3
<1>7. Tour(K, next, h, e, f)
  <2>1. \A k \in 1 .. e : f[k] = next[f[k - 1]]
    BY <1>2
  <2> QED BY <1>2, <1>6, <2>1 DEF Tour
<1> QED BY <1>3, <1>7

\* Walking a ring from its least node shows every other node once, in order,
\* and walking back shows them in reverse.
LEMMA WalkRing ==
  ASSUME NEW K \in Nat, NEW next, NEW prev, DOMAIN next = 0 .. K, DOMAIN prev = 0 .. K,
         NEW T \in SUBSET (0 .. K), Ring(next, prev, T),
         NEW h \in T, \A k \in T : h <= k
  PROVE  /\ Visits(walk(next, h), h, T)
         /\ walk(prev, h) = Reverse(walk(next, h))
<1>0. /\ \A n \in T : n \in Nat /\ n <= K /\ h <= n
      /\ h \in Nat
      /\ \A n \in T : next[n] \in T /\ prev[next[n]] = n
      /\ \A n, k \in T : n < k => n < next[n] /\ next[n] <= k
      /\ \A n \in T : (\A k \in T : k <= n) => \A k \in T : next[n] <= k
  BY DEF Ring
<1>1. PICK e, f : Tour(K, next, h, e, f) /\ \A k \in 0 .. K : f[k] \in T
  BY RingTour
<1>2. f[0] = next[h] /\ \A k \in 1 .. e : f[k] = next[f[k - 1]]
  BY <1>1 DEF Tour
<1>3. \A k \in 0 .. K : f[k] \in T
  BY <1>1
<1>4. \A n \in T : next[n] = h \/ n < next[n]
  BY RingGrows
<1>6. e \in 0 .. K /\ f[e] = h /\ \A i \in 0 .. e - 1 : f[i] # h
  BY <1>1 DEF Tour
<1> e \in 0 .. K
  BY <1>6
<1> DEFINE seq == [k \in 1 .. e |-> f[k - 1]]
<1>7. walk(next, h) = seq
  BY <1>1, WalkIs
<1>8. /\ Len(seq) = e /\ DOMAIN seq = 1 .. e
      /\ \A k \in 1 .. e : seq[k] = f[k - 1] /\ seq[k] \in T \ {h}
      /\ seq \in Seq(T \ {h})
  <2>1. \A k \in 1 .. e : f[k - 1] \in T \ {h}
    BY <1>3, <1>6
  <2> QED BY <2>1
<1>9. \A k \in 1 .. e - 1 : f[k - 1] < f[k]
  <2> SUFFICES ASSUME NEW k \in 1 .. e - 1 PROVE f[k - 1] < f[k]
    OBVIOUS
  <2>1. f[k] = next[f[k - 1]] /\ f[k - 1] \in T /\ f[k] # h
    BY <1>2, <1>3, <1>6
  <2> QED BY <1>4, <2>1
<1>10. \A i, j \in 1 .. e : i < j => seq[i] < seq[j]
  <2> SUFFICES ASSUME NEW i \in 1 .. e PROVE \A j \in 1 .. e : i < j => seq[i] < seq[j]
    OBVIOUS
  <2> DEFINE Holds == {j \in 0 .. e : i < j => f[i - 1] < f[j - 1]}
  <2>1. 0 \in Holds
    OBVIOUS
  <2>2. ASSUME NEW j \in 1 .. e, j - 1 \in Holds PROVE j \in Holds
    <3> SUFFICES ASSUME i < j PROVE f[i - 1] < f[j - 1]
      OBVIOUS
    <3>1. f[j - 2] < f[j - 1]
      <4>1. j - 1 \in 1 .. e - 1
        OBVIOUS
      <4>2. f[(j - 1) - 1] < f[j - 1]
        BY <1>9, <4>1
      <4>3. (j - 1) - 1 = j - 2
        OBVIOUS
      <4> QED BY <4>2, <4>3
    <3>2. i = j - 1 \/ f[i - 1] < f[j - 2]
      <4>1. i < j - 1 => f[i - 1] < f[(j - 1) - 1]
        BY <2>2
      <4>2. (j - 1) - 1 = j - 2
        OBVIOUS
      <4> QED BY <4>1, <4>2
    <3>3. f[i - 1] \in Nat /\ f[j - 2] \in Nat /\ f[j - 1] \in Nat
      <4>1. i - 1 \in 0 .. K /\ j - 2 \in 0 .. K /\ j - 1 \in 0 .. K
        OBVIOUS
      <4>2. f[i - 1] \in T /\ f[j - 2] \in T /\ f[j - 1] \in T
        BY <1>3, <4>1
      <4> QED BY <1>0, <4>2
    <3>4. i = j - 1 => i - 1 = j - 2
      OBVIOUS
    <3> QED BY <3>1, <3>2, <3>3, <3>4
  <2> HIDE DEF Holds
  <2> e \in Nat
    OBVIOUS
  <2>3. \A j \in 0 .. e : j \in Holds
    BY <2>1, <2>2, StepByStep
  <2>4. ASSUME NEW j \in 1 .. e, i < j PROVE f[i - 1] < f[j - 1]
    BY <2>3, <2>4 DEF Holds
  <2> QED BY <1>8, <2>4
<1>11. ASSUME NEW t \in T \ {h} PROVE \E k \in 1 .. e : seq[k] = t
  <2> SUFFICES ASSUME \A k \in 0 .. e - 1 : f[k] # t PROVE FALSE
    <3>1. ASSUME NEW k \in 0 .. e - 1, f[k] = t PROVE \E i \in 1 .. e : seq[i] = t
      <4>1. k + 1 \in 1 .. e /\ (k + 1) - 1 = k
        OBVIOUS
      <4>2. seq[k + 1] = f[k]
        BY <1>8, <4>1
      <4> HIDE DEF seq
      <4> QED BY <3>1, <4>1, <4>2
    <3> QED BY <3>1
  <2>0. t \in Nat /\ h \in Nat /\ h < t /\ \A k \in 0 .. K : f[k] \in Nat
    <3>1. t \in T /\ t # h
      OBVIOUS
    <3>2. t \in Nat /\ h <= t
      BY <1>0, <3>1
    <3>3. \A n \in T : n \in Nat
      BY <1>0
    <3>4. \A k \in 0 .. K : f[k] \in Nat
      BY <1>3, <3>3
    <3> QED BY <1>0, <3>1, <3>2, <3>4
  <2> DEFINE Holds == {k \in 0 .. e : k = 0 \/ f[k - 1] < t}
  <2>1. 0 \in Holds
    OBVIOUS
  <2>2. ASSUME NEW k \in 1 .. e, k - 1 \in Holds PROVE k \in Holds
    <3>1. f[k - 1] <= t
      <4>1. CASE k = 1
        <5>1. next[h] <= t
          BY <1>0, <2>0
        <5> QED BY <1>2, <4>1, <5>1
      <4>2. CASE k # 1
        <5>1. f[(k - 1) - 1] < t /\ f[(k - 1) - 1] \in T /\ f[k - 1] = next[f[(k - 1) - 1]]
          BY <1>2, <1>3, <2>2, <4>2
        <5> QED BY <1>0, <5>1
      <4> QED BY <4>1, <4>2
    <3>2. f[k - 1] # t
      OBVIOUS
    <3>3. f[k - 1] \in Nat
      BY <2>0
    <3> QED BY <2>0, <3>1, <3>2, <3>3
  <2> HIDE DEF Holds
  <2> e \in Nat
    OBVIOUS
  <2>3. \A k \in 0 .. e : k \in Holds
    BY <2>1, <2>2, StepByStep
  <2>4. e = 0 \/ f[e - 1] < t
    BY <2>3 DEF Holds
  <2>5. CASE e = 0
    <3>1. h < next[h]
      BY <1>0, <2>0
    <3> QED BY <1>2, <1>6, <2>0, <2>5, <3>1
  <2>6. CASE e # 0
    <3>1. f[e - 1] \in T /\ f[e] = next[f[e - 1]]
      BY <1>2, <1>3, <2>6
    <3>2. f[e - 1] < f[e]
      BY <1>0, <2>4, <2>6, <3>1
    <3>3. h <= f[e - 1] /\ f[e - 1] \in Nat
      BY <1>0, <3>1
    <3> QED BY <1>6, <2>0, <3>2, <3>3
  <2> QED BY <2>5, <2>6
<1>12. Visits(seq, h, T)
  <2>1. ToSet(seq) = T \ {h}
    BY <1>8, <1>11 DEF ToSet
  <2> HIDE DEF seq
  <2> QED BY <1>8, <1>10, <2>1 DEF Visits
<1>13. walk(prev, h) = Reverse(seq)
  <2> DEFINE g == [k \in 0 .. e |-> IF k = e THEN h ELSE f[(e - 1) - k]]
  <2>0. \A n \in T : prev[next[n]] = n
    BY DEF Ring
  <2>1. g[0] = prev[h]
    <3>1. CASE e = 0
      BY <1>2, <1>6, <2>0, <3>1
    <3>2. CASE e # 0
      <4>1. f[e - 1] \in T /\ f[e] = next[f[e - 1]]
        BY <1>2, <1>3, <3>2
      <4>2. g[0] = f[e - 1]
        BY <3>2
      <4> QED BY <1>6, <2>0, <4>1, <4>2
    <3> QED BY <3>1, <3>2
  <2>2. ASSUME NEW k \in 1 .. e PROVE g[k] = prev[g[k - 1]]
    <3>1. g[k - 1] = f[e - k]
      <4>1. (e - 1) - (k - 1) = e - k /\ k - 1 \in 0 .. e /\ k - 1 # e
        OBVIOUS
      <4> QED BY <4>1
    <3>2. CASE k = e
      <4>1. g[k - 1] = next[h] /\ g[k] = h
        BY <1>2, <3>1, <3>2
      <4> QED BY <2>0, <4>1
    <3>3. CASE k # e
      <4>1. e - k \in 1 .. K /\ (e - k) - 1 = (e - 1) - k /\ (e - k) - 1 \in 0 .. K
        BY <3>3
      <4>2. f[e - k] = next[f[(e - 1) - k]] /\ f[(e - 1) - k] \in T
        BY <1>2, <1>3, <4>1
      <4>3. g[k] = f[(e - 1) - k]
        BY <3>3
      <4> HIDE DEF g
      <4> QED BY <2>0, <3>1, <4>2, <4>3
    <3> QED BY <3>2, <3>3
  <2>3. g[e] = h
    OBVIOUS
  <2>4. ASSUME NEW i \in 0 .. e - 1 PROVE g[i] # h
    <3>1. (e - 1) - i \in 0 .. e - 1 /\ i # e /\ i \in 0 .. e
      OBVIOUS
    <3> QED BY <1>6, <3>1
  <2>5. walk(prev, h) = [k \in 1 .. e |-> g[k - 1]]
    <3> HIDE DEF g
    <3>1. Tour(K, prev, h, e, g)
      BY <2>1, <2>2, <2>3, <2>4 DEF Tour
    <3> QED BY <3>1, WalkIs
  <2>6. ASSUME NEW k \in 1 .. e PROVE g[k - 1] = seq[(e - k) + 1]
    <3>1. (e - 1) - (k - 1) = e - k /\ k - 1 \in 0 .. e /\ k - 1 # e
          /\ (e - k) + 1 \in 1 .. e /\ ((e - k) + 1) - 1 = e - k
      OBVIOUS
    <3>2. g[k - 1] = f[e - k]
      BY <3>1
    <3> QED BY <3>1, <3>2
  <2> HIDE DEF g
  <2>7. Reverse(seq) = [k \in 1 .. e |-> seq[(e - k) + 1]]
    <3> HIDE DEF seq
    <3> QED BY <1>8 DEF Reverse
  <2> QED BY <2>5, <2>6, <2>7
<1> HIDE DEF seq
<1> QED BY <1>7, <1>12, <1>13

\* The links of a ring are determined by its nodes.
LEMMA RingUnique ==
  ASSUME NEW T \in SUBSET Nat, NEW next, NEW prev, NEW next1, NEW prev1,
         Ring(next, prev, T), Ring(next1, prev1, T)
  PROVE  \A n \in T : next1[n] = next[n]
<1> SUFFICES ASSUME NEW n \in T PROVE next1[n] = next[n]
  OBVIOUS
<1>1. next[n] \in T /\ next1[n] \in T /\ n \in Nat /\ next[n] \in Nat /\ next1[n] \in Nat
  BY DEF Ring
<1>2. CASE \A k \in T : k <= n
  <2>1. next[n] <= next1[n] /\ next1[n] <= next[n]
    BY <1>1, <1>2 DEF Ring
  <2> QED BY <1>1, <2>1
<1>3. CASE ~ \A k \in T : k <= n
  <2>1. PICK k \in T : n < k
    BY <1>1, <1>3
  <2>2. n < next[n] /\ n < next1[n]
    BY <2>1 DEF Ring
  <2>3. next[n] <= next1[n] /\ next1[n] <= next[n]
    BY <1>1, <2>2 DEF Ring
  <2> QED BY <1>1, <2>3
<1> QED BY <1>2, <1>3

\* So two rings of the same nodes are walked in the same way.
LEMMA WalkSame ==
  ASSUME NEW K \in Nat, NEW next, NEW prev, DOMAIN next = 0 .. K, DOMAIN prev = 0 .. K,
         NEW T \in SUBSET (0 .. K), Ring(next, prev, T),
         NEW h \in T, \A k \in T : h <= k,
         NEW next1, NEW prev1, DOMAIN next1 = 0 .. K, Ring(next1, prev1, T)
  PROVE  walk(next1, h) = walk(next, h)
<1>1. PICK e, f : Tour(K, next, h, e, f) /\ \A k \in 0 .. K : f[k] \in T
  BY RingTour
<1>2. \A n \in T : next1[n] = next[n]
  <2>1. T \in SUBSET Nat
    OBVIOUS
  <2> QED BY <2>1, RingUnique
<1>3. Tour(K, next1, h, e, f)
  <2>1. /\ e \in 0 .. K /\ f[e] = h /\ \A i \in 0 .. e - 1 : f[i] # h
        /\ f[0] = next[h] /\ \A k \in 1 .. e : f[k] = next[f[k - 1]]
    BY <1>1 DEF Tour
  <2>2. ASSUME NEW k \in 1 .. e PROVE f[k] = next1[f[k - 1]]
    <3>1. k - 1 \in 0 .. K
      BY <2>1
    <3>2. f[k - 1] \in T
      BY <1>1, <3>1
    <3> QED BY <1>2, <2>1, <3>2
  <2>3. f[0] = next1[h]
    BY <1>2, <2>1
  <2> QED BY <2>1, <2>2, <2>3 DEF Tour
<1>4. walk(next, h) = [k \in 1 .. e |-> f[k - 1]]
  BY <1>1, WalkIs
<1>5. walk(next1, h) = [k \in 1 .. e |-> f[k - 1]]
  BY <1>3, WalkIs
<1> QED BY <1>4, <1>5

Matrices(Node, Header) ==
  [name  : [Node -> Int],
   col   : [Node -> Header],
   right : [Node -> Node],
   left  : [Node -> Node],
   down  : [Node -> Node],
   up    : [Node -> Node],
   size  : [Header -> Int]]

InPlace(m, n) == m.up[m.down[n]] = n /\ m.down[m.up[n]] = n

\* What hide changes.
LEMMA HideParts ==
  ASSUME NEW Node, NEW Header, NEW m \in Matrices(Node, Header), NEW n \in Node
  PROVE  /\ hide(m, n) \in Matrices(Node, Header)
         /\ hide(m, n).up = [m.up EXCEPT ![m.down[n]] = m.up[n]]
         /\ hide(m, n).down = [m.down EXCEPT ![m.up[n]] = m.down[n]]
         /\ hide(m, n).size = [m.size EXCEPT ![m.col[n]] = @ - 1]
         /\ hide(m, n).name = m.name /\ hide(m, n).col = m.col
         /\ hide(m, n).right = m.right /\ hide(m, n).left = m.left
<1>1. /\ m.down[n] \in Node /\ m.up[n] \in Node /\ m.col[n] \in Header
      /\ m.size[m.col[n]] \in Int
  BY DEF Matrices
<1>2. /\ hide(m, n).up = [m.up EXCEPT ![m.down[n]] = m.up[n]]
      /\ hide(m, n).down = [m.down EXCEPT ![m.up[n]] = m.down[n]]
      /\ hide(m, n).size = [m.size EXCEPT ![m.col[n]] = @ - 1]
      /\ hide(m, n).name = m.name /\ hide(m, n).col = m.col
      /\ hide(m, n).right = m.right /\ hide(m, n).left = m.left
  BY DEF hide, Matrices
<1> DEFINE e == hide(m, n)
<1>3. e = [m EXCEPT !.up = e.up, !.down = e.down, !.size = e.size]
  BY DEF hide, Matrices
<1>4. e.up \in [Node -> Node] /\ e.down \in [Node -> Node] /\ e.size \in [Header -> Int]
  BY <1>1, <1>2 DEF Matrices
<1> HIDE DEF e
<1>5. e \in Matrices(Node, Header)
  BY <1>3, <1>4 DEF Matrices
<1> QED BY <1>2, <1>5 DEF e

\* What show changes.
LEMMA ShowParts ==
  ASSUME NEW Node, NEW Header, NEW m \in Matrices(Node, Header), NEW n \in Node
  PROVE  /\ show(m, n) \in Matrices(Node, Header)
         /\ show(m, n).up = [m.up EXCEPT ![m.down[n]] = n]
         /\ show(m, n).down = [m.down EXCEPT ![m.up[n]] = n]
         /\ show(m, n).size = [m.size EXCEPT ![m.col[n]] = @ + 1]
         /\ show(m, n).name = m.name /\ show(m, n).col = m.col
         /\ show(m, n).right = m.right /\ show(m, n).left = m.left
<1>1. /\ m.down[n] \in Node /\ m.up[n] \in Node /\ m.col[n] \in Header
      /\ m.size[m.col[n]] \in Int
  BY DEF Matrices
<1>2. /\ show(m, n).up = [m.up EXCEPT ![m.down[n]] = n]
      /\ show(m, n).down = [m.down EXCEPT ![m.up[n]] = n]
      /\ show(m, n).size = [m.size EXCEPT ![m.col[n]] = @ + 1]
      /\ show(m, n).name = m.name /\ show(m, n).col = m.col
      /\ show(m, n).right = m.right /\ show(m, n).left = m.left
  BY DEF show, Matrices
<1> DEFINE e == show(m, n)
<1>3. e = [m EXCEPT !.up = e.up, !.down = e.down, !.size = e.size]
  BY DEF show, Matrices
<1>4. e.up \in [Node -> Node] /\ e.down \in [Node -> Node] /\ e.size \in [Header -> Int]
  BY <1>1, <1>2 DEF Matrices
<1> HIDE DEF e
<1>5. e \in Matrices(Node, Header)
  BY <1>3, <1>4 DEF Matrices
<1> QED BY <1>2, <1>5 DEF e

\* Two matrices with the same links and numbers are the same.
LEMMA SameMatrix ==
  ASSUME NEW Node, NEW Header, NEW m \in Matrices(Node, Header), NEW e \in Matrices(Node, Header),
         m.name = e.name, m.col = e.col, m.right = e.right, m.left = e.left,
         m.down = e.down, m.up = e.up, m.size = e.size
  PROVE  m = e
BY DEF Matrices

\* show undoes hide, for a node in place of any matrix, however many other nodes
\* are hidden (sudoku_dancing_links.cpp:176-178, 187-189).
THEOREM ShowUndoesHide ==
  ASSUME NEW Node, NEW Header, NEW m \in Matrices(Node, Header), NEW n \in Node, InPlace(m, n)
  PROVE  show(hide(m, n), n) = m
<1> DEFINE e == hide(m, n)
           f == show(e, n)
<1>1. /\ m.down[n] \in Node /\ m.up[n] \in Node /\ m.col[n] \in Header
      /\ m.up[m.down[n]] = n /\ m.down[m.up[n]] = n
  BY DEF InPlace, Matrices
<1>2. /\ e \in Matrices(Node, Header)
      /\ e.up = [m.up EXCEPT ![m.down[n]] = m.up[n]]
      /\ e.down = [m.down EXCEPT ![m.up[n]] = m.down[n]]
      /\ e.size = [m.size EXCEPT ![m.col[n]] = @ - 1]
      /\ e.name = m.name /\ e.col = m.col /\ e.right = m.right /\ e.left = m.left
  BY HideParts
<1>3. /\ e.down[n] = m.down[n]
      /\ e.up[n] = m.up[n]
  BY <1>1, <1>2 DEF Matrices
<1> HIDE DEF e
<1> e \in Matrices(Node, Header)
  BY <1>2
<1> HIDE DEF f
<1>4. /\ f \in Matrices(Node, Header)
      /\ f.up = [e.up EXCEPT ![e.down[n]] = n]
      /\ f.down = [e.down EXCEPT ![e.up[n]] = n]
      /\ f.size = [e.size EXCEPT ![e.col[n]] = @ + 1]
      /\ f.name = e.name /\ f.col = e.col /\ f.right = e.right /\ f.left = e.left
  BY ShowParts DEF f
<1>5. /\ f.up = m.up
      /\ f.down = m.down
      /\ f.size = m.size
  <2>1. \A i \in Node : /\ f.up[i] = m.up[i]
                          /\ f.down[i] = m.down[i]
    BY <1>1, <1>2, <1>3, <1>4 DEF Matrices
  <2>2. \A c \in Header : f.size[c] = m.size[c]
    BY <1>1, <1>2, <1>4 DEF Matrices
  <2> QED BY <1>4, <2>1, <2>2 DEF Matrices
<1>6. f = m
  BY <1>2, <1>4, <1>5, SameMatrix
<1> QED BY <1>6 DEF e, f
-----------------------------------------------------------------------------
(***************************************************************************)
(* The matrix: hide and show, and the options that they take out and put   *)
(* back.                                                                   *)
(***************************************************************************)
RowOf(m, n) == {n, m.right[n], m.right[m.right[n]], m.right[m.right[m.right[n]]]}

Frame(m, K, J) ==
  /\ K \in Nat /\ J \in 0 .. K
  /\ m \in Matrices(0 .. K, 0 .. J)
  /\ \A c \in 0 .. J : m.col[c] = c
  /\ \A n \in J + 1 .. K :
       /\ m.right[n] \in J + 1 .. K /\ m.left[m.right[n]] = n
       /\ m.right[m.right[m.right[m.right[n]]]] = n
       /\ m.col[n] # 0 /\ m.col[m.right[n]] # m.col[n]
       /\ m.col[m.right[m.right[n]]] # m.col[n]

\* The nodes keep their places in their options.
Like(e, m, K, J) ==
  /\ e.name = m.name /\ e.col = m.col
  /\ \A n \in J + 1 .. K : e.right[n] = m.right[n] /\ e.left[n] = m.left[n]

Below(m, S, c) == {n \in S : m.col[n] = c}

\* The nodes of S are in the rings of the columns G.
Vert(m, G, S) ==
  \A c \in G : /\ Ring(m.down, m.up, {c} \cup Below(m, S, c))
               /\ m.size[c] = Cardinality(Below(m, S, c))

\* Only the rings of columns change.
Rolled(e, m, K, J) ==
  /\ e \in Matrices(0 .. K, 0 .. J)
  /\ e.name = m.name /\ e.col = m.col /\ e.right = m.right /\ e.left = m.left

\* Links that agree on the nodes of a ring make the same ring.
LEMMA RingSame ==
  ASSUME NEW next, NEW prev, NEW next1, NEW prev1, NEW T, Ring(next, prev, T),
         \A n \in T : next1[n] = next[n] /\ prev1[n] = prev[n]
  PROVE  Ring(next1, prev1, T)
BY DEF Ring

\* hide takes one node out of the ring of its column, and show puts it back.
LEMMA HideOne ==
  ASSUME NEW K, NEW J, NEW m, Frame(m, K, J),
         NEW G \in SUBSET (1 .. J), NEW S \in SUBSET (J + 1 .. K), Vert(m, G, S),
         NEW n \in S, m.col[n] \in G
  PROVE  /\ Rolled(hide(m, n), m, K, J)
         /\ Vert(hide(m, n), G, S \ {n})
         /\ show(hide(m, n), n) = m
<1> DEFINE e == hide(m, n)
           c == m.col[n]
           T == {c} \cup Below(m, S, c)
<1>0. /\ K \in Nat /\ J \in 0 .. K
      /\ m \in Matrices(0 .. K, 0 .. J)
      /\ \A k \in 0 .. J : m.col[k] = k
      /\ n \in J + 1 .. K /\ n \in 0 .. K /\ c \in 1 .. J /\ c # n /\ c \in 0 .. J
  <2>1. /\ K \in Nat /\ J \in 0 .. K
        /\ m \in Matrices(0 .. K, 0 .. J)
        /\ \A k \in 0 .. J : m.col[k] = k
    BY DEF Frame
  <2>2. n \in J + 1 .. K /\ c \in 1 .. J
    OBVIOUS
  <2>3. n \in 0 .. K /\ c # n /\ c \in 0 .. J /\ c \in 0 .. K
    BY <2>1, <2>2
  <2> QED BY <2>1, <2>2, <2>3
<1> m \in Matrices(0 .. K, 0 .. J) /\ n \in 0 .. K
  BY <1>0
<1>1. /\ e \in Matrices(0 .. K, 0 .. J)
      /\ e.up = [m.up EXCEPT ![m.down[n]] = m.up[n]]
      /\ e.down = [m.down EXCEPT ![m.up[n]] = m.down[n]]
      /\ e.size = [m.size EXCEPT ![m.col[n]] = @ - 1]
      /\ e.name = m.name /\ e.col = m.col /\ e.right = m.right /\ e.left = m.left
  <2> DEFINE Node == 0 .. K
             Header == 0 .. J
  <2>1. m \in Matrices(Node, Header) /\ n \in Node
    OBVIOUS
  <2> HIDE DEF Node, Header
  <2>2. /\ e \in Matrices(Node, Header)
        /\ e.up = [m.up EXCEPT ![m.down[n]] = m.up[n]]
        /\ e.down = [m.down EXCEPT ![m.up[n]] = m.down[n]]
        /\ e.size = [m.size EXCEPT ![m.col[n]] = @ - 1]
        /\ e.name = m.name /\ e.col = m.col /\ e.right = m.right /\ e.left = m.left
    BY <2>1, HideParts
  <2> HIDE DEF e
  <2> QED BY <2>2 DEF Node, Header
<1>2. /\ m.up \in [0 .. K -> 0 .. K] /\ m.down \in [0 .. K -> 0 .. K]
      /\ m.size \in [0 .. J -> Int] /\ m.col \in [0 .. K -> 0 .. J]
  BY <1>0 DEF Matrices
<1> HIDE DEF e
<1>3. Ring(m.down, m.up, T) /\ n \in T /\ c \in T /\ T \in SUBSET (0 .. K)
  <2>1. Ring(m.down, m.up, T)
    BY DEF Vert
  <2>2. c \in T
    OBVIOUS
  <2>3. n \in T
    BY DEF Below
  <2>4. Below(m, S, c) \subseteq 0 .. K
    <3>1. ASSUME NEW x \in S PROVE x \in 0 .. K
      <4>1. x \in J + 1 .. K
        OBVIOUS
      <4> QED BY <1>0, <4>1
    <3> QED BY <3>1 DEF Below
  <2>5. c \in 0 .. K
    BY <1>0
  <2> QED BY <2>1, <2>2, <2>3, <2>4, <2>5
<1>4. /\ m.down[n] \in T /\ m.up[n] \in T
      /\ InPlace(m, n)
  BY <1>3 DEF Ring, InPlace
<1>5. show(e, n) = m
  BY <1>0, <1>4, ShowUndoesHide DEF e
<1>6. ASSUME NEW k \in G
      PROVE  /\ Ring(e.down, e.up, {k} \cup Below(e, S \ {n}, k))
             /\ e.size[k] = Cardinality(Below(e, S \ {n}, k))
  <2>0. /\ Ring(m.down, m.up, {k} \cup Below(m, S, k))
        /\ m.size[k] = Cardinality(Below(m, S, k))
        /\ k \in 0 .. J /\ k \in 0 .. K /\ m.col[k] = k
    BY <1>0 DEF Vert
  <2>1. CASE k = c
    <3>1. Below(e, S \ {n}, k) = Below(m, S, k) \ {n}
      BY <1>1 DEF Below
    <3>2. {k} \cup Below(e, S \ {n}, k) = T \ {n}
      BY <1>0, <2>1, <3>1
    <3>3. Ring(e.down, e.up, T \ {n})
      <4> HIDE DEF T
      <4>1. c \in T \ {n}
        BY <1>0, <1>3
      <4>2. Ring([m.down EXCEPT ![m.up[n]] = m.down[n]], [m.up EXCEPT ![m.down[n]] = m.up[n]], T \ {n})
        BY <1>0, <1>2, <1>3, <4>1, RingWithout
      <4> QED BY <1>1, <4>2
    <3>4. n \in Below(m, S, k) /\ IsFiniteSet(Below(m, S, k))
      <4>1. Below(m, S, k) \in SUBSET (0 .. K) /\ n \in Below(m, S, k)
        <5>1. T \in SUBSET (0 .. K)
          BY <1>3
        <5>2. Below(m, S, k) \subseteq T
          BY <2>1
        <5>3. n \in Below(m, S, k)
          BY <2>1 DEF Below
        <5> QED BY <5>1, <5>2, <5>3
      <4>2. IsFiniteSet(0 .. K)
        <5>1. 0 \in Int /\ K \in Int
          BY <1>0
        <5> QED BY <5>1, FS_Interval, Zenon
      <4> QED BY <4>1, <4>2, FS_Subset
    <3>5. Cardinality(Below(m, S, k) \ {n}) = Cardinality(Below(m, S, k)) - 1
      BY <3>4, FS_RemoveElement
    <3>6. e.size[k] = m.size[k] - 1
      BY <1>1, <1>2, <2>0, <2>1
    <3> QED BY <2>0, <3>1, <3>2, <3>3, <3>5, <3>6
  <2>2. CASE k # c
    <3>1. Below(e, S \ {n}, k) = Below(m, S, k)
      BY <1>1, <2>2 DEF Below
    <3>2. ASSUME NEW i \in {k} \cup Below(m, S, k)
          PROVE  e.down[i] = m.down[i] /\ e.up[i] = m.up[i]
      <4>1. m.col[i] = k /\ i \in 0 .. K
        BY <1>0, <2>0 DEF Below
      <4>2. m.col[m.up[n]] = c /\ m.col[m.down[n]] = c
        BY <1>0, <1>4 DEF Below
      <4>3. i # m.up[n] /\ i # m.down[n]
        BY <2>2, <4>1, <4>2
      <4> QED BY <1>1, <1>2, <4>1, <4>3
    <3>3. Ring(e.down, e.up, {k} \cup Below(m, S, k))
      <4> DEFINE U == {k} \cup Below(m, S, k)
      <4> HIDE DEF U
      <4>1. Ring(m.down, m.up, U) /\ \A i \in U : e.down[i] = m.down[i] /\ e.up[i] = m.up[i]
        BY <2>0, <3>2 DEF U
      <4>2. Ring(e.down, e.up, U)
        BY <4>1, RingSame
      <4> QED BY <4>2 DEF U
    <3>4. e.size[k] = m.size[k]
      BY <1>1, <1>2, <2>0, <2>2
    <3> QED BY <2>0, <3>1, <3>3, <3>4
  <2> QED BY <2>1, <2>2
<1>7. Vert(e, G, S \ {n})
  BY <1>6 DEF Vert
<1> QED BY <1>1, <1>5, <1>7 DEF e, Rolled

\* A row of four nodes is walked in three steps.
LEMMA WalkFour ==
  ASSUME NEW K \in Nat, 3 <= K, NEW next, DOMAIN next = 0 .. K,
         NEW n, NEW a, NEW b, NEW c,
         next[n] = a, next[a] = b, next[b] = c, next[c] = n, a # n, b # n, c # n
  PROVE  walk(next, n) = <<a, b, c>>
<1> DEFINE f == [k \in 0 .. 3 |-> IF k = 0 THEN a ELSE IF k = 1 THEN b ELSE IF k = 2 THEN c ELSE n]
<1>1. f[0] = a /\ f[1] = b /\ f[2] = c /\ f[3] = n
  OBVIOUS
<1> HIDE DEF f
<1>2. \A k \in 1 .. 3 : f[k] = next[f[k - 1]]
  <2>1. f[1] = next[f[1 - 1]] /\ f[2] = next[f[2 - 1]] /\ f[3] = next[f[3 - 1]]
    BY <1>1
  <2>2. \A k \in 1 .. 3 : k = 1 \/ k = 2 \/ k = 3
    OBVIOUS
  <2> QED BY <2>1, <2>2
<1>3. \A i \in 0 .. 3 - 1 : f[i] # n
  <2>1. \A i \in 0 .. 3 - 1 : i = 0 \/ i = 1 \/ i = 2
    OBVIOUS
  <2> QED BY <1>1, <2>1
<1>4. Tour(K, next, n, 3, f)
  BY <1>1, <1>2, <1>3 DEF Tour
<1>5. walk(next, n) = [k \in 1 .. 3 |-> f[k - 1]]
  <2> DEFINE e == 3
  <2>1. Tour(K, next, n, e, f)
    BY <1>4
  <2> HIDE DEF e
  <2>2. walk(next, n) = [k \in 1 .. e |-> f[k - 1]]
    BY <2>1, WalkIs
  <2> QED BY <2>2 DEF e
<1>6. [k \in 1 .. 3 |-> f[k - 1]] = <<a, b, c>>
  BY <1>1
<1> QED BY <1>5, <1>6

\* The other nodes of an option.
Mates(m, n) == {m.right[n], m.right[m.right[n]], m.right[m.right[m.right[n]]]}

\* The nodes of an option, from left to right.
IsOption(m, J, n, a, b, c) ==
  /\ m.right[n] = a /\ m.right[a] = b /\ m.right[b] = c /\ m.right[c] = n
  /\ m.left[a] = n /\ m.left[b] = a /\ m.left[c] = b /\ m.left[n] = c
  /\ m.col[a] # m.col[n] /\ m.col[b] # m.col[n] /\ m.col[c] # m.col[n]
  /\ m.col[a] # m.col[b] /\ m.col[a] # m.col[c] /\ m.col[b] # m.col[c]
  /\ \A i \in {n, a, b, c} : m.col[i] \in 1 .. J
  /\ Mates(m, n) = {a, b, c} /\ RowOf(m, n) = {n, a, b, c}
  /\ walk(m.right, n) = <<a, b, c>> /\ walk(m.left, n) = <<c, b, a>>

\* Every node of an option is in a ring of four, in four columns.
LEMMA Option ==
  ASSUME NEW K, NEW J, NEW m, Frame(m, K, J), NEW n \in J + 1 .. K
  PROVE  \E a, b, c \in J + 1 .. K : IsOption(m, J, n, a, b, c)
<1> DEFINE a == m.right[n]
           b == m.right[a]
           c == m.right[b]
<1>0. K \in Nat /\ J \in 0 .. K /\ m \in Matrices(0 .. K, 0 .. J)
  BY DEF Frame
<1>1. \A x \in J + 1 .. K :
        /\ m.right[x] \in J + 1 .. K /\ m.left[m.right[x]] = x
        /\ m.right[m.right[m.right[m.right[x]]]] = x
        /\ m.col[x] # 0 /\ m.col[m.right[x]] # m.col[x]
        /\ m.col[m.right[m.right[x]]] # m.col[x]
  BY DEF Frame
<1>2. a \in J + 1 .. K /\ b \in J + 1 .. K /\ c \in J + 1 .. K /\ m.right[c] = n
  BY <1>1
<1> HIDE DEF a, b, c
<1>3. m.right[n] = a /\ m.right[a] = b /\ m.right[b] = c
  BY DEF a, b, c
<1>4. m.left[a] = n /\ m.left[b] = a /\ m.left[c] = b /\ m.left[n] = c
  BY <1>1, <1>2, <1>3
<1>5. /\ m.col[a] # m.col[n] /\ m.col[b] # m.col[n] /\ m.col[c] # m.col[n]
      /\ m.col[a] # m.col[b] /\ m.col[a] # m.col[c] /\ m.col[b] # m.col[c]
  BY <1>1, <1>2, <1>3
<1>6. \A i \in {n, a, b, c} : m.col[i] \in 1 .. J
  <2> SUFFICES ASSUME NEW i \in J + 1 .. K PROVE m.col[i] \in 1 .. J
    BY <1>2
  <2>1. i \in 0 .. K
    BY <1>0
  <2>2. m.col[i] \in 0 .. J
    BY <1>0, <2>1 DEF Matrices
  <2> QED BY <1>0, <1>1, <2>2
<1>7. Mates(m, n) = {a, b, c} /\ RowOf(m, n) = {n, a, b, c}
  BY <1>3 DEF Mates, RowOf
<1>8. a # n /\ b # n /\ c # n /\ a # b /\ b # c /\ a # c
  BY <1>5
<1>9. 3 <= K
  BY <1>0, <1>2, <1>8
<1>10. DOMAIN m.right = 0 .. K /\ DOMAIN m.left = 0 .. K
  BY <1>0 DEF Matrices
<1>11. walk(m.right, n) = <<a, b, c>>
  <2> DEFINE next == m.right
  <2>1. /\ DOMAIN next = 0 .. K /\ K \in Nat /\ 3 <= K
        /\ next[n] = a /\ next[a] = b /\ next[b] = c /\ next[c] = n
    BY <1>0, <1>2, <1>3, <1>9, <1>10
  <2> HIDE DEF next
  <2>2. walk(next, n) = <<a, b, c>>
    BY <1>8, <2>1, WalkFour
  <2> QED BY <2>2 DEF next
<1>12. walk(m.left, n) = <<c, b, a>>
  <2> DEFINE next == m.left
  <2>1. /\ DOMAIN next = 0 .. K /\ K \in Nat /\ 3 <= K
        /\ next[n] = c /\ next[c] = b /\ next[b] = a /\ next[a] = n
    BY <1>0, <1>4, <1>9, <1>10
  <2> HIDE DEF next
  <2>2. walk(next, n) = <<c, b, a>>
    BY <1>8, <2>1, WalkFour
  <2> QED BY <2>2 DEF next
<1>13. IsOption(m, J, n, a, b, c)
  BY <1>2, <1>3, <1>4, <1>5, <1>6, <1>7, <1>11, <1>12 DEF IsOption
<1> QED BY <1>2, <1>13

\* The options stay as they are while the nodes keep their places in them,
LEMMA FrameSame ==
  ASSUME NEW K, NEW J, NEW m, Frame(m, K, J), NEW e, e \in Matrices(0 .. K, 0 .. J), Like(e, m, K, J)
  PROVE  /\ Frame(e, K, J)
         /\ \A n \in J + 1 .. K : RowOf(e, n) = RowOf(m, n) /\ Mates(e, n) = Mates(m, n)
<1>1. K \in Nat /\ J \in 0 .. K /\ \A c \in 0 .. J : m.col[c] = c
  BY DEF Frame
<1>2. ASSUME NEW n \in J + 1 .. K
      PROVE  /\ e.right[n] \in J + 1 .. K /\ e.left[e.right[n]] = n
             /\ e.right[e.right[e.right[e.right[n]]]] = n
             /\ e.col[n] # 0 /\ e.col[e.right[n]] # e.col[n]
             /\ e.col[e.right[e.right[n]]] # e.col[n]
             /\ RowOf(e, n) = RowOf(m, n) /\ Mates(e, n) = Mates(m, n)
  <2>0. e.col = m.col /\ \A x \in J + 1 .. K : e.right[x] = m.right[x] /\ e.left[x] = m.left[x]
    BY DEF Like
  <2>a. PICK a, b, c \in J + 1 .. K : IsOption(m, J, n, a, b, c)
    BY Option
  <2>1. /\ m.right[n] = a /\ m.right[a] = b /\ m.right[b] = c /\ m.right[c] = n
        /\ m.left[a] = n
        /\ m.col[a] # m.col[n] /\ m.col[b] # m.col[n]
    BY <2>a DEF IsOption
  <2>2. m.col[n] # 0
    BY DEF Frame
  <2>3. e.right[n] = a /\ e.right[a] = b /\ e.right[b] = c /\ e.right[c] = n /\ e.left[a] = n
    BY <2>0, <2>1
  <2>4. RowOf(e, n) = RowOf(m, n) /\ Mates(e, n) = Mates(m, n)
    BY <2>1, <2>3 DEF RowOf, Mates
  <2> QED BY <2>0, <2>1, <2>2, <2>3, <2>4
<1>3. \A c \in 0 .. J : e.col[c] = c
  BY <1>1 DEF Like
<1> QED BY <1>1, <1>2, <1>3 DEF Frame

\* so also when only the rings of columns change.
LEMMA RolledFrame ==
  ASSUME NEW K, NEW J, NEW m, Frame(m, K, J), NEW e, Rolled(e, m, K, J)
  PROVE  /\ Frame(e, K, J)
         /\ \A n \in J + 1 .. K : RowOf(e, n) = RowOf(m, n) /\ Mates(e, n) = Mates(m, n)
<1>1. Like(e, m, K, J) /\ e \in Matrices(0 .. K, 0 .. J)
  BY DEF Rolled, Like
<1> QED BY <1>1, FrameSame

\* The other nodes of r's option are in their rings.
ToHide(m, K, J, G, S, r) ==
  /\ Frame(m, K, J)
  /\ G \in SUBSET (1 .. J) /\ S \in SUBSET (J + 1 .. K) /\ Vert(m, G, S)
  /\ r \in J + 1 .. K /\ Mates(m, r) \subseteq S /\ \A i \in Mates(m, r) : m.col[i] \in G

\* hideRow takes the other nodes of an option out, and showRow puts them back.
LEMMA HideRow ==
  ASSUME NEW K, NEW J, NEW m, NEW G, NEW S, NEW r, ToHide(m, K, J, G, S, r)
  PROVE  /\ Rolled(hideRow(m, r), m, K, J)
         /\ Vert(hideRow(m, r), G, S \ Mates(m, r))
         /\ showRow(hideRow(m, r), r) = m
<1> /\ Frame(m, K, J)
    /\ G \in SUBSET (1 .. J) /\ S \in SUBSET (J + 1 .. K) /\ Vert(m, G, S)
    /\ r \in J + 1 .. K /\ Mates(m, r) \subseteq S /\ \A i \in Mates(m, r) : m.col[i] \in G
  BY DEF ToHide
<1>0. PICK a, b, c \in J + 1 .. K : IsOption(m, J, r, a, b, c)
  BY Option
<1>1. /\ m.col[a] # m.col[b] /\ m.col[a] # m.col[c] /\ m.col[b] # m.col[c]
      /\ Mates(m, r) = {a, b, c}
      /\ walk(m.right, r) = <<a, b, c>> /\ walk(m.left, r) = <<c, b, a>>
  BY <1>0 DEF IsOption
<1>2. /\ a \in S /\ b \in S \ {a} /\ c \in (S \ {a}) \ {b}
      /\ m.col[a] \in G /\ m.col[b] \in G /\ m.col[c] \in G
      /\ S \ Mates(m, r) = ((S \ {a}) \ {b}) \ {c}
  BY <1>1
<1> DEFINE e1 == hide(m, a)
           e2 == hide(e1, b)
           e3 == hide(e2, c)
<1>3. Rolled(e1, m, K, J) /\ Vert(e1, G, S \ {a}) /\ show(e1, a) = m
  BY <1>2, HideOne
<1> HIDE DEF e1
<1>4. Frame(e1, K, J) /\ e1.col[b] \in G
  BY <1>2, <1>3, RolledFrame DEF Rolled
<1>5. Rolled(e2, e1, K, J) /\ Vert(e2, G, (S \ {a}) \ {b}) /\ show(e2, b) = e1
  <2> DEFINE S1 == S \ {a}
  <2>1. S1 \in SUBSET (J + 1 .. K) /\ b \in S1 /\ Vert(e1, G, S1)
    BY <1>2, <1>3
  <2> HIDE DEF S1
  <2>2. Rolled(e2, e1, K, J) /\ Vert(e2, G, S1 \ {b}) /\ show(e2, b) = e1
    BY <1>4, <2>1, HideOne
  <2> HIDE DEF e2
  <2> QED BY <2>2 DEF S1
<1> HIDE DEF e2
<1>6. Frame(e2, K, J) /\ e2.col[c] \in G
  BY <1>2, <1>3, <1>4, <1>5, RolledFrame DEF Rolled
<1>7. Rolled(e3, e2, K, J) /\ Vert(e3, G, ((S \ {a}) \ {b}) \ {c}) /\ show(e3, c) = e2
  <2> DEFINE S1 == (S \ {a}) \ {b}
  <2>1. S1 \in SUBSET (J + 1 .. K) /\ c \in S1 /\ Vert(e2, G, S1)
    BY <1>2, <1>5
  <2> HIDE DEF S1
  <2>2. Rolled(e3, e2, K, J) /\ Vert(e3, G, S1 \ {c}) /\ show(e3, c) = e2
    BY <1>6, <2>1, HideOne
  <2> HIDE DEF e3
  <2> QED BY <2>2 DEF S1
<1>8. hideRow(m, r) = e3
  <2> DEFINE seq == <<a, b, c>>
  <2>1. /\ Len(seq) = 3 /\ Len(seq) \in Nat /\ DOMAIN seq = 1 .. Len(seq)
        /\ seq[1] = a /\ seq[2] = b /\ seq[3] = c
        /\ 1 \in 1 .. Len(seq) /\ 2 \in 1 .. Len(seq) /\ 3 \in 1 .. Len(seq)
    OBVIOUS
  <2> HIDE DEF seq, e3
  <2>2. PICK at : /\ at[0] = m
                  /\ \A k \in 1 .. Len(seq) : at[k] = hide(at[k - 1], seq[k])
                  /\ at[Len(seq)] = FoldLeft(hide, m, seq)
    BY <2>1, FoldHide
  <2>3. at[1] = hide(at[0], a) /\ at[2] = hide(at[1], b) /\ at[3] = hide(at[2], c)
    <3>1. at[1] = hide(at[1 - 1], seq[1]) /\ at[2] = hide(at[2 - 1], seq[2]) /\ at[3] = hide(at[3 - 1], seq[3])
      BY <2>1, <2>2
    <3> QED BY <2>1, <3>1
  <2>4. at[3] = e3
    BY <2>2, <2>3 DEF e1, e2, e3
  <2>5. hideRow(m, r) = FoldLeft(hide, m, seq)
    BY <1>1 DEF hideRow, seq
  <2> QED BY <2>1, <2>2, <2>4, <2>5
<1> HIDE DEF e3
<1>9. Rolled(e3, m, K, J)
  BY <1>3, <1>5, <1>7 DEF Rolled
<1>10. showRow(e3, r) = m
  <2> DEFINE seq == <<c, b, a>>
  <2>1. /\ Len(seq) = 3 /\ Len(seq) \in Nat /\ DOMAIN seq = 1 .. Len(seq)
        /\ seq[1] = c /\ seq[2] = b /\ seq[3] = a
        /\ 1 \in 1 .. Len(seq) /\ 2 \in 1 .. Len(seq) /\ 3 \in 1 .. Len(seq)
    OBVIOUS
  <2>0. walk(e3.left, r) = seq
    BY <1>1, <1>9 DEF Rolled
  <2> HIDE DEF seq
  <2>2. PICK at : /\ at[0] = e3
                  /\ \A k \in 1 .. Len(seq) : at[k] = show(at[k - 1], seq[k])
                  /\ at[Len(seq)] = FoldLeft(show, e3, seq)
    BY <2>1, FoldShow
  <2>3. at[1] = show(at[0], c) /\ at[2] = show(at[1], b) /\ at[3] = show(at[2], a)
    <3>1. at[1] = show(at[1 - 1], seq[1]) /\ at[2] = show(at[2 - 1], seq[2]) /\ at[3] = show(at[3 - 1], seq[3])
      BY <2>1, <2>2
    <3> QED BY <2>1, <3>1
  <2>4. at[3] = m
    BY <1>3, <1>5, <1>7, <2>2, <2>3
  <2>5. showRow(e3, r) = FoldLeft(show, e3, seq)
    BY <2>0 DEF showRow
  <2> QED BY <2>1, <2>2, <2>4, <2>5
<1> QED BY <1>2, <1>7, <1>8, <1>9, <1>10

\* The nodes of options none of whose columns is covered.
Kept(m, K, J, F) == {n \in J + 1 .. K : \A i \in RowOf(m, n) : m.col[i] \in F}

Horiz(m, F) == Ring(m.right, m.left, {0} \cup F)

\* The links of the matrix with the columns F.
Linked(m, K, J, F) ==
  /\ Frame(m, K, J)
  /\ F \in SUBSET (1 .. J)
  /\ Horiz(m, F)
  /\ Vert(m, F, Kept(m, K, J, F))

\* An option is the same seen from any of its nodes, which are in different
\* columns.
LEMMA SameRow ==
  ASSUME NEW K, NEW J, NEW m, Frame(m, K, J), NEW n \in J + 1 .. K, NEW i \in RowOf(m, n)
  PROVE  /\ i \in J + 1 .. K
         /\ RowOf(m, i) = RowOf(m, n)
         /\ n \in RowOf(m, i)
         /\ m.col[i] = m.col[n] => i = n
         /\ i # n <=> i \in Mates(m, n)
<1>1. PICK a, b, c \in J + 1 .. K : IsOption(m, J, n, a, b, c)
  BY Option
<1>2. /\ m.right[n] = a /\ m.right[a] = b /\ m.right[b] = c /\ m.right[c] = n
      /\ m.col[a] # m.col[n] /\ m.col[b] # m.col[n] /\ m.col[c] # m.col[n]
      /\ Mates(m, n) = {a, b, c} /\ RowOf(m, n) = {n, a, b, c}
  BY <1>1 DEF IsOption
<1>3. i = n \/ i = a \/ i = b \/ i = c
  BY <1>2
<1>4. RowOf(m, i) = {n, a, b, c}
  BY <1>2, <1>3 DEF RowOf
<1> QED BY <1>2, <1>3, <1>4

\* The columns of options.
LEMMA RowColumns ==
  ASSUME NEW K, NEW J, NEW m, Frame(m, K, J), NEW n \in J + 1 .. K
  PROVE  /\ \A i \in RowOf(m, n) : m.col[i] \in 1 .. J
         /\ n \in RowOf(m, n) /\ Mates(m, n) \subseteq RowOf(m, n)
         /\ RowOf(m, n) = {n} \cup Mates(m, n)
<1>1. PICK a, b, c \in J + 1 .. K : IsOption(m, J, n, a, b, c)
  BY Option
<1> QED BY <1>1 DEF IsOption

-----------------------------------------------------------------------------
(***************************************************************************)
(* cover and uncover: the links without a column, and back.                *)
(***************************************************************************)
\* The first step of cover takes a header out.
unlink(m, c) == [m EXCEPT !.left[m.right[c]] = m.left[c], !.right[m.left[c]] = m.right[c]]
relink(m, c) == [m EXCEPT !.left[m.right[c]] = c, !.right[m.left[c]] = c]

\* What the first step of cover changes,
LEMMA UnlinkParts ==
  ASSUME NEW Node, NEW Header, NEW m \in Matrices(Node, Header), NEW c \in Node
  PROVE  /\ unlink(m, c) \in Matrices(Node, Header)
         /\ unlink(m, c).right = [m.right EXCEPT ![m.left[c]] = m.right[c]]
         /\ unlink(m, c).left = [m.left EXCEPT ![m.right[c]] = m.left[c]]
         /\ unlink(m, c).up = m.up /\ unlink(m, c).down = m.down /\ unlink(m, c).size = m.size
         /\ unlink(m, c).name = m.name /\ unlink(m, c).col = m.col
<1> DEFINE e == unlink(m, c)
<1>0. m.right[c] \in Node /\ m.left[c] \in Node
  BY DEF Matrices
<1>1. /\ e.right = [m.right EXCEPT ![m.left[c]] = m.right[c]]
      /\ e.left = [m.left EXCEPT ![m.right[c]] = m.left[c]]
      /\ e.up = m.up /\ e.down = m.down /\ e.size = m.size
      /\ e.name = m.name /\ e.col = m.col
  BY DEF unlink, Matrices
<1>2. e = [m EXCEPT !.left = e.left, !.right = e.right]
  BY DEF unlink, Matrices
<1> HIDE DEF e
<1>3. e.right \in [Node -> Node] /\ e.left \in [Node -> Node]
  BY <1>0, <1>1 DEF Matrices
<1>4. e \in Matrices(Node, Header)
  BY <1>2, <1>3 DEF Matrices
<1> QED BY <1>1, <1>4 DEF e

\* and the last step of uncover.
LEMMA RelinkParts ==
  ASSUME NEW Node, NEW Header, NEW m \in Matrices(Node, Header), NEW c \in Node
  PROVE  /\ relink(m, c) \in Matrices(Node, Header)
         /\ relink(m, c).right = [m.right EXCEPT ![m.left[c]] = c]
         /\ relink(m, c).left = [m.left EXCEPT ![m.right[c]] = c]
         /\ relink(m, c).up = m.up /\ relink(m, c).down = m.down /\ relink(m, c).size = m.size
         /\ relink(m, c).name = m.name /\ relink(m, c).col = m.col
<1> DEFINE e == relink(m, c)
<1>0. m.right[c] \in Node /\ m.left[c] \in Node
  BY DEF Matrices
<1>1. /\ e.right = [m.right EXCEPT ![m.left[c]] = c]
      /\ e.left = [m.left EXCEPT ![m.right[c]] = c]
      /\ e.up = m.up /\ e.down = m.down /\ e.size = m.size
      /\ e.name = m.name /\ e.col = m.col
  BY DEF relink, Matrices
<1>2. e = [m EXCEPT !.left = e.left, !.right = e.right]
  BY DEF relink, Matrices
<1> HIDE DEF e
<1>3. e.right \in [Node -> Node] /\ e.left \in [Node -> Node]
  BY <1>0, <1>1 DEF Matrices
<1>4. e \in Matrices(Node, Header)
  BY <1>2, <1>3 DEF Matrices
<1> QED BY <1>1, <1>4 DEF e

\* Taking a header out leaves the other columns linked, and relink undoes it.
LEMMA Unlink ==
  ASSUME NEW K, NEW J, NEW m, NEW F, Linked(m, K, J, F), NEW c \in F
  PROVE  LET e == unlink(m, c)
         IN  /\ Frame(e, K, J) /\ Like(e, m, K, J)
             /\ Horiz(e, F \ {c})
             /\ Vert(e, F, Kept(m, K, J, F))
             /\ e.down = m.down /\ e.up = m.up
             /\ relink(e, c) = m
<1> DEFINE e == unlink(m, c)
           Node == 0 .. K
           Header == 0 .. J
           T == {0} \cup F
<1>0. /\ K \in Nat /\ J \in 0 .. K /\ m \in Matrices(0 .. K, 0 .. J)
      /\ F \in SUBSET (1 .. J)
      /\ Frame(m, K, J) /\ Ring(m.right, m.left, T) /\ Vert(m, F, Kept(m, K, J, F))
  BY DEF Linked, Frame, Horiz
<1>1. T \in SUBSET (0 .. J) /\ c \in T /\ 0 \in T \ {c} /\ c \in 0 .. K
  BY <1>0
<1>2. \A i \in 0 .. J : i \in 0 .. K
  BY <1>0
<1>3. /\ m.right[c] \in T /\ m.left[c] \in T /\ m.left[m.right[c]] = c /\ m.right[m.left[c]] = c
      /\ m.right[c] # c /\ m.left[c] # c
  <2>1. /\ m.right[c] \in T /\ m.left[c] \in T /\ m.left[m.right[c]] = c /\ m.right[m.left[c]] = c
    BY <1>0, <1>1 DEF Ring
  <2>2. m.right[c] # c
    <3>1. 0 \in T /\ c \in T /\ 0 < c /\ c \in Nat
      BY <1>0, <1>1
    <3>2. CASE \A k \in T : k <= c
      <4>1. m.right[c] <= 0
        BY <1>0, <3>1, <3>2 DEF Ring
      <4> QED BY <3>1, <4>1
    <3>3. CASE \E k \in T : ~ (k <= c)
      <4>1. PICK k \in T : ~ (k <= c)
        BY <3>3
      <4>2. c < k
        BY <1>1, <3>1, <4>1
      <4>3. c < m.right[c]
        BY <1>0, <3>1, <4>2 DEF Ring
      <4> QED BY <3>1, <4>3
    <3> QED BY <3>2, <3>3
  <2> QED BY <2>1, <2>2
<1>4. /\ e \in Matrices(0 .. K, 0 .. J)
      /\ e.right = [m.right EXCEPT ![m.left[c]] = m.right[c]]
      /\ e.left = [m.left EXCEPT ![m.right[c]] = m.left[c]]
      /\ e.up = m.up /\ e.down = m.down /\ e.size = m.size
      /\ e.name = m.name /\ e.col = m.col
  <2>1. m \in Matrices(Node, Header) /\ c \in Node
    BY <1>0, <1>1
  <2> HIDE DEF Node, Header
  <2>2. /\ e \in Matrices(Node, Header)
        /\ e.right = [m.right EXCEPT ![m.left[c]] = m.right[c]]
        /\ e.left = [m.left EXCEPT ![m.right[c]] = m.left[c]]
        /\ e.up = m.up /\ e.down = m.down /\ e.size = m.size
        /\ e.name = m.name /\ e.col = m.col
    BY <2>1, UnlinkParts
  <2> HIDE DEF e
  <2> QED BY <2>2 DEF Node, Header
<1> DEFINE f == relink(e, c)
<1> HIDE DEF e
<1>5. /\ f \in Matrices(0 .. K, 0 .. J)
      /\ f.right = [e.right EXCEPT ![e.left[c]] = c]
      /\ f.left = [e.left EXCEPT ![e.right[c]] = c]
      /\ f.up = e.up /\ f.down = e.down /\ f.size = e.size
      /\ f.name = e.name /\ f.col = e.col
  <2>1. e \in Matrices(Node, Header) /\ c \in Node
    BY <1>1, <1>4
  <2> HIDE DEF Node, Header
  <2>2. /\ f \in Matrices(Node, Header)
        /\ f.right = [e.right EXCEPT ![e.left[c]] = c]
        /\ f.left = [e.left EXCEPT ![e.right[c]] = c]
        /\ f.up = e.up /\ f.down = e.down /\ f.size = e.size
        /\ f.name = e.name /\ f.col = e.col
    BY <2>1, RelinkParts
  <2> HIDE DEF f
  <2> QED BY <2>2 DEF Node, Header
<1> HIDE DEF f
<1>6. m.right \in [0 .. K -> 0 .. K] /\ m.left \in [0 .. K -> 0 .. K]
  BY <1>0 DEF Matrices
<1>7. Like(e, m, K, J)
  <2> SUFFICES ASSUME NEW n \in J + 1 .. K PROVE e.right[n] = m.right[n] /\ e.left[n] = m.left[n]
    BY <1>4 DEF Like
  <2>1. n \notin T /\ n \in 0 .. K
    BY <1>0, <1>1
  <2>2. n # m.left[c] /\ n # m.right[c]
    BY <1>3, <2>1
  <2> QED BY <1>4, <1>6, <2>1, <2>2
<1>8. Frame(e, K, J)
  BY <1>0, <1>4, <1>7, FrameSame
<1>9. Horiz(e, F \ {c})
  <2>1. T \in SUBSET (0 .. K)
    BY <1>1, <1>2
  <2>2. {0} \cup (F \ {c}) = T \ {c}
    BY <1>1
  <2> HIDE DEF T
  <2>3. Ring([m.right EXCEPT ![m.left[c]] = m.right[c]], [m.left EXCEPT ![m.right[c]] = m.left[c]], T \ {c})
    BY <1>0, <1>1, <1>6, <2>1, RingWithout
  <2> QED BY <1>4, <2>2, <2>3 DEF Horiz
<1>10. Vert(e, F, Kept(m, K, J, F))
  <2>1. \A S, k : Below(e, S, k) = Below(m, S, k)
    BY <1>4 DEF Below
  <2>2. Vert(m, F, Kept(m, K, J, F))
    BY <1>0
  <2> DEFINE S == Kept(m, K, J, F)
  <2>3. e.up = m.up /\ e.down = m.down /\ e.size = m.size
    BY <1>4
  <2> HIDE DEF S, e
  <2>5. Vert(m, F, S)
    BY <2>2 DEF S
  <2>6. Vert(e, F, S)
    BY <2>1, <2>3, <2>5 DEF Vert
  <2> QED BY <2>6 DEF S
<1>11. f = m
  <2>1. e.right[c] = m.right[c] /\ e.left[c] = m.left[c]
    BY <1>1, <1>3, <1>4, <1>6
  <2>2. m.right[c] \in 0 .. K /\ m.left[c] \in 0 .. K
    BY <1>1, <1>6
  <2>3. f.right = m.right
    BY <1>3, <1>4, <1>5, <1>6, <2>1, <2>2
  <2>4. f.left = m.left
    BY <1>3, <1>4, <1>5, <1>6, <2>1, <2>2
  <2>5. /\ f.up = m.up /\ f.down = m.down /\ f.size = m.size /\ f.name = m.name /\ f.col = m.col
    BY <1>4, <1>5
  <2>6. m \in Matrices(Node, Header) /\ f \in Matrices(Node, Header)
    BY <1>0, <1>5
  <2> HIDE DEF Node, Header
  <2> QED BY <2>3, <2>4, <2>5, <2>6, SameMatrix
<1> QED BY <1>4, <1>7, <1>8, <1>9, <1>10, <1>11 DEF e, f

\* The ring of a column in which nodes of S are.
Column(m, S, c) == {c} \cup Below(m, S, c)

IsColumn(m, K, J, S, c) ==
  /\ Frame(m, K, J)
  /\ S \in SUBSET (J + 1 .. K)
  /\ c \in 1 .. J
  /\ Ring(m.down, m.up, Column(m, S, c))

\* The nodes of a column are walked in order, down and up.
LEMMA ColumnWalk ==
  ASSUME NEW K, NEW J, NEW m, NEW S, NEW c, IsColumn(m, K, J, S, c)
  PROVE  /\ Visits(walk(m.down, c), c, Column(m, S, c))
         /\ walk(m.up, c) = Reverse(walk(m.down, c))
         /\ Column(m, S, c) \ {c} = Below(m, S, c)
         /\ \A e : /\ Frame(e, K, J)
                   /\ Ring(e.down, e.up, Column(m, S, c))
                   => walk(e.down, c) = walk(m.down, c) /\ e.down[c] = m.down[c]
<1> DEFINE T == Column(m, S, c)
<1>0. /\ Frame(m, K, J) /\ S \in SUBSET (J + 1 .. K) /\ c \in 1 .. J
      /\ Ring(m.down, m.up, Column(m, S, c))
  BY DEF IsColumn
<1>1. /\ K \in Nat /\ J \in 0 .. K /\ c \in 0 .. K /\ \A n \in S : n \in 0 .. K /\ c < n
      /\ DOMAIN m.down = 0 .. K /\ DOMAIN m.up = 0 .. K
  BY <1>0 DEF Frame, Matrices
<1>2. T \in SUBSET (0 .. K) /\ c \in T /\ \A k \in T : c <= k
  <2>1. \A k \in T : k = c \/ k \in S
    BY DEF Column, Below
  <2>2. c \in T
    BY DEF Column
  <2>3. c <= c
    BY <1>1
  <2> HIDE DEF T
  <2>4. ASSUME NEW k \in T PROVE k \in 0 .. K /\ c <= k
    <3>1. CASE k = c
      BY <1>1, <2>3, <3>1
    <3>2. CASE k \in S
      BY <1>1, <3>2
    <3> QED BY <2>1, <3>1, <3>2
  <2> QED BY <2>2, <2>4
<1>3. T \ {c} = Below(m, S, c)
  BY <1>1 DEF Column, Below
<1>4. Ring(m.down, m.up, T)
  BY <1>0
<1> HIDE DEF T
<1>5. Visits(walk(m.down, c), c, T) /\ walk(m.up, c) = Reverse(walk(m.down, c))
  <2> DEFINE next == m.down
             prev == m.up
  <2>1. DOMAIN next = 0 .. K /\ DOMAIN prev = 0 .. K /\ Ring(next, prev, T) /\ K \in Nat
    BY <1>1, <1>4
  <2> HIDE DEF next, prev
  <2>2. Visits(walk(next, c), c, T) /\ walk(prev, c) = Reverse(walk(next, c))
    BY <1>2, <2>1, WalkRing
  <2> QED BY <2>2 DEF next, prev
<1>6. ASSUME NEW e, Frame(e, K, J), Ring(e.down, e.up, T)
      PROVE  walk(e.down, c) = walk(m.down, c) /\ e.down[c] = m.down[c]
  <2>1. DOMAIN e.down = 0 .. K /\ DOMAIN e.up = 0 .. K
    BY <1>6 DEF Frame, Matrices
  <2>2. walk(e.down, c) = walk(m.down, c)
    BY <1>1, <1>2, <1>4, <1>6, <2>1, WalkSame
  <2>3. T \in SUBSET Nat
    BY <1>2
  <2>4. e.down[c] = m.down[c]
    BY <1>2, <1>4, <1>6, <2>3, RingUnique
  <2> QED BY <2>2, <2>4
<1> QED BY <1>3, <1>5, <1>6 DEF T

\* What is hidden when a column is covered.
Hid(m, seq, k) == UNION {Mates(m, seq[i]) : i \in 1 .. k}

\* One more row of the loop of cover hides the other nodes of one more option.
LEMMA HidStep ==
  ASSUME NEW m, NEW seq, NEW k \in Nat, k # 0
  PROVE  Hid(m, seq, k) = Hid(m, seq, k - 1) \cup Mates(m, seq[k])
<1>1. \A i \in 1 .. k : i \in 1 .. k - 1 \/ i = k
  OBVIOUS
<1>2. \A i \in 1 .. k - 1 : i \in 1 .. k
  OBVIOUS
<1>3. k \in 1 .. k
  OBVIOUS
<1> QED BY <1>1, <1>2, <1>3 DEF Hid

\* After k rows of the loop of cover, d is what unlink left.
CoverLoop(at, d, m, K, J, F, seq, k) ==
  /\ Rolled(at[k], d, K, J)
  /\ Vert(at[k], F, Kept(m, K, J, F) \ Hid(m, seq, k))
  /\ k # 0 => showRow(at[k], seq[k]) = at[k - 1]

\* The loop of cover keeps its invariant.
LEMMA CoverStep ==
  ASSUME NEW K, NEW J, NEW m, NEW F, Frame(m, K, J), F \in SUBSET (1 .. J), NEW c \in F,
         NEW d, Frame(d, K, J), Like(d, m, K, J),
         NEW seq, Visits(seq, c, Column(m, Kept(m, K, J, F), c)),
         NEW k \in 1 .. Len(seq), NEW at, at[k] = hideRow(at[k - 1], seq[k]),
         CoverLoop(at, d, m, K, J, F, seq, k - 1)
  PROVE  CoverLoop(at, d, m, K, J, F, seq, k)
<1> DEFINE S == Kept(m, K, J, F)
           r == seq[k]
           e == at[k - 1]
           S1 == S \ Hid(m, seq, k - 1)
<1>0. K \in Nat /\ J \in 0 .. K /\ c \in 1 .. J /\ S \in SUBSET (J + 1 .. K)
  BY DEF Frame, Kept
<1>1. \A i \in 1 .. Len(seq) : seq[i] \in S /\ m.col[seq[i]] = c
  <2>1. \A i \in 1 .. Len(seq) : seq[i] \in Column(m, S, c) \ {c}
    <3>1. seq \in Seq(Column(m, S, c) \ {c})
      BY DEF Visits
    <3> QED BY <3>1
  <2> QED BY <2>1 DEF Column, Below
<1>2. r \in J + 1 .. K /\ r \in S /\ m.col[r] = c
  BY <1>0, <1>1
<1>3. ASSUME NEW i \in Mates(m, r)
      PROVE  i \in S1 /\ m.col[i] \in F
  <2>1. i \in RowOf(m, r) /\ i \in J + 1 .. K /\ RowOf(m, i) = RowOf(m, r)
    BY <1>2, RowColumns, SameRow
  <2>2. i \in S /\ m.col[i] \in F
    BY <1>2, <2>1 DEF Kept
  <2>3. i \notin Hid(m, seq, k - 1)
    <3> SUFFICES ASSUME NEW j \in 1 .. k - 1, i \in Mates(m, seq[j]) PROVE FALSE
      BY DEF Hid
    <3>1. j \in 1 .. Len(seq) /\ j < k
      OBVIOUS
    <3>2. seq[j] \in J + 1 .. K /\ m.col[seq[j]] = c
      BY <1>0, <1>1, <3>1
    <3>3. i \in RowOf(m, seq[j]) /\ RowOf(m, i) = RowOf(m, seq[j])
      BY <3>2, RowColumns, SameRow
    <3>4. seq[j] \in RowOf(m, r)
      BY <2>1, <3>2, <3>3, RowColumns
    <3>5. seq[j] = r
      BY <1>2, <3>2, <3>4, SameRow
    <3>6. seq[j] < seq[k]
      BY <3>1 DEF Visits
    <3>7. r \in Int
      BY <1>0, <1>2
    <3> QED BY <3>5, <3>6, <3>7
  <2> QED BY <2>2, <2>3
<1>4. Rolled(e, d, K, J) /\ Vert(e, F, S1)
  BY DEF CoverLoop
<1>5. /\ Frame(e, K, J)
      /\ Mates(e, r) = Mates(m, r)
      /\ e.col = m.col
  <2>1. d \in Matrices(0 .. K, 0 .. J)
    BY DEF Frame
  <2>2. Mates(d, r) = Mates(m, r)
    BY <1>2, <2>1, FrameSame
  <2>3. Frame(e, K, J) /\ Mates(e, r) = Mates(d, r)
    BY <1>2, <1>4, RolledFrame
  <2> QED BY <1>4, <2>2, <2>3 DEF Rolled, Like
<1>6. S1 \in SUBSET (J + 1 .. K) /\ Mates(e, r) \subseteq S1 /\ \A i \in Mates(e, r) : e.col[i] \in F
  BY <1>0, <1>3, <1>5
<1>7. S \ Hid(m, seq, k) = S1 \ Mates(e, r)
  <2>1. k \in Nat /\ k # 0
    OBVIOUS
  <2>2. Hid(m, seq, k) = Hid(m, seq, k - 1) \cup Mates(m, r)
    BY <2>1, HidStep
  <2> QED BY <1>5, <2>2
<1>8. at[k] = hideRow(e, r)
  OBVIOUS
<1>11. F \in SUBSET (1 .. J)
  OBVIOUS
<1> HIDE DEF S, S1, e, r
<1>9. /\ Rolled(at[k], e, K, J)
      /\ Vert(at[k], F, S1 \ Mates(e, r))
      /\ showRow(at[k], r) = e
  <2>1. /\ Frame(e, K, J) /\ F \in SUBSET (1 .. J) /\ S1 \in SUBSET (J + 1 .. K)
        /\ Vert(e, F, S1) /\ r \in J + 1 .. K
        /\ Mates(e, r) \subseteq S1 /\ \A i \in Mates(e, r) : e.col[i] \in F
    BY <1>2, <1>4, <1>5, <1>6, <1>11
  <2>2. ToHide(e, K, J, F, S1, r)
    BY <2>1 DEF ToHide
  <2>3. /\ Rolled(hideRow(e, r), e, K, J)
        /\ Vert(hideRow(e, r), F, S1 \ Mates(e, r))
        /\ showRow(hideRow(e, r), r) = e
    BY <2>2, HideRow, SMTT(60)
  <2> QED BY <1>8, <2>3
<1>10. Rolled(at[k], d, K, J)
  BY <1>4, <1>9 DEF Rolled
<1> QED BY <1>7, <1>9, <1>10 DEF CoverLoop, S, S1, e, r

\* cover takes a column and the options through it out of a matrix, leaves
\* everything else linked, and uncover restores the matrix it was applied to
\* (sudoku_dancing_links.cpp:170-194).
LEMMA Cover ==
  ASSUME NEW K, NEW J, NEW m, NEW F, Linked(m, K, J, F), NEW c \in F
  PROVE  /\ Linked(cover(m, c), K, J, F \ {c})
         /\ Like(cover(m, c), m, K, J)
         /\ Ring(cover(m, c).down, cover(m, c).up, Column(m, Kept(m, K, J, F), c))
         /\ uncover(cover(m, c), c) = m
<1> DEFINE S == Kept(m, K, J, F)
           T == Column(m, S, c)
           d == unlink(m, c)
           seq == walk(m.down, c)
           L == Len(seq)
<1>0. /\ K \in Nat /\ J \in 0 .. K /\ F \in SUBSET (1 .. J) /\ c \in 1 .. J
      /\ S \in SUBSET (J + 1 .. K)
      /\ Frame(m, K, J) /\ Ring(m.down, m.up, T)
      /\ Vert(m, F, S)
  BY DEF Linked, Frame, Kept, Vert, Column
<1>1. /\ Frame(d, K, J) /\ Like(d, m, K, J) /\ Horiz(d, F \ {c}) /\ Vert(d, F, S)
      /\ relink(d, c) = m
  BY Unlink
<1>2. Visits(seq, c, T) /\ T \ {c} = Below(m, S, c)
  <2> HIDE DEF S
  <2>1. Ring(m.down, m.up, Column(m, S, c))
    BY <1>0
  <2>2. Frame(m, K, J) /\ S \in SUBSET (J + 1 .. K) /\ c \in 1 .. J
    BY <1>0
  <2>3. IsColumn(m, K, J, S, c)
    BY <2>1, <2>2 DEF IsColumn
  <2>4. Visits(walk(m.down, c), c, Column(m, S, c)) /\ Column(m, S, c) \ {c} = Below(m, S, c)
    BY <2>3, ColumnWalk
  <2> QED BY <2>4
<1> HIDE DEF S, T, d, seq
<1>3. L \in Nat /\ DOMAIN seq = 1 .. L
  <2>1. seq \in Seq(T \ {c})
    BY <1>2 DEF Visits
  <2> QED BY <2>1
<1>4. PICK at : /\ at[0] = d
                /\ \A k \in 1 .. Len(seq) : at[k] = hideRow(at[k - 1], seq[k])
                /\ at[Len(seq)] = FoldLeft(hideRow, d, seq)
  BY <1>3, FoldHideRow
<1> HIDE DEF L
<1> DEFINE Holds == {k \in 0 .. L : CoverLoop(at, d, m, K, J, F, seq, k)}
<1>5. \A k \in 0 .. L : CoverLoop(at, d, m, K, J, F, seq, k)
  <2>1. 0 \in Holds
    <3>1. Hid(m, seq, 0) = {}
      BY DEF Hid
    <3>2. S \ Hid(m, seq, 0) = S
      BY <3>1
    <3>3. Rolled(d, d, K, J)
      BY <1>1 DEF Rolled, Frame
    <3>4. CoverLoop(at, d, m, K, J, F, seq, 0)
      BY <1>1, <1>4, <3>2, <3>3 DEF CoverLoop, S
    <3> QED BY <1>3, <3>4
  <2>2. ASSUME NEW k \in 1 .. L, k - 1 \in Holds PROVE k \in Holds
    <3>1. k \in 1 .. Len(seq) /\ at[k] = hideRow(at[k - 1], seq[k])
      BY <1>4 DEF L
    <3>2. CoverLoop(at, d, m, K, J, F, seq, k - 1)
      BY <2>2
    <3>3. CoverLoop(at, d, m, K, J, F, seq, k)
      BY <1>0, <1>1, <1>2, <3>1, <3>2, CoverStep DEF S, T
    <3>4. k \in 0 .. L
      BY <1>3
    <3> QED BY <3>3, <3>4
  <2> HIDE DEF Holds
  <2>3. \A k \in 0 .. L : k \in Holds
    BY <1>3, <2>1, <2>2, StepByStep
  <2> QED BY <2>3 DEF Holds
<1> HIDE DEF Holds
<1> DEFINE e == cover(m, c)
           H == Hid(m, seq, L)
<1>6. e = at[L]
  <2>1. e = FoldLeft(hideRow, d, seq)
    BY DEF cover, unlink, d, seq
  <2> HIDE DEF e
  <2> QED BY <1>4, <2>1 DEF L
<1> HIDE DEF e
<1>7. Rolled(e, d, K, J) /\ Vert(e, F, S \ H)
  <2>1. L \in 0 .. L
    BY <1>3
  <2>2. CoverLoop(at, d, m, K, J, F, seq, L)
    BY <1>5, <2>1
  <2> QED BY <1>6, <2>2 DEF CoverLoop, S
<1>8. /\ Frame(e, K, J) /\ e.col = m.col /\ Like(e, m, K, J)
      /\ \A n \in J + 1 .. K : RowOf(e, n) = RowOf(m, n)
  <2>1. Like(e, m, K, J) /\ e \in Matrices(0 .. K, 0 .. J) /\ e.col = m.col
    BY <1>1, <1>7 DEF Like, Rolled
  <2> QED BY <1>0, <2>1, FrameSame
<1>9. \A n \in S : m.col[n] = c <=> \E j \in 1 .. L : seq[j] = n
  <2>1. ToSet(seq) = Below(m, S, c)
    BY <1>2 DEF Visits
  <2>2. ToSet(seq) = {seq[j] : j \in 1 .. L}
    BY <1>3 DEF ToSet
  <2> QED BY <2>1, <2>2 DEF Below
<1>10. \A j \in 1 .. L : seq[j] \in S /\ m.col[seq[j]] = c /\ seq[j] \in J + 1 .. K
  <2>1. ToSet(seq) = Below(m, S, c)
    BY <1>2 DEF Visits
  <2>2. \A j \in 1 .. L : seq[j] \in Below(m, S, c)
    BY <1>3, <2>1 DEF ToSet
  <2> QED BY <1>0, <2>2 DEF Below
<1>11. \A n : n \in H <=> \E j \in 1 .. L : n \in Mates(m, seq[j])
  BY DEF Hid
<1> HIDE DEF H
<1>12. ASSUME NEW n \in S, m.col[n] = c PROVE n \notin H
  <2> SUFFICES ASSUME NEW j \in 1 .. L, n \in Mates(m, seq[j]) PROVE FALSE
    BY <1>11
  <2>1. n \in RowOf(m, seq[j]) /\ seq[j] \in J + 1 .. K
    BY <1>0, <1>10, RowColumns
  <2>2. n = seq[j]
    BY <1>0, <1>10, <1>12, <2>1, SameRow
  <2> QED BY <1>0, <2>1, <2>2, SameRow
<1>13. Ring(e.down, e.up, T)
  <2>1. Below(e, S \ H, c) = Below(m, S, c)
    BY <1>8, <1>12 DEF Below
  <2>2. Ring(e.down, e.up, {c} \cup Below(e, S \ H, c))
    BY <1>7 DEF Vert
  <2> QED BY <2>1, <2>2 DEF T, Column
<1> DEFINE S1 == Kept(e, K, J, F \ {c})
<1>14. \A n \in J + 1 .. K : n \in S1 <=> \A i \in RowOf(m, n) : m.col[i] \in F /\ m.col[i] # c
  BY <1>8 DEF Kept
<1>15. \A n \in J + 1 .. K : n \in S <=> \A i \in RowOf(m, n) : m.col[i] \in F
  BY DEF Kept, S
<1>16. S1 \in SUBSET (J + 1 .. K)
  BY DEF Kept
<1> HIDE DEF S1
<1>17. ASSUME NEW b \in F \ {c} PROVE Below(e, S \ H, b) = Below(e, S1, b)
  <2>1. ASSUME NEW n \in S \ H, m.col[n] = b PROVE n \in S1
    <3>0. n \in J + 1 .. K
      BY <1>0
    <3> SUFFICES ASSUME NEW i \in RowOf(m, n), m.col[i] = c PROVE FALSE
      BY <1>14, <1>15, <3>0
    <3>1. i \in J + 1 .. K /\ RowOf(m, i) = RowOf(m, n) /\ n \in RowOf(m, i)
      BY <1>0, <3>0, SameRow
    <3>2. i \in S
      BY <1>15, <3>0, <3>1
    <3>3. PICK j \in 1 .. L : seq[j] = i
      BY <1>9, <3>2
    <3>4. n # i
      BY <2>1
    <3>5. n \in Mates(m, i)
      BY <1>0, <3>1, <3>4, SameRow
    <3> QED BY <1>11, <3>3, <3>5
  <2>2. ASSUME NEW n \in S1, m.col[n] = b PROVE n \in S \ H
    <3>0. n \in J + 1 .. K
      BY <1>16
    <3>1. n \in S
      BY <1>14, <1>15, <3>0
    <3>2. n \notin H
      <4> SUFFICES ASSUME NEW j \in 1 .. L, n \in Mates(m, seq[j]) PROVE FALSE
        BY <1>11
      <4>1. n \in RowOf(m, seq[j]) /\ seq[j] \in J + 1 .. K /\ m.col[seq[j]] = c
        BY <1>0, <1>10, RowColumns
      <4>2. seq[j] \in RowOf(m, n)
        BY <1>0, <4>1, SameRow, RowColumns
      <4> QED BY <1>14, <3>0, <4>1, <4>2
    <3> QED BY <3>1, <3>2
  <2> QED BY <1>8, <2>1, <2>2 DEF Below
<1>18. Vert(e, F \ {c}, S1)
  <2>1. ASSUME NEW b \in F \ {c}
        PROVE  /\ Ring(e.down, e.up, {b} \cup Below(e, S1, b))
               /\ e.size[b] = Cardinality(Below(e, S1, b))
    <3>1. /\ Ring(e.down, e.up, {b} \cup Below(e, S \ H, b))
          /\ e.size[b] = Cardinality(Below(e, S \ H, b))
      BY <1>7 DEF Vert
    <3>2. Below(e, S \ H, b) = Below(e, S1, b)
      BY <1>17
    <3> QED BY <3>1, <3>2
  <2> QED BY <2>1 DEF Vert
<1>19. Linked(e, K, J, F \ {c})
  <2>1. Horiz(e, F \ {c})
    BY <1>1, <1>7 DEF Horiz, Rolled
  <2>2. F \ {c} \in SUBSET (1 .. J)
    BY <1>0
  <2> QED BY <1>8, <1>18, <2>1, <2>2 DEF Linked, S1
<1>20. uncover(e, c) = m
  <2> DEFINE rev == Reverse(seq)
  <2>1. walk(e.up, c) = rev
    <3>1. Frame(e, K, J) /\ Ring(e.down, e.up, Column(m, S, c)) /\ Column(e, S, c) = Column(m, S, c)
      BY <1>8, <1>13 DEF T, Column, Below
    <3>0. Ring(m.down, m.up, Column(m, S, c))
      BY <1>0 DEF T
    <3>2. Frame(m, K, J) /\ S \in SUBSET (J + 1 .. K) /\ c \in 1 .. J
      BY <1>0
    <3>3. walk(e.down, c) = walk(m.down, c)
      <4>1. IsColumn(m, K, J, S, c)
        BY <3>0, <3>2 DEF IsColumn
      <4> QED BY <3>1, <4>1, ColumnWalk
    <3>4. Ring(e.down, e.up, Column(e, S, c))
      BY <3>1
    <3>5. walk(e.up, c) = Reverse(walk(e.down, c))
      <4>1. IsColumn(e, K, J, S, c)
        BY <3>1, <3>2, <3>4 DEF IsColumn
      <4> QED BY <4>1, ColumnWalk
    <3> QED BY <3>3, <3>5 DEF seq
  <2>2. Len(rev) = L /\ DOMAIN rev = 1 .. L /\ \A k \in 1 .. L : rev[k] = seq[(L - k) + 1]
    BY <1>3 DEF Reverse, L
  <2> HIDE DEF rev
  <2>3. PICK bt : /\ bt[0] = e
                  /\ \A k \in 1 .. Len(rev) : bt[k] = showRow(bt[k - 1], rev[k])
                  /\ bt[Len(rev)] = FoldLeft(showRow, e, rev)
    <3>1. Len(rev) \in Nat /\ DOMAIN rev = 1 .. Len(rev)
      BY <1>3, <2>2
    <3> QED BY <3>1, FoldShowRow
  <2> DEFINE Back == {k \in 0 .. L : bt[k] = at[L - k]}
  <2>4. 0 \in Back
    BY <1>3, <1>6, <2>3
  <2>5. ASSUME NEW k \in 1 .. L, k - 1 \in Back PROVE k \in Back
    <3>0. k \in 0 .. L /\ (L - k) + 1 \in 1 .. L /\ (L - k) + 1 \in 0 .. L /\ (L - k) + 1 # 0
          /\ L - (k - 1) = (L - k) + 1 /\ ((L - k) + 1) - 1 = L - k
      BY <1>3
    <3>1. bt[k] = showRow(bt[k - 1], rev[k]) /\ rev[k] = seq[(L - k) + 1]
      BY <2>2, <2>3
    <3>2. bt[k - 1] = at[(L - k) + 1]
      BY <2>5, <3>0
    <3>3. showRow(at[(L - k) + 1], seq[(L - k) + 1]) = at[L - k]
      <4>1. CoverLoop(at, d, m, K, J, F, seq, (L - k) + 1)
        BY <1>5, <3>0
      <4> QED BY <3>0, <4>1 DEF CoverLoop
    <3> QED BY <3>0, <3>1, <3>2, <3>3
  <2> HIDE DEF Back
  <2>6. \A k \in 0 .. L : k \in Back
    BY <1>3, <2>4, <2>5, StepByStep
  <2>7. bt[L] = d
    <3>1. L \in Back /\ L - L = 0
      BY <1>3, <2>6
    <3> QED BY <1>4, <3>1 DEF Back
  <2>8. FoldLeft(showRow, e, walk(e.up, c)) = d
    BY <2>1, <2>2, <2>3, <2>7
  <2>9. uncover(e, c) = [d EXCEPT !.left[e.right[c]] = c, !.right[e.left[c]] = c]
    BY <2>8 DEF uncover
  <2>10. e.right = d.right /\ e.left = d.left
    BY <1>7 DEF Rolled
  <2>11. uncover(e, c) = relink(d, c)
    BY <2>9, <2>10 DEF relink
  <2> QED BY <1>1, <2>11
<1> QED BY <1>8, <1>13, <1>19, <1>20 DEF e, T, S

\* The same for the column of a node.
LEMMA CoverOne ==
  ASSUME NEW K, NEW J, NEW m, NEW F, Linked(m, K, J, F), NEW n, m.col[n] \in F
  PROVE  /\ Linked(coverAt(m, n), K, J, F \ {m.col[n]})
         /\ Like(coverAt(m, n), m, K, J)
         /\ uncoverAt(coverAt(m, n), n) = m
<1> DEFINE c == m.col[n]
           e == cover(m, c)
<1>1. Linked(e, K, J, F \ {c}) /\ Like(e, m, K, J) /\ uncover(e, c) = m
  BY Cover
<1>2. e = coverAt(m, n)
  BY DEF coverAt
<1>3. e.col = m.col
  BY <1>1 DEF Like
<1> HIDE DEF e
<1>4. uncoverAt(e, n) = m
  BY <1>1, <1>3 DEF uncoverAt
<1> QED BY <1>1, <1>2, <1>4

\* Options that stay as they are twice stay as they are.
LEMMA LikeThrough ==
  ASSUME NEW K, NEW J, NEW m, NEW e, NEW f, Like(e, m, K, J), Like(f, e, K, J)
  PROVE  Like(f, m, K, J)
BY DEF Like

\* The columns of the other nodes of an option.
Others(m, n) == {m.col[i] : i \in Mates(m, n)}

\* Covering the other columns of an option from left to right, and uncovering
\* them from right to left, restores the matrix (sudoku_dancing_links.cpp:221-230).
LEMMA CoverOption ==
  ASSUME NEW K, NEW J, NEW m, NEW F, Linked(m, K, J, F),
         NEW r \in J + 1 .. K, Others(m, r) \subseteq F
  PROVE  LET e == coverAll(m, walk(m.right, r))
         IN  /\ Linked(e, K, J, F \ Others(m, r))
             /\ Like(e, m, K, J)
             /\ uncoverAll(e, walk(e.left, r)) = m
<1>0. Frame(m, K, J)
  BY DEF Linked
<1>1. PICK a, b, c \in J + 1 .. K : IsOption(m, J, r, a, b, c)
  BY <1>0, Option
<1>2. /\ m.right[r] = a /\ m.right[a] = b /\ m.right[b] = c
      /\ m.col[a] # m.col[b] /\ m.col[a] # m.col[c] /\ m.col[b] # m.col[c]
      /\ Mates(m, r) = {a, b, c} /\ walk(m.right, r) = <<a, b, c>>
  BY <1>1 DEF IsOption
<1>3. m.col[a] \in F /\ m.col[b] \in F /\ m.col[c] \in F
  BY <1>2 DEF Others
<1> DEFINE e1 == coverAt(m, a)
           e2 == coverAt(e1, b)
           e3 == coverAt(e2, c)
           F1 == F \ {m.col[a]}
           F2 == F1 \ {m.col[b]}
           F3 == F2 \ {m.col[c]}
<1>4. F3 = F \ Others(m, r) /\ m.col[b] \in F1 /\ m.col[c] \in F2
  BY <1>2, <1>3 DEF Others
<1> HIDE DEF F1, F2, F3
<1>5. Linked(e1, K, J, F1) /\ Like(e1, m, K, J) /\ uncoverAt(e1, a) = m /\ e1.col = m.col
  <2>1. Linked(e1, K, J, F1) /\ Like(e1, m, K, J) /\ uncoverAt(e1, a) = m
    BY <1>3, CoverOne DEF F1
  <2> HIDE DEF e1
  <2> QED BY <2>1 DEF Like
<1> HIDE DEF e1
<1>6. /\ Linked(e2, K, J, F2) /\ Like(e2, e1, K, J) /\ uncoverAt(e2, b) = e1 /\ e2.col = m.col
  <2>1. e1.col[b] \in F1 /\ F1 \ {e1.col[b]} = F2
    BY <1>4, <1>5 DEF F2
  <2>2. Linked(e2, K, J, F2) /\ Like(e2, e1, K, J) /\ uncoverAt(e2, b) = e1
    BY <1>5, <2>1, CoverOne
  <2> HIDE DEF e2
  <2> QED BY <1>5, <2>2 DEF Like
<1> HIDE DEF e2
<1>7. /\ Linked(e3, K, J, F3) /\ Like(e3, e2, K, J) /\ uncoverAt(e3, c) = e2 /\ e3.col = m.col
  <2>1. e2.col[c] \in F2 /\ F2 \ {e2.col[c]} = F3
    BY <1>4, <1>6 DEF F3
  <2>2. Linked(e3, K, J, F3) /\ Like(e3, e2, K, J) /\ uncoverAt(e3, c) = e2
    BY <1>6, <2>1, CoverOne
  <2> HIDE DEF e3
  <2> QED BY <1>6, <2>2 DEF Like
<1> HIDE DEF e3
<1>8. Like(e3, m, K, J)
  BY <1>5, <1>6, <1>7, LikeThrough
<1>9. coverAll(m, walk(m.right, r)) = e3
  <2> DEFINE seq == <<a, b, c>>
  <2>1. /\ Len(seq) = 3 /\ Len(seq) \in Nat /\ DOMAIN seq = 1 .. Len(seq)
        /\ seq[1] = a /\ seq[2] = b /\ seq[3] = c
        /\ 1 \in 1 .. Len(seq) /\ 2 \in 1 .. Len(seq) /\ 3 \in 1 .. Len(seq)
    OBVIOUS
  <2> HIDE DEF seq
  <2>2. PICK at : /\ at[0] = m
                  /\ \A k \in 1 .. Len(seq) : at[k] = coverAt(at[k - 1], seq[k])
                  /\ at[Len(seq)] = FoldLeft(coverAt, m, seq)
    BY <2>1, FoldCover
  <2>3. at[1] = coverAt(at[0], a) /\ at[2] = coverAt(at[1], b) /\ at[3] = coverAt(at[2], c)
    <3>1. at[1] = coverAt(at[1 - 1], seq[1]) /\ at[2] = coverAt(at[2 - 1], seq[2])
          /\ at[3] = coverAt(at[3 - 1], seq[3])
      BY <2>1, <2>2
    <3> QED BY <2>1, <3>1
  <2>4. at[3] = e3
    BY <2>2, <2>3 DEF e1, e2, e3
  <2>5. coverAll(m, walk(m.right, r)) = FoldLeft(coverAt, m, seq)
    BY <1>2 DEF coverAll, seq
  <2> QED BY <2>1, <2>2, <2>4, <2>5
<1>10. walk(e3.left, r) = <<c, b, a>>
  <2>1. Frame(e3, K, J)
    BY <1>7 DEF Linked
  <2>2. PICK x, y, z \in J + 1 .. K : IsOption(e3, J, r, x, y, z)
    BY <2>1, Option
  <2>3. e3.right[r] = x /\ e3.right[x] = y /\ e3.right[y] = z /\ walk(e3.left, r) = <<z, y, x>>
    BY <2>2 DEF IsOption
  <2>4. \A n \in J + 1 .. K : e3.right[n] = m.right[n]
    BY <1>8 DEF Like
  <2>5. x = a /\ y = b /\ z = c
    BY <1>2, <2>3, <2>4
  <2> QED BY <2>3, <2>5
<1>11. uncoverAll(e3, walk(e3.left, r)) = m
  <2> DEFINE seq == <<c, b, a>>
  <2>1. /\ Len(seq) = 3 /\ Len(seq) \in Nat /\ DOMAIN seq = 1 .. Len(seq)
        /\ seq[1] = c /\ seq[2] = b /\ seq[3] = a
        /\ 1 \in 1 .. Len(seq) /\ 2 \in 1 .. Len(seq) /\ 3 \in 1 .. Len(seq)
    OBVIOUS
  <2>0. walk(e3.left, r) = seq
    BY <1>10
  <2> HIDE DEF seq
  <2>2. PICK at : /\ at[0] = e3
                  /\ \A k \in 1 .. Len(seq) : at[k] = uncoverAt(at[k - 1], seq[k])
                  /\ at[Len(seq)] = FoldLeft(uncoverAt, e3, seq)
    BY <2>1, FoldUncover
  <2>3. at[1] = uncoverAt(at[0], c) /\ at[2] = uncoverAt(at[1], b) /\ at[3] = uncoverAt(at[2], a)
    <3>1. at[1] = uncoverAt(at[1 - 1], seq[1]) /\ at[2] = uncoverAt(at[2 - 1], seq[2])
          /\ at[3] = uncoverAt(at[3 - 1], seq[3])
      BY <2>1, <2>2
    <3> QED BY <2>1, <3>1
  <2>4. at[3] = m
    BY <1>5, <1>6, <1>7, <2>2, <2>3
  <2>5. uncoverAll(e3, walk(e3.left, r)) = FoldLeft(uncoverAt, e3, seq)
    BY <2>0 DEF uncoverAll
  <2> QED BY <2>1, <2>2, <2>4, <2>5
<1>12. Linked(e3, K, J, F \ Others(m, r))
  BY <1>4, <1>7
<1> QED BY <1>8, <1>9, <1>11, <1>12

-----------------------------------------------------------------------------
(***************************************************************************)
(* Choosing an option: its other columns are covered and uncovered in      *)
(* reverse.                                                                *)
(***************************************************************************)
\* The columns of the option of a node.
Columns(m, n) == {m.col[i] : i \in RowOf(m, n)}

\* Options, their columns and what is kept of them depend on the places of the
\* nodes only.
LEMMA LikeRows ==
  ASSUME NEW K, NEW J, NEW m, NEW e, Frame(m, K, J), Frame(e, K, J), Like(e, m, K, J)
  PROVE  /\ \A n \in J + 1 .. K : /\ RowOf(e, n) = RowOf(m, n)
                                  /\ Columns(e, n) = Columns(m, n)
                                  /\ Others(e, n) = Others(m, n)
         /\ \A F : Kept(e, K, J, F) = Kept(m, K, J, F)
         /\ \A S, c : Column(e, S, c) = Column(m, S, c) /\ Below(e, S, c) = Below(m, S, c)
<1>1. e \in Matrices(0 .. K, 0 .. J) /\ e.col = m.col
  BY DEF Frame, Like
<1>2. \A n \in J + 1 .. K : RowOf(e, n) = RowOf(m, n) /\ Mates(e, n) = Mates(m, n)
  BY <1>1, FrameSame
<1>3. \A n \in J + 1 .. K : Columns(e, n) = Columns(m, n) /\ Others(e, n) = Others(m, n)
  BY <1>1, <1>2 DEF Columns, Others
<1>4. \A F : Kept(e, K, J, F) = Kept(m, K, J, F)
  BY <1>1, <1>2 DEF Kept
<1>5. \A S, c : Column(e, S, c) = Column(m, S, c) /\ Below(e, S, c) = Below(m, S, c)
  BY <1>1 DEF Column, Below
<1> QED BY <1>2, <1>3, <1>4, <1>5

\* An option is kept if none of its columns is covered.
LEMMA KeptColumns ==
  ASSUME NEW K, NEW J, NEW m, Frame(m, K, J), NEW F, NEW n \in J + 1 .. K
  PROVE  /\ n \in Kept(m, K, J, F) <=> Columns(m, n) \subseteq F
         /\ Columns(m, n) = {m.col[n]} \cup Others(m, n)
         /\ m.col[n] \notin Others(m, n)
         /\ Columns(m, n) \subseteq 1 .. J
<1>1. PICK a, b, c \in J + 1 .. K : IsOption(m, J, n, a, b, c)
  BY Option
<1>2. /\ m.col[a] # m.col[n] /\ m.col[b] # m.col[n] /\ m.col[c] # m.col[n]
      /\ \A i \in {n, a, b, c} : m.col[i] \in 1 .. J
      /\ Mates(m, n) = {a, b, c} /\ RowOf(m, n) = {n, a, b, c}
  BY <1>1 DEF IsOption
<1>3. Columns(m, n) = {m.col[n], m.col[a], m.col[b], m.col[c]}
  BY <1>2 DEF Columns
<1>4. Others(m, n) = {m.col[a], m.col[b], m.col[c]}
  BY <1>2 DEF Others
<1>5. n \in Kept(m, K, J, F) <=> Columns(m, n) \subseteq F
  BY <1>2, <1>3 DEF Kept
<1> QED BY <1>2, <1>3, <1>4, <1>5

\* The root is alone when no column is left.
LEMMA RootAlone ==
  ASSUME NEW K, NEW J, NEW m, NEW F, Linked(m, K, J, F)
  PROVE  m.left[0] = 0 <=> F = {}
<1> DEFINE T == {0} \cup F
<1>1. Ring(m.right, m.left, T) /\ F \in SUBSET (1 .. J) /\ J \in Nat
  BY DEF Linked, Horiz, Frame
<1>2. CASE F = {}
  <2>1. T = {0}
    BY <1>2
  <2>2. m.left[0] \in T
    BY <1>1, <2>1 DEF Ring
  <2> QED BY <1>2, <2>1, <2>2
<1>3. CASE F # {}
  <2>1. PICK c \in F : TRUE
    BY <1>3
  <2>2. 0 \in T /\ c \in T /\ 0 < c
    BY <1>1, <2>1
  <2>3. 0 < m.right[0] /\ m.right[m.left[0]] = 0
    BY <1>1, <2>2 DEF Ring
  <2> QED BY <1>3, <2>3
<1> QED BY <1>2, <1>3

\* get_min_column finds a column that is not covered
\* (sudoku_dancing_links.cpp:153-168).
LEMMA MinColumn ==
  ASSUME NEW K, NEW J, NEW m, NEW F, Linked(m, K, J, F), F # {}
  PROVE  get_min_column(m) \in F
<1> DEFINE T == {0} \cup F
           headers == walk(m.right, 0)
           sizes == {m.size[c] : c \in ToSet(headers)}
           few == Max({1, Min(sizes)})
           I == {i \in DOMAIN headers : m.size[headers[i]] <= few}
<1>1. /\ Ring(m.right, m.left, T) /\ F \in SUBSET (1 .. J) /\ J \in 0 .. K /\ K \in Nat
      /\ Vert(m, F, Kept(m, K, J, F))
      /\ DOMAIN m.right = 0 .. K /\ DOMAIN m.left = 0 .. K
  BY DEF Linked, Horiz, Frame, Matrices
<1>2. T \in SUBSET (0 .. K) /\ 0 \in T /\ \A k \in T : 0 <= k
  <2>1. \A k \in F : k \in 0 .. K /\ 0 <= k
    BY <1>1
  <2>2. 0 \in 0 .. K /\ 0 <= 0
    BY <1>1
  <2> QED BY <2>1, <2>2
<1>3. T \ {0} = F
  <2>1. 0 \notin F
    BY <1>1
  <2> QED BY <2>1
<1> HIDE DEF T
<1>4. Visits(headers, 0, T)
  BY <1>1, <1>2, WalkRing
<1> HIDE DEF headers
<1>5. headers \in Seq(F) /\ ToSet(headers) = F
  BY <1>3, <1>4 DEF Visits
<1>6. \A c \in F : m.size[c] \in Nat
  <2> SUFFICES ASSUME NEW c \in F PROVE m.size[c] \in Nat
    OBVIOUS
  <2>1. m.size[c] = Cardinality(Below(m, Kept(m, K, J, F), c))
    BY <1>1 DEF Vert
  <2>2. IsFiniteSet(0 .. K)
    <3>1. 0 \in Int /\ K \in Int
      BY <1>1
    <3> QED BY <3>1, FS_Interval, Zenon
  <2>3. Below(m, Kept(m, K, J, F), c) \in SUBSET (0 .. K)
    <3>1. \A n \in J + 1 .. K : n \in 0 .. K
      BY <1>1
    <3> QED BY <3>1 DEF Below, Kept
  <2>4. IsFiniteSet(Below(m, Kept(m, K, J, F), c))
    BY <2>2, <2>3, FS_Subset
  <2> QED BY <2>1, <2>4, FS_CardinalityType
<1>7. sizes \in SUBSET Nat /\ sizes # {}
  BY <1>5, <1>6
<1>8. Min(sizes) \in sizes
  <2> HIDE DEF sizes
  <2> QED BY <1>7, MinNumber
<1>9. PICK c \in F : m.size[c] = Min(sizes)
  BY <1>5, <1>8
<1> HIDE DEF sizes
<1>10. Min(sizes) <= few
  <2> DEFINE x == Min(sizes)
  <2>1. x \in Nat
    BY <1>7, <1>8
  <2> HIDE DEF x
  <2>2. {1, x} \in SUBSET (0 .. x + 1) /\ x + 1 \in Nat /\ x \in {1, x}
    BY <2>1
  <2>3. x <= Max({1, x})
    BY <2>2, MaxNumber
  <2> QED BY <2>3 DEF x
<1> HIDE DEF few
<1>11. DOMAIN headers \in SUBSET Nat /\ \A i \in DOMAIN headers : headers[i] \in F
  BY <1>5
<1>12. I # {}
  <2>1. PICK i \in DOMAIN headers : headers[i] = c
    BY <1>5, <1>9 DEF ToSet
  <2> QED BY <1>9, <1>10, <2>1
<1>13. I \in SUBSET Nat /\ I \subseteq DOMAIN headers
  BY <1>11
<1> HIDE DEF I
<1>14. Min(I) \in I
  BY <1>12, <1>13, MinNumber
<1>15. headers[Min(I)] \in F
  BY <1>11, <1>13, <1>14
<1>16. get_min_column(m) = headers[Min(I)]
  BY DEF get_min_column, I, few, sizes, headers
<1> QED BY <1>15, <1>16

-----------------------------------------------------------------------------
(***************************************************************************)
(* The search: a trail of matrices, one for every call of solve that is    *)
(* not done, each of which the next one's uncovering restores.             *)
(***************************************************************************)
\* The columns left when the first k - 1 options of the stack are chosen.
Free(m, J, stack, k) == (1 .. J) \ UNION {Columns(m, stack[i]) : i \in 1 .. k - 1}

\* M[k]: the matrix that the k-th call of solve finds, m for the first.
Level(M, m, K, J, stack, k) ==
  Linked(M[k], K, J, Free(m, J, stack, k)) /\ Like(M[k], m, K, J)

Chosen(M, m, K, J, stack, k) ==
  /\ stack[k] \in Kept(m, K, J, Free(m, J, stack, k))
  /\ LET e == cover(M[k], m.col[stack[k]])
     IN  M[k + 1] = coverAll(e, walk(e.right, stack[k]))

Trail(M, m, K, J, stack) ==
  /\ stack \in Seq(J + 1 .. K)
  /\ M[1] = m
  /\ \A k \in 1 .. Len(stack) + 1 : Level(M, m, K, J, stack, k)
  /\ \A k \in 1 .. Len(stack) : Chosen(M, m, K, J, stack, k)

InRow(d, M, m, K, J, k) ==
  /\ d.pc = "row"
  /\ \E c \in Free(m, J, d.stack, k) :
       /\ d.matrix = cover(M[k], c)
       /\ d.row \in Column(m, Kept(m, K, J, Free(m, J, d.stack, k)), c)

Position(d, M, m, K, J) ==
  \/ d.pc = "solve" /\ d.matrix = M[Len(d.stack) + 1]
  \/ InRow(d, M, m, K, J, Len(d.stack) + 1)
  \/ d.pc = "false" /\ d.stack = <<>> /\ d.matrix = m

IsDance(d) == d = [matrix |-> d.matrix, board |-> d.board, stack |-> d.stack,
                   row |-> d.row, pc |-> d.pc]

Searches(d, m, K, J) ==
  /\ IsDance(d)
  /\ Frame(m, K, J)
  /\ \E M : Trail(M, m, K, J, d.stack) /\ Position(d, M, m, K, J)

\* A Dance as a record of its parts,
LEMMA DanceParts ==
  ASSUME NEW d, IsDance(d)
  PROVE  \E a, b, e, f, g : d = [matrix |-> a, board |-> b, stack |-> e, row |-> f, pc |-> g]
BY DEF IsDance

\* and a record of these parts as a Dance.
LEMMA DanceOf ==
  ASSUME NEW d, NEW a, NEW b, NEW e, NEW f, NEW g,
         d = [matrix |-> a, board |-> b, stack |-> e, row |-> f, pc |-> g]
  PROVE  IsDance(d)
<1>1. d.matrix = a /\ d.board = b /\ d.stack = e /\ d.row = f /\ d.pc = g
  OBVIOUS
<1> QED BY <1>1, Zenon DEF IsDance

\* The columns left depend on the options chosen before,
LEMMA FreePrefix ==
  ASSUME NEW m, NEW J, NEW s, NEW t, NEW k \in Nat, \A i \in 1 .. k - 1 : s[i] = t[i]
  PROVE  Free(m, J, s, k) = Free(m, J, t, k)
BY DEF Free

\* and the next option takes its columns away.
LEMMA FreeNext ==
  ASSUME NEW m, NEW J, NEW s, NEW k \in Nat, k # 0
  PROVE  Free(m, J, s, k + 1) = Free(m, J, s, k) \ Columns(m, s[k])
<1>1. \A i \in 1 .. (k + 1) - 1 : i \in 1 .. k - 1 \/ i = k
  OBVIOUS
<1>2. \A i \in 1 .. k - 1 : i \in 1 .. (k + 1) - 1
  OBVIOUS
<1>3. k \in 1 .. (k + 1) - 1
  OBVIOUS
<1> QED BY <1>1, <1>2, <1>3 DEF Free

\* A new search has a trail of one matrix.
LEMMA SearchStarts ==
  ASSUME NEW d, NEW m, NEW K, NEW J, Linked(m, K, J, 1 .. J), IsDance(d),
         d.matrix = m, d.stack = <<>>, d.pc = "solve"
  PROVE  Searches(d, m, K, J)
<1> DEFINE M == [k \in 1 .. 1 |-> m]
<1>1. M[1] = m /\ Len(d.stack) = 0
  OBVIOUS
<1> HIDE DEF M
<1>2. Free(m, J, d.stack, 1) = 1 .. J
  <2>1. 1 .. 1 - 1 = {}
    OBVIOUS
  <2> QED BY <2>1 DEF Free
<1>3. Level(M, m, K, J, d.stack, 1)
  BY <1>1, <1>2 DEF Level, Like
<1>4. Trail(M, m, K, J, d.stack)
  <2>1. \A k \in 1 .. 0 + 1 : k = 1
    OBVIOUS
  <2>2. \A k \in 1 .. Len(d.stack) + 1 : Level(M, m, K, J, d.stack, k)
    BY <1>1, <1>3, <2>1
  <2>3. \A k \in 1 .. Len(d.stack) : Chosen(M, m, K, J, d.stack, k)
    BY <1>1
  <2>4. d.stack \in Seq(J + 1 .. K)
    OBVIOUS
  <2> QED BY <1>1, <2>2, <2>3, <2>4 DEF Trail
<1>5. Position(d, M, m, K, J)
  BY <1>1 DEF Position
<1>6. Frame(m, K, J)
  BY DEF Linked
<1> QED BY <1>4, <1>5, <1>6 DEF Searches

\* Covering the column with the fewest options keeps the trail.
LEMMA ChooseSearches ==
  ASSUME NEW d, NEW m, NEW K, NEW J, Searches(d, m, K, J), d.pc = "solve", ~allCovered(d)
  PROVE  Searches(choose(d), m, K, J)
<1>0. PICK M : Trail(M, m, K, J, d.stack) /\ Position(d, M, m, K, J)
  BY DEF Searches
<1> DEFINE k == Len(d.stack) + 1
           F == Free(m, J, d.stack, k)
           S == Kept(m, K, J, F)
           c == get_min_column(d.matrix)
           e == cover(d.matrix, c)
           x == choose(d)
<1>1. d.matrix = M[k] /\ k \in 1 .. k
  <2>1. Len(d.stack) \in Nat
    BY <1>0 DEF Trail
  <2> QED BY <1>0, <2>1 DEF Position, InRow
<1>2. Linked(M[k], K, J, F) /\ Like(M[k], m, K, J)
  BY <1>0, <1>1 DEF Trail, Level
<1>3. c \in F
  <2>1. F # {}
    BY <1>1, <1>2, RootAlone DEF allCovered
  <2> HIDE DEF F
  <2> QED BY <1>1, <1>2, <2>1, MinColumn
<1>4. e.down[c] \in Column(m, S, c)
  <2>1. Ring(e.down, e.up, Column(M[k], Kept(M[k], K, J, F), c))
    BY <1>1, <1>2, <1>3, Cover
  <2>2. Column(M[k], Kept(M[k], K, J, F), c) = Column(m, S, c)
    BY <1>2, LikeRows DEF Linked, Searches
  <2>3. c \in Column(m, S, c)
    BY DEF Column
  <2> HIDE DEF e, c, S
  <2> QED BY <2>1, <2>2, <2>3 DEF Ring
<1>5. x.matrix = e /\ x.row = e.down[c] /\ x.pc = "row" /\ x.stack = d.stack /\ IsDance(x)
  <2>1. x = [d EXCEPT !.matrix = e, !.row = e.down[c], !.pc = "row"]
    BY DEF choose
  <2>2. IsDance(d)
    BY DEF Searches
  <2> HIDE DEF x, e, c
  <2>3. PICK a, b, s, f, g : d = [matrix |-> a, board |-> b, stack |-> s, row |-> f, pc |-> g]
    BY <2>2, DanceParts
  <2>4. x = [matrix |-> e, board |-> b, stack |-> s, row |-> e.down[c], pc |-> "row"]
    BY <2>1, <2>3
  <2>5. IsDance(x)
    BY <2>4, DanceOf
  <2> QED BY <2>3, <2>4, <2>5
<1> HIDE DEF x, c, e
<1>6. InRow(x, M, m, K, J, Len(x.stack) + 1)
  BY <1>1, <1>3, <1>4, <1>5 DEF InRow, e
<1> QED BY <1>0, <1>5, <1>6 DEF Searches, Position, x

\* Choosing a row of it adds the matrix that is left to the trail.
LEMMA TrySearches ==
  ASSUME NEW d, NEW m, NEW K, NEW J, Searches(d, m, K, J), d.pc = "row", ~atHeader(d)
  PROVE  Searches(try(d), m, K, J)
<1>0. PICK M : Trail(M, m, K, J, d.stack) /\ Position(d, M, m, K, J)
  BY DEF Searches
<1> DEFINE k == Len(d.stack) + 1
           F == Free(m, J, d.stack, k)
           S == Kept(m, K, J, F)
           r == d.row
           e == d.matrix
           f == coverAll(e, walk(e.right, r))
           x == try(d)
           t == Append(d.stack, r)
           M1 == [i \in 1 .. k + 1 |-> IF i = k + 1 THEN f ELSE M[i]]
<1>1. PICK c \in F : e = cover(M[k], c) /\ r \in Column(m, S, c)
  BY <1>0 DEF Position, InRow
<1>2. /\ d.stack \in Seq(J + 1 .. K) /\ Len(d.stack) \in Nat /\ k \in Nat /\ k # 0 /\ k \in 1 .. k
      /\ Frame(m, K, J) /\ IsDance(d)
      /\ \A i \in 1 .. k : Level(M, m, K, J, d.stack, i)
      /\ \A i \in 1 .. Len(d.stack) : Chosen(M, m, K, J, d.stack, i)
      /\ M[1] = m
  <2>1. /\ d.stack \in Seq(J + 1 .. K)
        /\ \A i \in 1 .. k : Level(M, m, K, J, d.stack, i)
        /\ \A i \in 1 .. Len(d.stack) : Chosen(M, m, K, J, d.stack, i)
        /\ M[1] = m
    BY <1>0 DEF Trail
  <2>2. Len(d.stack) \in Nat
    BY <2>1
  <2>3. k \in Nat /\ k # 0 /\ k \in 1 .. k
    BY <2>2
  <2> QED BY <2>1, <2>2, <2>3 DEF Searches
<1>3. Linked(M[k], K, J, F) /\ Like(M[k], m, K, J)
  BY <1>2 DEF Level
<1>4. Linked(e, K, J, F \ {c}) /\ Like(e, m, K, J)
  <2>1. Linked(e, K, J, F \ {c}) /\ Like(e, M[k], K, J)
    BY <1>1, <1>3, Cover
  <2> QED BY <1>3, <2>1, LikeThrough
<1>5. r \in S /\ r \in J + 1 .. K /\ m.col[r] = c
  <2>1. r # c
    <3> SUFFICES ASSUME r = c PROVE FALSE
      OBVIOUS
    <3>1. c \in 0 .. J
      BY DEF Free
    <3>2. e.col[r] = r
      BY <1>2, <1>4, <3>1 DEF Like, Frame
    <3> QED BY <3>2 DEF atHeader
  <2> QED BY <1>1, <2>1 DEF Column, Below, Kept
<1>6. /\ Columns(m, r) \subseteq F /\ Columns(m, r) = {c} \cup Others(m, r) /\ c \notin Others(m, r)
      /\ Others(e, r) = Others(m, r)
  <2>1. Frame(e, K, J)
    BY <1>4 DEF Linked
  <2>2. Others(e, r) = Others(m, r)
    BY <1>2, <1>4, <1>5, <2>1, LikeRows
  <2>3. r \in Kept(m, K, J, F)
    BY <1>5
  <2> QED BY <1>2, <1>5, <2>2, <2>3, KeptColumns
<1>7. Linked(f, K, J, (F \ {c}) \ Others(m, r)) /\ Like(f, m, K, J)
  <2>1. Others(e, r) \subseteq F \ {c}
    BY <1>6
  <2>2. Linked(f, K, J, (F \ {c}) \ Others(e, r)) /\ Like(f, e, K, J)
    BY <1>4, <1>5, <2>1, CoverOption
  <2> QED BY <1>4, <1>6, <2>2, LikeThrough
<1>8. x.matrix = f /\ x.pc = "solve" /\ x.stack = t /\ IsDance(x)
  <2>1. x = [d EXCEPT !.matrix = f, !.stack = t, !.pc = "solve"]
    BY DEF try
  <2> HIDE DEF x, f, t
  <2>3. PICK a, b, s, o, g : d = [matrix |-> a, board |-> b, stack |-> s, row |-> o, pc |-> g]
    BY <1>2, DanceParts
  <2>4. x = [matrix |-> f, board |-> b, stack |-> t, row |-> o, pc |-> "solve"]
    BY <2>1, <2>3
  <2>5. IsDance(x)
    BY <2>4, DanceOf
  <2> QED BY <2>4, <2>5
<1>9. /\ t \in Seq(J + 1 .. K) /\ Len(t) = k /\ t[k] = r
      /\ \A i \in 1 .. Len(d.stack) : t[i] = d.stack[i]
  BY <1>2, <1>5
<1>10. M1[k + 1] = f /\ \A i \in 1 .. k : M1[i] = M[i]
  BY <1>2
<1> HIDE DEF t, f, M1, x
<1>11. \A i \in 1 .. k : Free(m, J, t, i) = Free(m, J, d.stack, i)
  <2> SUFFICES ASSUME NEW i \in 1 .. k PROVE Free(m, J, t, i) = Free(m, J, d.stack, i)
    OBVIOUS
  <2>1. i \in Nat /\ \A j \in 1 .. i - 1 : t[j] = d.stack[j]
    BY <1>2, <1>9
  <2> QED BY <2>1, FreePrefix
<1>12. Free(m, J, t, k + 1) = (F \ {c}) \ Others(m, r)
  <2>1. Free(m, J, t, k + 1) = Free(m, J, t, k) \ Columns(m, t[k])
    BY <1>2, FreeNext
  <2> QED BY <1>2, <1>6, <1>9, <1>11, <2>1
<1>13. ASSUME NEW i \in 1 .. k + 1 PROVE Level(M1, m, K, J, t, i)
  <2>1. CASE i = k + 1
    BY <1>7, <1>10, <1>12, <2>1 DEF Level
  <2>2. CASE i # k + 1
    <3>1. i \in 1 .. k
      BY <1>2, <2>2
    <3> QED BY <1>2, <1>10, <1>11, <3>1 DEF Level
  <2> QED BY <2>1, <2>2
<1>14. ASSUME NEW i \in 1 .. k PROVE Chosen(M1, m, K, J, t, i)
  <2>1. CASE i = k
    <3>1. t[i] \in Kept(m, K, J, Free(m, J, t, i))
      BY <1>2, <1>5, <1>9, <1>11, <2>1
    <3>2. M1[i] = M[k] /\ M1[i + 1] = f /\ m.col[t[i]] = c /\ t[i] = r
      BY <1>2, <1>5, <1>9, <1>10, <2>1
    <3> QED BY <1>1, <3>1, <3>2 DEF Chosen, f
  <2>2. CASE i # k
    <3>1. i \in 1 .. Len(d.stack) /\ i + 1 \in 1 .. k
      BY <1>2, <2>2
    <3>2. Chosen(M, m, K, J, d.stack, i)
      BY <1>2, <3>1
    <3>3. M1[i] = M[i] /\ M1[i + 1] = M[i + 1] /\ t[i] = d.stack[i]
      BY <1>9, <1>10, <3>1
    <3>4. Free(m, J, t, i) = Free(m, J, d.stack, i)
      BY <1>11
    <3> QED BY <3>2, <3>3, <3>4 DEF Chosen
  <2> QED BY <2>1, <2>2
<1>15. Trail(M1, m, K, J, t)
  BY <1>2, <1>9, <1>10, <1>13, <1>14 DEF Trail
<1>16. Position(x, M1, m, K, J)
  BY <1>8, <1>9, <1>10 DEF Position
<1> QED BY <1>2, <1>8, <1>15, <1>16 DEF Searches, x

\* Uncovering restores the matrix before, and the trail loses one.
LEMMA GiveUpSearches ==
  ASSUME NEW d, NEW m, NEW K, NEW J, Searches(d, m, K, J), d.pc = "row", atHeader(d)
  PROVE  Searches(giveUp(d), m, K, J)
<1>0. PICK M : Trail(M, m, K, J, d.stack) /\ Position(d, M, m, K, J)
  BY DEF Searches
<1> DEFINE k == Len(d.stack) + 1
           F == Free(m, J, d.stack, k)
           S == Kept(m, K, J, F)
           e == d.matrix
           x == giveUp(d)
           u == uncover(e, d.row)
<1>1. PICK c \in F : e = cover(M[k], c) /\ d.row \in Column(m, S, c)
  BY <1>0 DEF Position, InRow
<1>2. /\ d.stack \in Seq(J + 1 .. K) /\ Len(d.stack) \in Nat /\ k \in Nat /\ k # 0 /\ k \in 1 .. k
      /\ Frame(m, K, J) /\ IsDance(d)
      /\ \A i \in 1 .. k : Level(M, m, K, J, d.stack, i)
      /\ \A i \in 1 .. Len(d.stack) : Chosen(M, m, K, J, d.stack, i)
      /\ M[1] = m
  <2>1. /\ d.stack \in Seq(J + 1 .. K)
        /\ \A i \in 1 .. k : Level(M, m, K, J, d.stack, i)
        /\ \A i \in 1 .. Len(d.stack) : Chosen(M, m, K, J, d.stack, i)
        /\ M[1] = m
    BY <1>0 DEF Trail
  <2>2. Len(d.stack) \in Nat
    BY <2>1
  <2>3. k \in Nat /\ k # 0 /\ k \in 1 .. k
    BY <2>2
  <2> QED BY <2>1, <2>2, <2>3 DEF Searches
<1>3. Linked(M[k], K, J, F) /\ Like(M[k], m, K, J)
  BY <1>2 DEF Level
<1>4. Like(e, M[k], K, J) /\ uncover(e, c) = M[k]
  <2>1. Like(cover(M[k], c), M[k], K, J) /\ uncover(cover(M[k], c), c) = M[k]
    <3> DEFINE p == M[k]
    <3>1. Linked(p, K, J, F) /\ c \in F
      BY <1>3
    <3> HIDE DEF p, k, F
    <3>2. /\ Linked(cover(p, c), K, J, F \ {c})
          /\ Like(cover(p, c), p, K, J)
          /\ Ring(cover(p, c).down, cover(p, c).up, Column(p, Kept(p, K, J, F), c))
          /\ uncover(cover(p, c), c) = p
      BY <3>1, Cover
    <3> QED BY <3>2 DEF p
  <2> QED BY <1>1, <2>1
<1>5. d.row = c
  <2> SUFFICES ASSUME d.row # c PROVE FALSE
    OBVIOUS
  <2>1. d.row \in J + 1 .. K
    BY <1>1 DEF Column, Below, Kept
  <2>2. e.col[d.row] = d.row
    BY DEF atHeader
  <2>3. m.col[d.row] = d.row
    BY <1>3, <1>4, <2>2 DEF Like
  <2>4. m.col[d.row] \in 1 .. J
    BY <1>2, <2>1, RowColumns
  <2>5. J \in Nat /\ K \in Nat
    BY <1>2 DEF Frame
  <2> QED BY <2>1, <2>3, <2>4, <2>5
<1>6. u = M[k]
  BY <1>4, <1>5
<1>7. CASE d.stack = <<>>
  <2>1. x.matrix = u /\ x.pc = "false" /\ x.stack = d.stack /\ IsDance(x)
    <3>1. x = [d EXCEPT !.matrix = u, !.pc = "false"]
      BY <1>7 DEF giveUp
    <3> HIDE DEF x, u
    <3>3. PICK a, b, s, o, g : d = [matrix |-> a, board |-> b, stack |-> s, row |-> o, pc |-> g]
      BY <1>2, DanceParts
    <3>4. x = [matrix |-> u, board |-> b, stack |-> s, row |-> o, pc |-> "false"]
      BY <3>1, <3>3
    <3>5. IsDance(x)
      BY <3>4, DanceOf
    <3> QED BY <3>3, <3>4, <3>5
  <2>2. k = 1
    BY <1>7
  <2> HIDE DEF x
  <2>3. Position(x, M, m, K, J)
    BY <1>2, <1>6, <1>7, <2>1, <2>2 DEF Position
  <2>4. Trail(M, m, K, J, x.stack)
    BY <1>0, <2>1
  <2> QED BY <1>2, <2>1, <2>3, <2>4 DEF Searches, x
<1>8. CASE d.stack # <<>>
  <2> DEFINE L == Len(d.stack)
             n == Last(d.stack)
             t == Front(d.stack)
             back == uncoverAll(u, reverseOrder(u, n))
  <2>1. L \in Nat /\ L # 0 /\ L \in 1 .. L /\ L \in 1 .. k /\ k = L + 1 /\ d.stack[L] = n
    BY <1>2, <1>8 DEF Last
  <2>2. x.matrix = back /\ x.pc = "row" /\ x.stack = t /\ x.row = back.down[n] /\ IsDance(x)
    <3>1. x = [d EXCEPT !.matrix = back, !.stack = t, !.row = back.down[n]]
      BY <1>8 DEF giveUp
    <3> HIDE DEF x, back, t, n
    <3>3. PICK a, y, s, o, g : d = [matrix |-> a, board |-> y, stack |-> s, row |-> o, pc |-> g]
      BY <1>2, DanceParts
    <3>4. x = [matrix |-> back, board |-> y, stack |-> t, row |-> back.down[n], pc |-> g]
      BY <3>1, <3>3
    <3>5. IsDance(x) /\ g = "row"
      BY <3>3, <3>4, DanceOf
    <3> QED BY <3>4, <3>5
  <2> DEFINE G == Free(m, J, d.stack, L)
             b == m.col[n]
             g == cover(M[L], b)
             f == coverAll(g, walk(g.right, n))
  <2>3. n \in Kept(m, K, J, G) /\ n \in J + 1 .. K /\ M[k] = f
    <3>1. Chosen(M, m, K, J, d.stack, L)
      BY <1>2, <2>1
    <3> QED BY <2>1, <3>1 DEF Chosen, Kept
  <2>4. Linked(M[L], K, J, G) /\ Like(M[L], m, K, J)
    BY <1>2, <2>1 DEF Level
  <2>5. /\ Columns(m, n) \subseteq G /\ Columns(m, n) = {b} \cup Others(m, n) /\ b \notin Others(m, n)
    BY <1>2, <2>3, KeptColumns
  <2>6. b \in G
    BY <2>5
  <2>7. /\ Linked(g, K, J, G \ {b}) /\ Like(g, M[L], K, J)
        /\ Ring(g.down, g.up, Column(M[L], Kept(M[L], K, J, G), b))
    BY <2>4, <2>6, Cover
  <2>8. Like(g, m, K, J) /\ Frame(g, K, J) /\ Others(g, n) = Others(m, n)
    <3>1. Like(g, m, K, J)
      BY <2>4, <2>7, LikeThrough
    <3>2. Frame(g, K, J)
      BY <2>7 DEF Linked
    <3> QED BY <1>2, <2>3, <3>1, <3>2, LikeRows
  <2>9. uncoverAll(f, walk(f.left, n)) = g
    <3>1. Others(g, n) \subseteq G \ {b}
      BY <2>5, <2>8
    <3>2. Linked(g, K, J, G \ {b}) /\ n \in J + 1 .. K
      BY <2>3, <2>7
    <3>3. f = coverAll(g, walk(g.right, n))
      OBVIOUS
    <3> DEFINE FF == G \ {b}
    <3>4. Linked(g, K, J, FF) /\ Others(g, n) \subseteq FF /\ n \in J + 1 .. K
      BY <3>1, <3>2
    <3> HIDE DEF f, g, n, b, G, FF
    <3>5. LET all == coverAll(g, walk(g.right, n)) IN uncoverAll(all, walk(all.left, n)) = g
      BY <3>4, CoverOption
    <3> QED BY <3>3, <3>5
  <2>10. back = g
    <3>1. u = f
      BY <1>6, <2>3
    <3> HIDE DEF u, f
    <3> QED BY <2>9, <3>1 DEF reverseOrder
  <2>11. /\ t \in Seq(J + 1 .. K) /\ Len(t) = L - 1
         /\ \A i \in 1 .. L - 1 : t[i] = d.stack[i]
    <3>1. t = SubSeq(d.stack, 1, L - 1)
      BY DEF Front
    <3>2. 1 \in Int /\ L - 1 \in Int /\ \A i \in 1 .. L - 1 : d.stack[i] \in J + 1 .. K
      <4>1. 1 \in Int /\ L - 1 \in Int
        BY <2>1
      <4>2. ASSUME NEW i \in 1 .. L - 1 PROVE d.stack[i] \in J + 1 .. K
        <5>1. i \in 1 .. Len(d.stack)
          BY <1>2
        <5> DEFINE Y == J + 1 .. K
        <5>2. d.stack \in Seq(Y)
          BY <1>2
        <5> HIDE DEF Y
        <5>3. d.stack[i] \in Y
          BY <5>1, <5>2
        <5> QED BY <5>3 DEF Y
      <4> QED BY <4>1, <4>2
    <3>3. /\ SubSeq(d.stack, 1, L - 1) \in Seq(J + 1 .. K)
          /\ Len(SubSeq(d.stack, 1, L - 1)) = IF 1 <= L - 1 THEN (L - 1) - 1 + 1 ELSE 0
          /\ \A i \in 1 .. (L - 1) - 1 + 1 : SubSeq(d.stack, 1, L - 1)[i] = d.stack[1 + i - 1]
      BY <3>2, SubSeqProperties
    <3>4. (L - 1) - 1 + 1 = L - 1 /\ \A i \in 1 .. L - 1 : 1 + i - 1 = i
      BY <2>1
    <3>5. Len(t) = L - 1
      BY <2>1, <3>1, <3>3, <3>4
    <3> HIDE DEF t, L
    <3> QED BY <3>1, <3>3, <3>4, <3>5
  <2> HIDE DEF t, n, x, back, g, u, L
  <2>12. ASSUME NEW i \in 1 .. L PROVE Free(m, J, t, i) = Free(m, J, d.stack, i)
    <3>1. i \in Nat /\ \A j \in 1 .. i - 1 : t[j] = d.stack[j]
      BY <2>1, <2>11
    <3> QED BY <3>1, FreePrefix
  <2>13. ASSUME NEW i \in 1 .. L PROVE Level(M, m, K, J, t, i)
    <3>1. Level(M, m, K, J, d.stack, i)
      BY <1>2, <2>1
    <3> QED BY <2>12, <3>1 DEF Level
  <2>14. ASSUME NEW i \in 1 .. L - 1 PROVE Chosen(M, m, K, J, t, i)
    <3>1. Chosen(M, m, K, J, d.stack, i) /\ i \in 1 .. L
      BY <1>2, <2>1 DEF L
    <3> QED BY <2>11, <2>12, <3>1 DEF Chosen
  <2>15. Trail(M, m, K, J, t)
    <3>1. Len(t) + 1 = L
      BY <2>1, <2>11
    <3> QED BY <1>2, <2>11, <2>13, <2>14, <3>1 DEF Trail
  <2>16. g.down[n] \in Column(m, Kept(m, K, J, G), b)
    <3>1. n \in Column(m, Kept(m, K, J, G), b)
      BY <2>3 DEF Column, Below
    <3>2. Column(M[L], Kept(M[L], K, J, G), b) = Column(m, Kept(m, K, J, G), b)
      BY <1>2, <2>4, LikeRows DEF Linked
    <3> QED BY <2>7, <3>1, <3>2 DEF Ring
  <2>17. InRow(x, M, m, K, J, L)
    <3>1. Free(m, J, x.stack, L) = G
      BY <2>1, <2>2, <2>12
    <3> QED BY <2>2, <2>6, <2>10, <2>16, <3>1 DEF InRow, g
  <2>18. Len(x.stack) + 1 = L
    BY <2>1, <2>2, <2>11
  <2> QED BY <1>2, <2>2, <2>15, <2>17, <2>18 DEF Searches, Position, x
<1> QED BY <1>7, <1>8

\* What the state predicates of Dance say of an option is what the proof says.
LEMMA ColumnsOf ==
  ASSUME NEW K, NEW J, NEW m, Frame(m, K, J), NEW n \in J + 1 .. K
  PROVE  ToSet(option(m, n)) = RowOf(m, n) /\ columnsOf(m, n) = Columns(m, n)
<1>1. PICK a, b, c \in J + 1 .. K : IsOption(m, J, n, a, b, c)
  BY Option
<1>2. RowOf(m, n) = {n, a, b, c} /\ walk(m.right, n) = <<a, b, c>>
  BY <1>1 DEF IsOption
<1> DEFINE t == <<n>> \o <<a, b, c>>
<1>3. option(m, n) = t
  BY <1>2 DEF option
<1>4. ToSet(t) = {n, a, b, c}
  <2>1. t = [i \in 1 .. 4 |-> IF i <= 1 THEN <<n>>[i] ELSE <<a, b, c>>[i - 1]]
    OBVIOUS
  <2>2. t[1] = n /\ t[2] = a /\ t[3] = b /\ t[4] = c /\ DOMAIN t = 1 .. 4
    BY <2>1
  <2> HIDE DEF t
  <2>3. \A i \in 1 .. 4 : i = 1 \/ i = 2 \/ i = 3 \/ i = 4
    OBVIOUS
  <2>4. 1 \in 1 .. 4 /\ 2 \in 1 .. 4 /\ 3 \in 1 .. 4 /\ 4 \in 1 .. 4
    OBVIOUS
  <2> QED BY <2>2, <2>3, <2>4 DEF ToSet
<1>5. ToSet(option(m, n)) = RowOf(m, n)
  BY <1>2, <1>3, <1>4
<1> QED BY <1>5 DEF columnsOf, Columns

\* A ring that is walked in order is ordered.
LEMMA VisitsOrdered ==
  ASSUME NEW next, NEW prev, NEW h, NEW T, Visits(walk(next, h), h, T),
         walk(prev, h) = Reverse(walk(next, h)), NEW U, T \ {h} = U
  PROVE  ordered(next, prev, h, U)
<1> DEFINE seq == walk(next, h)
<1>1. ToSet(seq) = U /\ Len(seq) \in Nat /\ \A i, j \in 1 .. Len(seq) : i < j => seq[i] < seq[j]
  BY DEF Visits
<1> HIDE DEF seq
<1>2. ASSUME NEW i \in 1 .. Len(seq) - 1 PROVE seq[i] < seq[i + 1]
  <2>1. i \in 1 .. Len(seq) /\ i + 1 \in 1 .. Len(seq) /\ i < i + 1
    BY <1>1
  <2> QED BY <1>1, <2>1
<1> QED BY <1>1, <1>2 DEF ordered, seq

\* Every ring of linked columns is in order.
LEMMA LinkedOrdered ==
  ASSUME NEW K, NEW J, NEW m, NEW F, Linked(m, K, J, F)
  PROVE  /\ ordered(m.right, m.left, 0, F)
         /\ \A c \in F : /\ ordered(m.down, m.up, c, Below(m, Kept(m, K, J, F), c))
                         /\ m.size[c] = Cardinality(Below(m, Kept(m, K, J, F), c))
<1> DEFINE T == {0} \cup F
           S == Kept(m, K, J, F)
<1>1. /\ Ring(m.right, m.left, T) /\ F \in SUBSET (1 .. J) /\ J \in 0 .. K /\ K \in Nat
      /\ Frame(m, K, J) /\ Vert(m, F, S) /\ S \in SUBSET (J + 1 .. K)
      /\ DOMAIN m.right = 0 .. K /\ DOMAIN m.left = 0 .. K
  BY DEF Linked, Horiz, Frame, Matrices, Kept
<1>2. T \in SUBSET (0 .. K) /\ 0 \in T /\ \A k \in T : 0 <= k
  BY <1>1
<1>3. T \ {0} = F
  BY <1>1
<1> HIDE DEF T, S
<1>4. ordered(m.right, m.left, 0, F)
  <2>1. Visits(walk(m.right, 0), 0, T) /\ walk(m.left, 0) = Reverse(walk(m.right, 0))
    BY <1>1, <1>2, WalkRing
  <2> QED BY <1>3, <2>1, VisitsOrdered
<1>5. ASSUME NEW c \in F
      PROVE  ordered(m.down, m.up, c, Below(m, S, c)) /\ m.size[c] = Cardinality(Below(m, S, c))
  <2>1. /\ Ring(m.down, m.up, Column(m, S, c)) /\ m.size[c] = Cardinality(Below(m, S, c))
        /\ c \in 1 .. J
    BY <1>1 DEF Vert, Column
  <2>2. IsColumn(m, K, J, S, c)
    BY <1>1, <2>1 DEF IsColumn
  <2>3. /\ Visits(walk(m.down, c), c, Column(m, S, c))
        /\ walk(m.up, c) = Reverse(walk(m.down, c))
        /\ Column(m, S, c) \ {c} = Below(m, S, c)
    BY <2>2, ColumnWalk
  <2>4. ordered(m.down, m.up, c, Below(m, S, c))
    BY <2>3, VisitsOrdered
  <2> QED BY <2>1, <2>4
<1> QED BY <1>4, <1>5 DEF S

\* What is covered while a row is tried.
LEMMA CoveredInRow ==
  ASSUME NEW d, d.pc = "row"
  PROVE  coveredColumns(d) = (UNION {columnsOf(d.matrix, n) : n \in ToSet(d.stack)})
                                \cup {d.matrix.col[d.row]}
BY DEF coveredColumns

\* The matrix of a search is linked without the columns that it has covered.
LEMMA Current ==
  ASSUME NEW d, NEW m, NEW K, NEW J, Searches(d, m, K, J)
  PROVE  /\ Linked(d.matrix, K, J, (1 .. J) \ coveredColumns(d))
         /\ Like(d.matrix, m, K, J)
<1>0. PICK M : Trail(M, m, K, J, d.stack) /\ Position(d, M, m, K, J)
  BY DEF Searches
<1> DEFINE k == Len(d.stack) + 1
           F == Free(m, J, d.stack, k)
           S == Kept(m, K, J, F)
           e == d.matrix
           chosen == UNION {columnsOf(e, n) : n \in ToSet(d.stack)}
<1>1. /\ d.stack \in Seq(J + 1 .. K) /\ Len(d.stack) \in Nat /\ k \in 1 .. k
      /\ Linked(M[k], K, J, F) /\ Like(M[k], m, K, J) /\ Frame(m, K, J) /\ M[1] = m
  <2>1. d.stack \in Seq(J + 1 .. K) /\ Len(d.stack) \in Nat /\ M[1] = m
    BY <1>0 DEF Trail
  <2>2. k \in 1 .. k
    BY <2>1
  <2>3. Level(M, m, K, J, d.stack, k)
    BY <1>0, <2>2 DEF Trail
  <2> QED BY <2>1, <2>2, <2>3 DEF Level, Searches
<1>2. ASSUME Like(e, m, K, J), Frame(e, K, J) PROVE F = (1 .. J) \ chosen
  <2>1. ASSUME NEW i \in 1 .. Len(d.stack) PROVE columnsOf(e, d.stack[i]) = Columns(m, d.stack[i])
    <3>1. d.stack[i] \in J + 1 .. K
      <4> DEFINE Y == J + 1 .. K
      <4>1. d.stack \in Seq(Y)
        BY <1>1
      <4> HIDE DEF Y
      <4>2. d.stack[i] \in Y
        BY <4>1
      <4> QED BY <4>2 DEF Y
    <3>2. Columns(e, d.stack[i]) = Columns(m, d.stack[i])
      BY <1>1, <1>2, <3>1, LikeRows
    <3> QED BY <1>2, <3>1, <3>2, ColumnsOf
  <2>2. DOMAIN d.stack = 1 .. Len(d.stack) /\ k - 1 = Len(d.stack)
    BY <1>1
  <2>3. ToSet(d.stack) = {d.stack[i] : i \in 1 .. Len(d.stack)}
    BY <2>2 DEF ToSet
  <2>4. chosen = UNION {Columns(m, d.stack[i]) : i \in 1 .. Len(d.stack)}
    BY <2>1, <2>3
  <2> HIDE DEF chosen, k
  <2> QED BY <2>2, <2>4 DEF Free
<1>3. CASE d.pc = "solve" /\ e = M[k]
  <2>1. coveredColumns(d) = chosen
    BY <1>3 DEF coveredColumns
  <2>2. F = (1 .. J) \ chosen
    BY <1>1, <1>2, <1>3 DEF Linked
  <2> QED BY <1>1, <1>3, <2>1, <2>2
<1>4. CASE InRow(d, M, m, K, J, k)
  <2>1. PICK c \in F : e = cover(M[k], c) /\ d.row \in Column(m, S, c) /\ d.pc = "row"
    BY <1>4 DEF InRow
  <2> HIDE DEF k, F, S
  <2>2. Linked(e, K, J, F \ {c}) /\ Like(e, m, K, J)
    <3> DEFINE p == M[k]
    <3>1. Linked(p, K, J, F) /\ c \in F /\ Like(p, m, K, J)
      BY <1>1
    <3> HIDE DEF p
    <3>2. Linked(cover(p, c), K, J, F \ {c}) /\ Like(cover(p, c), p, K, J)
      BY <3>1, Cover
    <3>3. Like(cover(p, c), m, K, J)
      BY <3>1, <3>2, LikeThrough
    <3> QED BY <2>1, <3>2, <3>3 DEF p
  <2>3. e.col[d.row] = c
    <3>1. m.col[c] = c
      BY <1>1 DEF Frame, F, Free
    <3>2. m.col[d.row] = c
      BY <2>1, <3>1 DEF Column, Below
    <3> QED BY <2>2, <3>2 DEF Like
  <2>4. coveredColumns(d) = chosen \cup {c}
    <3>1. d.pc = "row"
      BY <2>1
    <3>2. coveredColumns(d) = chosen \cup {e.col[d.row]}
      BY <3>1, CoveredInRow, Zenon
    <3> QED BY <2>3, <3>2
  <2>5. F = (1 .. J) \ chosen
    BY <1>2, <2>2 DEF Linked, F, k
  <2>6. F \ {c} = (1 .. J) \ coveredColumns(d)
    BY <2>4, <2>5
  <2> QED BY <2>2, <2>6
<1>5. CASE d.pc = "false" /\ d.stack = <<>> /\ e = m
  <2>1. coveredColumns(d) = chosen
    BY <1>5 DEF coveredColumns
  <2>2. M[k] = m
    BY <1>1, <1>5
  <2>3. F = (1 .. J) \ chosen
    BY <1>1, <1>2, <1>5, <2>2 DEF Linked
  <2> QED BY <1>1, <1>5, <2>1, <2>2, <2>3
<1> QED BY <1>0, <1>3, <1>4, <1>5 DEF Position

\* However often the search has gone down and come back, the rings are those
\* of the matrix without what is covered.
LEMMA SearchMatches ==
  ASSUME NEW d, NEW m, NEW K, NEW J, Searches(d, m, K, J)
  PROVE  matches(d)
<1> DEFINE e == d.matrix
           covered == coveredColumns(d)
           G == (1 .. J) \ covered
           kept == {n \in DOMAIN e.col \ DOMAIN e.size : columnsOf(e, n) \cap covered = {}}
<1>1. Linked(e, K, J, G)
  BY Current
<1>2. Frame(e, K, J) /\ DOMAIN e.col = 0 .. K /\ DOMAIN e.size = 0 .. J /\ J \in 0 .. K /\ K \in Nat
  BY <1>1 DEF Linked, Frame, Matrices
<1> HIDE DEF e, covered
<1>3. DOMAIN e.size \ (covered \cup {0}) = G
  BY <1>2
<1>4. DOMAIN e.col \ DOMAIN e.size = J + 1 .. K
  BY <1>2
<1>5. ASSUME NEW n \in J + 1 .. K
      PROVE  columnsOf(e, n) \cap covered = {} <=> n \in Kept(e, K, J, G)
  <2>1. columnsOf(e, n) = Columns(e, n)
    BY <1>2, ColumnsOf
  <2>2. Columns(e, n) \subseteq 1 .. J /\ (n \in Kept(e, K, J, G) <=> Columns(e, n) \subseteq G)
    <3>1. Frame(e, K, J)
      BY <1>2
    <3> HIDE DEF G
    <3> QED BY <3>1, KeptColumns
  <2> QED BY <2>1, <2>2
<1>6. kept = Kept(e, K, J, G)
  <2>1. Kept(e, K, J, G) \subseteq J + 1 .. K
    BY DEF Kept
  <2> QED BY <1>4, <1>5, <2>1
<1> HIDE DEF kept, G
<1>7. /\ ordered(e.right, e.left, 0, G)
      /\ \A c \in G : /\ ordered(e.down, e.up, c, Below(e, kept, c))
                      /\ e.size[c] = Cardinality(Below(e, kept, c))
  BY <1>1, <1>6, LinkedOrdered
<1>8. \A c : Below(e, kept, c) = {n \in kept : e.col[n] = c}
  BY DEF Below
<1> QED BY <1>3, <1>7, <1>8 DEF matches, e, covered, kept

\* s is a sequence of the elements of U.
Lists(s, U) ==
  /\ Len(s) \in Nat /\ DOMAIN s = 1 .. Len(s) /\ s \in Seq(U)
  /\ \A i \in 1 .. Len(s) : s[i] \in U
  /\ \A x \in U : \E i \in 1 .. Len(s) : s[i] = x

Distinct(s) == \A i, j \in 1 .. Len(s) : s[i] = s[j] => i = j

\* A sequence of the elements of a set shows that set.
LEMMA ListsSet ==
  ASSUME NEW s, NEW U, Lists(s, U)
  PROVE  ToSet(s) = U
BY DEF Lists, ToSet

\* those goes through a sequence and keeps the elements of T:
LEMMA FoldThose ==
  ASSUME NEW seq, NEW T, Len(seq) \in Nat, DOMAIN seq = 1 .. Len(seq)
  PROVE  \E at : /\ at[0] = <<>>
                 /\ \A k \in 1 .. Len(seq) :
                      at[k] = IF seq[k] \in T THEN Append(at[k - 1], seq[k]) ELSE at[k - 1]
                 /\ at[Len(seq)] = those(seq, T)
<1> DEFINE op == [name |-> "those", of |-> T]
           S == SUBSET DOMAIN seq
           add(kept, x) == IF x \in T THEN Append(kept, x) ELSE kept
           Folded(f) == f = [s \in S |-> IF s = {} THEN <<>>
                                         ELSE add(f[s \ {Max(s)}], seq[Max(s)])]
<1>1. \A y, n : apply(op, y, n) = add(y, n)
  BY DEF apply
<1> HIDE DEF op
<1>2. ASSUME NEW f PROVE Folded(f) <=> Iterates(f, op, <<>>, seq, Len(seq))
  <2>1. \A s \in S : apply(op, f[s \ {Max(s)}], seq[Max(s)]) = add(f[s \ {Max(s)}], seq[Max(s)])
    BY <1>1
  <2> QED BY <2>1 DEF Iterates
<1>3. \E f : Folded(f)
  BY <1>2, IterationExists
<1>4. PICK f : Folded(f) /\ those(seq, T) = f[DOMAIN seq]
  BY <1>3 DEF those, FoldLeft, MapThenFoldSet
<1> HIDE DEF Folded
<1>5. PICK at : Goes(at, op, <<>>, seq) /\ at[Len(seq)] = f[DOMAIN seq]
  BY <1>2, <1>4, IterationGoes
<1> DEFINE last == Len(seq)
<1>6. /\ at[0] = <<>>
      /\ \A k \in 1 .. Len(seq) : at[k] = apply(op, at[k - 1], seq[k])
  BY <1>5 DEF Goes
<1>7. \A k \in 1 .. Len(seq) : at[k] = add(at[k - 1], seq[k])
  BY <1>1, <1>6
<1>8. at[last] = those(seq, T)
  BY <1>4, <1>5
<1> QED BY <1>6, <1>7, <1>8

\* What those has kept of the first k elements.
KeptOf(kept, seq, T, k) ==
  /\ Lists(kept, {seq[i] : i \in 1 .. k} \cap T)
  /\ Distinct(seq) => Distinct(kept)

\* it lists those, once if they were listed once.
LEMMA Those ==
  ASSUME NEW seq, NEW T, Len(seq) \in Nat, DOMAIN seq = 1 .. Len(seq)
  PROVE  /\ Lists(those(seq, T), {seq[i] : i \in 1 .. Len(seq)} \cap T)
         /\ Distinct(seq) => Distinct(those(seq, T))
<1> DEFINE L == Len(seq)
<1>1. PICK at : /\ at[0] = <<>>
                /\ \A k \in 1 .. Len(seq) :
                      at[k] = IF seq[k] \in T THEN Append(at[k - 1], seq[k]) ELSE at[k - 1]
                /\ at[Len(seq)] = those(seq, T)
  BY FoldThose
<1> DEFINE Holds == {k \in 0 .. L : KeptOf(at[k], seq, T, k)}
<1>2. 0 \in Holds
  <2>1. {seq[i] : i \in 1 .. 0} \cap T = {}
    OBVIOUS
  <2>2. Lists(<<>>, {}) /\ Distinct(<<>>)
    BY DEF Lists, Distinct
  <2> DEFINE W == {seq[i] : i \in 1 .. 0} \cap T
             s == at[0]
  <2>3. W = {} /\ s = <<>>
    BY <1>1, <2>1
  <2> HIDE DEF W, s
  <2>4. Lists(s, W) /\ Distinct(s)
    BY <2>2, <2>3
  <2>5. KeptOf(at[0], seq, T, 0)
    BY <2>4 DEF KeptOf, W, s
  <2> QED BY <2>5
<1>3. ASSUME NEW k \in 1 .. L, k - 1 \in Holds PROVE k \in Holds
  <2> DEFINE s == at[k - 1]
             t == at[k]
             x == seq[k]
             U == {seq[i] : i \in 1 .. k - 1} \cap T
             V == {seq[i] : i \in 1 .. k} \cap T
  <2>1. Lists(s, U) /\ (Distinct(seq) => Distinct(s))
    BY <1>3 DEF KeptOf
  <2>2. t = IF x \in T THEN Append(s, x) ELSE s
    BY <1>1
  <2>3. {seq[i] : i \in 1 .. k} = {seq[i] : i \in 1 .. k - 1} \cup {x}
    <3>1. \A i \in 1 .. k : i \in 1 .. k - 1 \/ i = k
      OBVIOUS
    <3>2. k \in 1 .. k /\ \A i \in 1 .. k - 1 : i \in 1 .. k
      OBVIOUS
    <3> QED BY <3>1, <3>2
  <2>4. Distinct(seq) => x \notin U
    <3> SUFFICES ASSUME Distinct(seq), NEW i \in 1 .. k - 1, seq[i] = seq[k] PROVE FALSE
      OBVIOUS
    <3>1. i \in 1 .. L /\ i # k
      OBVIOUS
    <3> QED BY <3>1 DEF Distinct
  <2>5. CASE x \in T
    <3>1. V = U \cup {x}
      BY <2>3, <2>5
    <3>2. t = Append(s, x) /\ s \in Seq(V) /\ x \in V /\ Len(s) \in Nat
      BY <2>1, <2>2, <2>5, <3>1 DEF Lists
    <3> HIDE DEF U, V, s, t, x
    <3>3. /\ Len(t) = Len(s) + 1 /\ t \in Seq(V) /\ DOMAIN t = 1 .. Len(t) /\ t[Len(s) + 1] = x
          /\ \A i \in 1 .. Len(s) : t[i] = s[i]
      BY <3>2
    <3>4. \A i \in 1 .. Len(t) : i \in 1 .. Len(s) \/ i = Len(s) + 1
      BY <3>2, <3>3
    <3>5. Len(s) + 1 \in 1 .. Len(t) /\ \A i \in 1 .. Len(s) : i \in 1 .. Len(t)
      BY <3>2, <3>3
    <3>6. Lists(t, V)
      <4>1. \A i \in 1 .. Len(t) : t[i] \in V
        BY <2>1, <3>1, <3>3, <3>4 DEF Lists
      <4>2. ASSUME NEW y \in V PROVE \E i \in 1 .. Len(t) : t[i] = y
        <5>1. CASE y = x
          BY <3>3, <3>5, <5>1
        <5>2. CASE y \in U
          <6>1. PICK i \in 1 .. Len(s) : s[i] = y
            BY <2>1, <5>2 DEF Lists
          <6> QED BY <3>3, <3>5, <6>1
        <5> QED BY <3>1, <5>1, <5>2
      <4> QED BY <3>2, <3>3, <4>1, <4>2 DEF Lists
    <3>7. ASSUME Distinct(seq) PROVE Distinct(t)
      <4>1. \A i \in 1 .. Len(s) : t[i] # x /\ t[i] = s[i]
        BY <2>1, <2>4, <3>3, <3>7 DEF Lists
      <4>2. Distinct(s)
        BY <2>1, <3>7
      <4>3. ASSUME NEW i \in 1 .. Len(t), NEW j \in 1 .. Len(t), t[i] = t[j] PROVE i = j
        <5>1. CASE i \in 1 .. Len(s) /\ j \in 1 .. Len(s)
          BY <4>1, <4>2, <4>3, <5>1 DEF Distinct
        <5>2. CASE ~(i \in 1 .. Len(s) /\ j \in 1 .. Len(s))
          BY <3>3, <3>4, <4>1, <4>3, <5>2
        <5> QED BY <5>1, <5>2
      <4> QED BY <4>3 DEF Distinct
    <3> QED BY <3>6, <3>7 DEF KeptOf, V, t
  <2>6. CASE x \notin T
    <3>1. V = U /\ t = s
      BY <2>2, <2>3, <2>6
    <3> HIDE DEF U, V, s, t, x
    <3>2. Lists(t, V) /\ (Distinct(seq) => Distinct(t))
      BY <2>1, <3>1
    <3> QED BY <3>2, SMTT(60) DEF KeptOf, V, t
  <2> QED BY <2>5, <2>6
<1> HIDE DEF Holds
<1>4. \A k \in 0 .. L : k \in Holds
  BY <1>2, <1>3, StepByStep
<1>5. KeptOf(at[L], seq, T, L)
  <2>1. L \in Holds
    BY <1>4
  <2> QED BY <2>1 DEF Holds
<1> QED BY <1>1, <1>5 DEF KeptOf

-----------------------------------------------------------------------------
(***************************************************************************)
(* The constructor's lists: those, flat and withDigits.                    *)
(***************************************************************************)
\* Quotient and remainder by the widths of the tables,
LEMMA Euclid ==
  ASSUME NEW w \in {3, 4, 9}, NEW k \in Nat
  PROVE  k \div w \in Nat /\ k % w \in 0 .. w - 1 /\ k = (k \div w) * w + (k % w)
<1>1. CASE w = 3
  BY <1>1
<1>2. CASE w = 4
  BY <1>2
<1>3. CASE w = 9
  BY <1>3
<1> QED BY <1>1, <1>2, <1>3

\* which are unique.
LEMMA EuclidUnique ==
  ASSUME NEW w \in {3, 4, 9}, NEW a \in Nat, NEW b \in 0 .. w - 1
  PROVE  (a * w + b) \div w = a /\ (a * w + b) % w = b /\ a * w + b \in Nat
<1>1. CASE w = 3
  BY <1>1
<1>2. CASE w = 4
  BY <1>2
<1>3. CASE w = 9
  BY <1>3
<1> QED BY <1>1, <1>2, <1>3

\* The place of the j-th element of the i-th tuple.
Place(i, j, w) == (i - 1) * w + j

\* The elements of f are those of the tuples, w of each.
Flattened(f, tuples, w) ==
  /\ Len(f) \in Nat /\ DOMAIN f = 1 .. Len(f) /\ Len(f) = Len(tuples) * w
  /\ \E g : f = [k \in 1 .. Len(f) |-> g[k]]
  /\ \A i \in 1 .. Len(tuples), j \in 1 .. w :
       Place(i, j, w) \in 1 .. Len(f) /\ f[Place(i, j, w)] = tuples[i][j]
  /\ \A k \in 1 .. Len(f) : \E i \in 1 .. Len(tuples), j \in 1 .. w :
       k = Place(i, j, w) /\ f[k] = tuples[i][j]

Width == {3, 4, 9}

\* flat lays tuples of w elements one after the other.
LEMMA Flat ==
  ASSUME NEW tuples, NEW w, Len(tuples) \in Nat, w \in Width
  PROVE  Flattened(flat(tuples, w), tuples, w)
<1> USE DEF Width
<1> DEFINE n == Len(tuples)
           f == flat(tuples, w)
           g(k) == tuples[((k - 1) \div w) + 1][((k - 1) % w) + 1]
<1>0. n * w \in Nat
  <2>1. CASE w = 3
    BY <2>1
  <2>2. CASE w = 4
    BY <2>2
  <2>3. CASE w = 9
    BY <2>3
  <2> QED BY <2>1, <2>2, <2>3
<1> DEFINE L == n * w
<1>1. f = [k \in 1 .. L |-> g(k)]
  BY DEF flat
<1> HIDE DEF L, f
<1>2. Len(f) = L /\ L \in Nat /\ DOMAIN f = 1 .. L
  <2>1. L \in Nat
    BY <1>0 DEF L
  <2>2. DOMAIN f = 1 .. L
    BY <1>1
  <2>3. Len(f) = L
    <3> DEFINE U == {g(k) : k \in 1 .. L}
    <3>1. \A k \in 1 .. L : g(k) \in U
      OBVIOUS
    <3> HIDE DEF U, g
    <3>2. f \in [1 .. L -> U]
      BY <1>1, <3>1
    <3>3. f \in Seq(U)
      BY <2>1, <3>2
    <3> QED BY <2>1, <2>2, <3>3
  <2> QED BY <2>1, <2>2, <2>3
<1>3. ASSUME NEW i \in 1 .. n, NEW j \in 1 .. w
      PROVE  Place(i, j, w) \in 1 .. L /\ f[Place(i, j, w)] = tuples[i][j]
  <2> DEFINE k == Place(i, j, w)
  <2>1. i - 1 \in Nat /\ j - 1 \in 0 .. w - 1
    OBVIOUS
  <2>2. ((i - 1) * w + (j - 1)) \div w = i - 1 /\ ((i - 1) * w + (j - 1)) % w = j - 1
    BY <2>1, EuclidUnique
  <2>3. k - 1 = (i - 1) * w + (j - 1) /\ k \in 1 .. L
    <3>1. CASE w = 3
      BY <3>1 DEF Place, L
    <3>2. CASE w = 4
      BY <3>2 DEF Place, L
    <3>3. CASE w = 9
      BY <3>3 DEF Place, L
    <3> QED BY <3>1, <3>2, <3>3
  <2>4. (i - 1) + 1 = i /\ (j - 1) + 1 = j
    OBVIOUS
  <2> HIDE DEF k
  <2>5. f[k] = g(k)
    BY <1>1, <2>3
  <2>6. g(k) = tuples[i][j]
    BY <2>2, <2>3, <2>4
  <2> HIDE DEF g
  <2> QED BY <2>3, <2>5, <2>6 DEF k
<1>4. ASSUME NEW k \in 1 .. L
      PROVE  \E i \in 1 .. n, j \in 1 .. w : k = Place(i, j, w) /\ f[k] = tuples[i][j]
  <2> DEFINE a == (k - 1) \div w
             b == (k - 1) % w
  <2>1. a \in Nat /\ b \in 0 .. w - 1 /\ k - 1 = a * w + b
    <3>1. k - 1 \in Nat
      BY <1>2
    <3> QED BY <3>1, Euclid
  <2> HIDE DEF a, b
  <2>2. a + 1 \in 1 .. n /\ b + 1 \in 1 .. w /\ k = Place(a + 1, b + 1, w)
    <3>1. CASE w = 3
      BY <1>2, <2>1, <3>1 DEF Place, L
    <3>2. CASE w = 4
      BY <1>2, <2>1, <3>2 DEF Place, L
    <3>3. CASE w = 9
      BY <1>2, <2>1, <3>3 DEF Place, L
    <3> QED BY <3>1, <3>2, <3>3
  <2>3. f[k] = tuples[a + 1][b + 1]
    BY <1>1 DEF a, b
  <2> QED BY <2>2, <2>3
<1>5. \E h : f = [k \in 1 .. L |-> h[k]]
  <2> DEFINE h == [k \in 1 .. L |-> g(k)]
  <2>1. f = h /\ h = [k \in 1 .. L |-> h[k]]
    BY <1>1
  <2> HIDE DEF h
  <2> QED BY <2>1
<1>6. Flattened(f, tuples, w)
  <2> HIDE DEF g
  <2>1. Len(f) = Len(tuples) * w
    BY <1>2 DEF L
  <2>2. 1 .. Len(f) = 1 .. L
    BY <1>2
  <2>3. Len(f) \in Nat /\ DOMAIN f = 1 .. Len(f) /\ \E h : f = [k \in 1 .. Len(f) |-> h[k]]
    BY <1>2, <1>5, <2>2
  <2>4. \A i \in 1 .. Len(tuples), j \in 1 .. w :
          Place(i, j, w) \in 1 .. Len(f) /\ f[Place(i, j, w)] = tuples[i][j]
    BY <1>3, <2>2
  <2>5. \A k \in 1 .. Len(f) : \E i \in 1 .. Len(tuples), j \in 1 .. w :
          k = Place(i, j, w) /\ f[k] = tuples[i][j]
    BY <1>4, <2>2
  <2> HIDE DEF L, f, n
  <2> QED BY <2>1, <2>3, <2>4, <2>5 DEF Flattened
<1> QED BY <1>6 DEF f

\* The sizes of the boards.
LEMMA Numbers ==
  /\ NUM \in {3, 4, 9} /\ NUM \in Nat /\ NUM <= 9 /\ NUM >= 1
  /\ N \in Nat /\ N = NUM * NUM /\ N <= 81 /\ Cell = 0 .. N - 1
<1>1. CASE Base = 2
  BY <1>1 DEF NUM, N, Cell
<1>2. CASE Base = 3
  BY <1>2 DEF NUM, N, Cell
<1> QED BY <1>1, <1>2, BaseAssumption

\* A function on 1 .. n is a sequence of n elements.
LEMMA FunctionLen ==
  ASSUME NEW n \in Nat, NEW f, f = [k \in 1 .. n |-> f[k]]
  PROVE  Len(f) = n /\ DOMAIN f = 1 .. n
<1> DEFINE U == {f[k] : k \in 1 .. n}
<1>1. \A k \in 1 .. n : f[k] \in U
  OBVIOUS
<1> HIDE DEF U
<1>2. f \in [1 .. n -> U]
  BY <1>1
<1>3. f \in Seq(U)
  BY <1>2
<1> QED BY <1>2, <1>3

\* p has the pairs of the elements of s and the digits, one after the other.
Paired(p, s) ==
  /\ Len(p) \in Nat /\ DOMAIN p = 1 .. Len(p)
  /\ \A i \in 1 .. Len(s), val \in 1 .. NUM :
       Place(i, val, NUM) \in 1 .. Len(p) /\ p[Place(i, val, NUM)] = <<s[i], val>>
  /\ \A k \in 1 .. Len(p) : \E i \in 1 .. Len(s), val \in 1 .. NUM :
       k = Place(i, val, NUM) /\ p[k] = <<s[i], val>>

\* withDigits pairs every element with every digit.
LEMMA WithDigits ==
  ASSUME NEW s, Len(s) \in Nat, DOMAIN s = 1 .. Len(s)
  PROVE  Paired(withDigits(s), s)
<1> DEFINE tuples == [k \in DOMAIN s |-> [val \in 1 .. NUM |-> <<s[k], val>>]]
           p == withDigits(s)
<1>1. p = flat(tuples, NUM)
  BY DEF withDigits
<1>2. \A i \in 1 .. Len(s), val \in 1 .. NUM : tuples[i][val] = <<s[i], val>>
  OBVIOUS
<1>3. Len(tuples) = Len(s)
  <2>1. tuples = [k \in 1 .. Len(s) |-> tuples[k]]
    OBVIOUS
  <2> HIDE DEF tuples
  <2> QED BY <2>1, FunctionLen
<1> HIDE DEF tuples, p
<1>4. Flattened(p, tuples, NUM)
  <2> DEFINE w == NUM
  <2>1. w \in Width /\ Len(tuples) \in Nat
    BY <1>3, Numbers DEF Width
  <2> HIDE DEF w
  <2>2. Flattened(flat(tuples, w), tuples, w)
    BY <2>1, Flat
  <2> QED BY <1>1, <2>2 DEF w
<1>5. \A i \in 1 .. Len(s), val \in 1 .. NUM :
        Place(i, val, NUM) \in 1 .. Len(p) /\ p[Place(i, val, NUM)] = <<s[i], val>>
  <2>1. \A i \in 1 .. Len(tuples), val \in 1 .. NUM :
          Place(i, val, NUM) \in 1 .. Len(p) /\ p[Place(i, val, NUM)] = tuples[i][val]
    BY <1>4 DEF Flattened
  <2> QED BY <1>2, <1>3, <2>1
<1>6. ASSUME NEW k \in 1 .. Len(p)
      PROVE  \E i \in 1 .. Len(s), val \in 1 .. NUM : k = Place(i, val, NUM) /\ p[k] = <<s[i], val>>
  <2>1. PICK i \in 1 .. Len(s), val \in 1 .. NUM : k = Place(i, val, NUM) /\ p[k] = tuples[i][val]
    BY <1>3, <1>4 DEF Flattened
  <2>2. p[k] = <<s[i], val>>
    BY <1>2, <2>1
  <2> QED BY <2>1, <2>2
<1>7. Len(p) \in Nat /\ DOMAIN p = 1 .. Len(p)
  BY <1>4 DEF Flattened
<1>8. Paired(p, s)
  BY <1>5, <1>6, <1>7 DEF Paired
<1> QED BY <1>8 DEF p

\* Two lists one after the other.
LEMMA Concatenated ==
  ASSUME NEW s, NEW t, NEW U, NEW V, Lists(s, U), Lists(t, V)
  PROVE  /\ Lists(s \o t, U \cup V)
         /\ Len(s \o t) = Len(s) + Len(t)
         /\ \A i \in 1 .. Len(s) : (s \o t)[i] = s[i]
         /\ \A i \in 1 .. Len(t) : (s \o t)[Len(s) + i] = t[i]
         /\ Distinct(s) /\ Distinct(t) /\ U \cap V = {} => Distinct(s \o t)
<1> DEFINE W == U \cup V
           x == s \o t
<1>1. /\ Len(s) \in Nat /\ s \in Seq(W) /\ \A i \in 1 .. Len(s) : s[i] \in U
      /\ Len(t) \in Nat /\ t \in Seq(W) /\ \A i \in 1 .. Len(t) : t[i] \in V
  <2>1. s \in Seq(U) /\ t \in Seq(V) /\ U \subseteq W /\ V \subseteq W
    BY DEF Lists
  <2> QED BY <2>1, SeqMonotonic DEF Lists
<1>2. \A y \in W : y \in U \/ y \in V
  OBVIOUS
<1>3. \A y : (y \in U => y \in W) /\ (y \in V => y \in W)
  OBVIOUS
<1> HIDE DEF W
<1>4. /\ x \in Seq(W) /\ Len(x) = Len(s) + Len(t) /\ DOMAIN x = 1 .. Len(x)
      /\ \A i \in 1 .. Len(x) : x[i] = IF i <= Len(s) THEN s[i] ELSE t[i - Len(s)]
  BY <1>1
<1> HIDE DEF x
<1>5. \A i \in 1 .. Len(s) : i \in 1 .. Len(x) /\ x[i] = s[i]
  BY <1>1, <1>4
<1>6. ASSUME NEW i \in 1 .. Len(t) PROVE Len(s) + i \in 1 .. Len(x) /\ x[Len(s) + i] = t[i]
  <2>1. Len(s) + i \in 1 .. Len(x) /\ ~ (Len(s) + i <= Len(s)) /\ (Len(s) + i) - Len(s) = i
    BY <1>1, <1>4
  <2> QED BY <1>4, <2>1
<1>7. ASSUME NEW i \in 1 .. Len(x)
      PROVE  i \in 1 .. Len(s) \/ \E j \in 1 .. Len(t) : i = Len(s) + j
  <2>1. CASE i <= Len(s)
    BY <1>1, <2>1
  <2>2. CASE ~ (i <= Len(s))
    <3>1. i - Len(s) \in 1 .. Len(t) /\ i = Len(s) + (i - Len(s))
      BY <1>1, <1>4, <2>2
    <3> QED BY <3>1
  <2> QED BY <2>1, <2>2
<1>8. \A i \in 1 .. Len(x) : x[i] \in W
  BY <1>1, <1>3, <1>5, <1>6, <1>7
<1>9. \A y \in W : \E i \in 1 .. Len(x) : x[i] = y
  <2> SUFFICES ASSUME NEW y \in W PROVE \E i \in 1 .. Len(x) : x[i] = y
    OBVIOUS
  <2>1. CASE y \in U
    <3>1. PICK i \in 1 .. Len(s) : s[i] = y
      BY <2>1 DEF Lists
    <3> QED BY <1>5, <3>1
  <2>2. CASE y \in V
    <3>1. PICK i \in 1 .. Len(t) : t[i] = y
      BY <2>2 DEF Lists
    <3> QED BY <1>6, <3>1
  <2> QED BY <1>2, <2>1, <2>2
<1>10. Lists(x, W)
  <2>1. Len(x) \in Nat
    BY <1>1, <1>4
  <2> QED BY <1>4, <1>8, <1>9, <2>1 DEF Lists
<1>11. ASSUME Distinct(s), Distinct(t), U \cap V = {} PROVE Distinct(x)
  <2> SUFFICES ASSUME NEW i \in 1 .. Len(x), NEW j \in 1 .. Len(x), x[i] = x[j] PROVE i = j
    BY DEF Distinct
  <2>1. CASE i \in 1 .. Len(s) /\ j \in 1 .. Len(s)
    <3>1. s[i] = s[j]
      BY <1>5, <2>1
    <3> QED BY <1>11, <2>1, <3>1 DEF Distinct
  <2>2. ASSUME NEW a \in 1 .. Len(t), NEW b \in 1 .. Len(t), i = Len(s) + a, j = Len(s) + b
        PROVE  i = j
    <3>1. t[a] = t[b]
      BY <1>6, <2>2
    <3>2. a = b
      BY <1>11, <3>1 DEF Distinct
    <3> QED BY <2>2, <3>2
  <2>3. ASSUME NEW a \in 1 .. Len(s), NEW b \in 1 .. Len(t) PROVE x[a] # x[Len(s) + b]
    <3>1. x[a] \in U /\ x[Len(s) + b] \in V
      BY <1>1, <1>5, <1>6
    <3> QED BY <1>11, <3>1
  <2> QED BY <1>7, <2>1, <2>2, <2>3
<1> QED BY <1>4, <1>5, <1>6, <1>10, <1>11 DEF x, W

-----------------------------------------------------------------------------
(***************************************************************************)
(* Names: cells, and units with a digit; the columns and the options of a  *)
(* board.                                                                  *)
(***************************************************************************)
\* The names of columns.
unitName(unit, number, val) == 100 * unit + 10 * number + val

UnitName == {unitName(x[1], x[2], x[3]) : x \in (1 .. 3) \X (0 .. NUM - 1) \X (1 .. NUM)}

Blank(board) == {cell \in Cell : board[cell] = 0}

ColumnName(board) == Blank(board) \cup (UnitName \ given(board))

\* The names of units are different from those of cells,
LEMMA UnitNames ==
  /\ \A unit \in 1 .. 3, number \in 0 .. NUM - 1, val \in 1 .. NUM :
       /\ unitName(unit, number, val) \in UnitName
       /\ unitName(unit, number, val) \in Nat /\ unitName(unit, number, val) >= 100
  /\ \A n \in UnitName : \E unit \in 1 .. 3, number \in 0 .. NUM - 1, val \in 1 .. NUM :
       n = unitName(unit, number, val)
<1>1. ASSUME NEW unit \in 1 .. 3, NEW number \in 0 .. NUM - 1, NEW val \in 1 .. NUM
      PROVE  /\ unitName(unit, number, val) \in UnitName
             /\ unitName(unit, number, val) \in Nat /\ unitName(unit, number, val) >= 100
  <2>1. <<unit, number, val>> \in (1 .. 3) \X (0 .. NUM - 1) \X (1 .. NUM)
    OBVIOUS
  <2>2. unitName(unit, number, val) \in UnitName
    BY <2>1 DEF UnitName
  <2>3. unitName(unit, number, val) \in Nat /\ unitName(unit, number, val) >= 100
    BY Numbers DEF unitName
  <2> QED BY <2>2, <2>3
<1>3. \A n \in UnitName : \E unit \in 1 .. 3, number \in 0 .. NUM - 1, val \in 1 .. NUM :
         n = unitName(unit, number, val)
  BY DEF UnitName
<1> QED BY <1>1, <1>3

\* The parts of the name of a unit; the digit may be 0, as for a blank.
IsUnit(unit, number, val) ==
  unit \in {1, 2, 3} /\ number \in Nat /\ number < NUM /\ val \in Nat /\ val <= NUM

\* and a name tells its unit and its digit.
LEMMA UnitParts ==
  ASSUME NEW unit, NEW number, NEW val, NEW unit1, NEW number1, NEW val1,
         IsUnit(unit, number, val), IsUnit(unit1, number1, val1),
         unitName(unit1, number1, val1) = unitName(unit, number, val)
  PROVE  unit1 = unit /\ number1 = number /\ val1 = val
<1>1. 100 * unit1 + 10 * number1 + val1 = 100 * unit + 10 * number + val
  BY DEF unitName
<1>2. /\ number \in 0 .. 8 /\ number1 \in 0 .. 8 /\ val \in 0 .. 9 /\ val1 \in 0 .. 9
      /\ unit \in 1 .. 3 /\ unit1 \in 1 .. 3
  BY Numbers DEF IsUnit
<1> QED BY <1>1, <1>2

Units == withDigits([k \in 1 .. NUM |-> k - 1])
UnitTuples == [k \in DOMAIN Units |-> <<get_row_col(Units[k][1], Units[k][2]),
                                        get_col_col(Units[k][1], Units[k][2]),
                                        get_box_col(Units[k][1], Units[k][2])>>]
AllNames == flat(UnitTuples, 3)

\* The constructor goes through all units and digits, through each once.
LEMMA AllUnits == Lists(AllNames, UnitName) /\ Distinct(AllNames)
<1> DEFINE s == [k \in 1 .. NUM |-> k - 1]
<1>1. Len(s) = NUM /\ DOMAIN s = 1 .. NUM /\ \A i \in 1 .. NUM : s[i] = i - 1
  <2>1. s = [k \in 1 .. NUM |-> s[k]] /\ \A i \in 1 .. NUM : s[i] = i - 1
    OBVIOUS
  <2> HIDE DEF s
  <2> QED BY <2>1, FunctionLen, Numbers
<1>2. Units = withDigits(s)
  BY DEF Units
<1> HIDE DEF s
<1>3. /\ Len(Units) \in Nat /\ DOMAIN Units = 1 .. Len(Units)
      /\ \A i \in 1 .. NUM, val \in 1 .. NUM :
           Place(i, val, NUM) \in 1 .. Len(Units) /\ Units[Place(i, val, NUM)] = <<i - 1, val>>
      /\ \A k \in 1 .. Len(Units) : \E i \in 1 .. NUM, val \in 1 .. NUM :
           k = Place(i, val, NUM) /\ Units[k] = <<i - 1, val>>
  <2>1. Len(s) \in Nat /\ DOMAIN s = 1 .. Len(s)
    BY <1>1, Numbers
  <2>2. Paired(Units, s)
    BY <1>2, <2>1, WithDigits
  <2>3. Len(Units) \in Nat /\ DOMAIN Units = 1 .. Len(Units)
    BY <2>2 DEF Paired
  <2>4. ASSUME NEW i \in 1 .. NUM, NEW val \in 1 .. NUM
        PROVE  Place(i, val, NUM) \in 1 .. Len(Units) /\ Units[Place(i, val, NUM)] = <<i - 1, val>>
    <3>1. Place(i, val, NUM) \in 1 .. Len(Units) /\ Units[Place(i, val, NUM)] = <<s[i], val>>
      BY <1>1, <2>2 DEF Paired
    <3> QED BY <1>1, <3>1
  <2>5. ASSUME NEW k \in 1 .. Len(Units)
        PROVE  \E i \in 1 .. NUM, val \in 1 .. NUM : k = Place(i, val, NUM) /\ Units[k] = <<i - 1, val>>
    <3>1. PICK i \in 1 .. NUM, val \in 1 .. NUM : k = Place(i, val, NUM) /\ Units[k] = <<s[i], val>>
      BY <1>1, <2>2 DEF Paired
    <3>2. Units[k] = <<i - 1, val>>
      BY <1>1, <3>1
    <3> QED BY <3>1, <3>2
  <2> QED BY <2>3, <2>4, <2>5
<1>4. ASSUME NEW k \in 1 .. Len(Units), NEW i \in 1 .. NUM, NEW val \in 1 .. NUM,
             Units[k] = <<i - 1, val>>, NEW j \in 1 .. 3
      PROVE  UnitTuples[k][j] = unitName(j, i - 1, val)
  <2>1. UnitTuples[k] = <<get_row_col(i - 1, val), get_col_col(i - 1, val), get_box_col(i - 1, val)>>
    BY <1>3, <1>4 DEF UnitTuples
  <2>2. /\ get_row_col(i - 1, val) = unitName(1, i - 1, val)
        /\ get_col_col(i - 1, val) = unitName(2, i - 1, val)
        /\ get_box_col(i - 1, val) = unitName(3, i - 1, val)
    BY Numbers DEF get_row_col, get_col_col, get_box_col, unitName
  <2>3. j = 1 \/ j = 2 \/ j = 3
    OBVIOUS
  <2> QED BY <2>1, <2>2, <2>3
<1>5. Len(UnitTuples) = Len(Units)
  <2>1. UnitTuples = [k \in 1 .. Len(Units) |-> UnitTuples[k]]
    BY <1>3 DEF UnitTuples
  <2> QED BY <1>3, <2>1, FunctionLen
<1> DEFINE all == AllNames
<1>6. Flattened(all, UnitTuples, 3)
  <2> DEFINE w == 3
             t == UnitTuples
  <2>1. w \in Width /\ Len(t) \in Nat
    BY <1>3, <1>5 DEF Width
  <2> HIDE DEF w, t
  <2>2. Flattened(flat(t, w), t, w)
    BY <2>1, Flat
  <2> QED BY <2>2 DEF AllNames, w, t
<1> HIDE DEF all
<1>7. ASSUME NEW n \in 1 .. Len(all)
      PROVE  \E i \in 1 .. NUM, val \in 1 .. NUM, j \in 1 .. 3 :
               n = Place(Place(i, val, NUM), j, 3) /\ all[n] = unitName(j, i - 1, val)
  <2>1. PICK k \in 1 .. Len(Units), j \in 1 .. 3 : n = Place(k, j, 3) /\ all[n] = UnitTuples[k][j]
    BY <1>5, <1>6 DEF Flattened
  <2>2. PICK i \in 1 .. NUM, val \in 1 .. NUM : k = Place(i, val, NUM) /\ Units[k] = <<i - 1, val>>
    BY <1>3
  <2>3. UnitTuples[k][j] = unitName(j, i - 1, val)
    BY <1>4, <2>2
  <2> QED BY <2>1, <2>2, <2>3
<1>8. ASSUME NEW n \in 1 .. Len(all) PROVE all[n] \in UnitName
  <2>1. PICK i \in 1 .. NUM, val \in 1 .. NUM, j \in 1 .. 3 : all[n] = unitName(j, i - 1, val)
    BY <1>7
  <2>2. i - 1 \in 0 .. NUM - 1
    BY Numbers
  <2> QED BY <2>1, <2>2, UnitNames
<1>9. ASSUME NEW x \in UnitName PROVE \E n \in 1 .. Len(all) : all[n] = x
  <2>1. PICK j \in 1 .. 3, number \in 0 .. NUM - 1, val \in 1 .. NUM : x = unitName(j, number, val)
    BY UnitNames
  <2> DEFINE i == number + 1
  <2>2. i \in 1 .. NUM /\ i - 1 = number
    BY Numbers
  <2> HIDE DEF i
  <2>3. Place(i, val, NUM) \in 1 .. Len(Units) /\ Units[Place(i, val, NUM)] = <<i - 1, val>>
    BY <1>3, <2>2
  <2>4. UnitTuples[Place(i, val, NUM)][j] = x
    BY <1>4, <2>1, <2>2, <2>3
  <2> QED BY <1>5, <1>6, <2>3, <2>4 DEF Flattened
<1>10. ASSUME NEW a \in 1 .. Len(all), NEW b \in 1 .. Len(all), all[a] = all[b] PROVE a = b
  <2>1. PICK i \in 1 .. NUM, val \in 1 .. NUM, j \in 1 .. 3 :
           a = Place(Place(i, val, NUM), j, 3) /\ all[a] = unitName(j, i - 1, val)
    BY <1>7
  <2>2. PICK i1 \in 1 .. NUM, val1 \in 1 .. NUM, j1 \in 1 .. 3 :
           b = Place(Place(i1, val1, NUM), j1, 3) /\ all[b] = unitName(j1, i1 - 1, val1)
    BY <1>7
  <2>3. IsUnit(j, i - 1, val) /\ IsUnit(j1, i1 - 1, val1)
    BY Numbers DEF IsUnit
  <2>4. unitName(j1, i1 - 1, val1) = unitName(j, i - 1, val)
    BY <1>10, <2>1, <2>2
  <2>5. j1 = j /\ i1 - 1 = i - 1 /\ val1 = val
    BY <2>3, <2>4, UnitParts
  <2>6. i1 = i
    BY <2>5, Numbers
  <2> QED BY <2>1, <2>2, <2>5, <2>6
<1>11. Lists(all, UnitName)
  <2>1. Len(all) \in Nat /\ DOMAIN all = 1 .. Len(all) /\ \E g : all = [n \in 1 .. Len(all) |-> g[n]]
    BY <1>6 DEF Flattened
  <2>2. all \in Seq(UnitName)
    BY <1>8, <2>1
  <2> QED BY <1>8, <1>9, <2>1, <2>2 DEF Lists
<1>12. Distinct(all)
  BY <1>10 DEF Distinct
<1> QED BY <1>11, <1>12 DEF all

\* blanks lists the blank cells of the board, each once.
LEMMA Blanks ==
  ASSUME NEW board
  PROVE  Lists(blanks(board), Blank(board)) /\ Distinct(blanks(board))
<1> DEFINE s == [k \in 1 .. N |-> k - 1]
           T == Blank(board)
<1>1. Len(s) = N /\ DOMAIN s = 1 .. N /\ \A i \in 1 .. N : s[i] = i - 1
  <2>1. s = [k \in 1 .. N |-> s[k]] /\ \A i \in 1 .. N : s[i] = i - 1
    OBVIOUS
  <2> HIDE DEF s
  <2> QED BY <2>1, FunctionLen, Numbers
<1>2. blanks(board) = those(s, T)
  BY DEF blanks, Blank
<1> HIDE DEF s
<1>3. Distinct(s)
  BY <1>1, Numbers DEF Distinct
<1>4. {s[i] : i \in 1 .. Len(s)} \cap T = T
  <2>1. ASSUME NEW cell \in T PROVE \E i \in 1 .. Len(s) : s[i] = cell
    <3>1. cell \in 0 .. N - 1
      BY Numbers DEF Blank
    <3>2. cell + 1 \in 1 .. N /\ (cell + 1) - 1 = cell
      BY <3>1, Numbers
    <3> QED BY <1>1, <3>2
  <2> QED BY <2>1
<1>5. Len(s) \in Nat /\ DOMAIN s = 1 .. Len(s)
  BY <1>1, Numbers
<1> HIDE DEF T
<1>6. /\ Lists(those(s, T), {s[i] : i \in 1 .. Len(s)} \cap T)
      /\ Distinct(s) => Distinct(those(s, T))
  BY <1>5, Those
<1>7. Lists(those(s, T), T)
  BY <1>4, <1>6
<1> QED BY <1>2, <1>3, <1>6, <1>7 DEF T

\* The columns of the matrix: the blanks, and the units and digits not given
\* (sudoku_dancing_links.cpp:115-130).
LEMMA ColumnNames ==
  ASSUME NEW board
  PROVE  Lists(columnNames(board), ColumnName(board)) /\ Distinct(columnNames(board))
<1> DEFINE T == ToSet(AllNames) \ given(board)
           V == UnitName \ given(board)
<1>1. columnNames(board) = blanks(board) \o those(AllNames, T)
  BY DEF columnNames, AllNames, UnitTuples, Units
<1>2. Len(AllNames) \in Nat /\ DOMAIN AllNames = 1 .. Len(AllNames) /\ ToSet(AllNames) = UnitName
  BY AllUnits, ListsSet DEF Lists
<1>3. {AllNames[i] : i \in 1 .. Len(AllNames)} \cap T = V
  <2>1. {AllNames[i] : i \in 1 .. Len(AllNames)} = UnitName
    BY <1>2 DEF ToSet
  <2>2. T = V
    BY <1>2
  <2> QED BY <2>1, <2>2
<1> HIDE DEF T
<1>4. /\ Lists(those(AllNames, T), {AllNames[i] : i \in 1 .. Len(AllNames)} \cap T)
      /\ Distinct(AllNames) => Distinct(those(AllNames, T))
  BY <1>2, Those
<1>5. Lists(those(AllNames, T), V) /\ Distinct(those(AllNames, T))
  BY <1>3, <1>4, AllUnits
<1>6. Blank(board) \cap V = {}
  <2> SUFFICES ASSUME NEW n \in Blank(board), n \in UnitName PROVE FALSE
    OBVIOUS
  <2>1. n \in 0 .. 80
    BY Numbers DEF Blank
  <2>2. n >= 100
    BY UnitNames
  <2> QED BY <2>1, <2>2
<1> HIDE DEF V
<1>7. /\ Lists(blanks(board) \o those(AllNames, T), Blank(board) \cup V)
      /\ Distinct(blanks(board) \o those(AllNames, T))
  BY <1>5, <1>6, Blanks, Concatenated
<1> QED BY <1>1, <1>7 DEF ColumnName, V

\* The row, the column or the box of a cell, as the number of a unit.
numberIn(unit, cell) == CASE unit = 1 -> rowOf(cell) [] unit = 2 -> colOf(cell) [] unit = 3 -> boxOf(cell)

\* The row, column and box of a cell.
LEMMA Coordinates ==
  ASSUME NEW cell \in Cell
  PROVE  /\ rowOf(cell) \in 0 .. NUM - 1
         /\ colOf(cell) \in 0 .. NUM - 1
         /\ boxOf(cell) \in 0 .. NUM - 1
<1>1. CASE Base = 2
  <2>1. cell \in 0 .. 15 /\ NUM = 4
    BY <1>1 DEF Cell, N, NUM
  <2>2. rowOf(cell) \in 0 .. 3 /\ colOf(cell) \in 0 .. 3
    BY <2>1 DEF rowOf, colOf
  <2>3. boxOf(cell) = (rowOf(cell) \div 2) * 2 + (colOf(cell) \div 2)
    BY <1>1 DEF boxOf
  <2> QED BY <2>1, <2>2, <2>3
<1>2. CASE Base = 3
  <2>1. cell \in 0 .. 80 /\ NUM = 9
    BY <1>2 DEF Cell, N, NUM
  <2>2. rowOf(cell) \in 0 .. 8 /\ colOf(cell) \in 0 .. 8
    BY <2>1 DEF rowOf, colOf
  <2>3. boxOf(cell) = (rowOf(cell) \div 3) * 3 + (colOf(cell) \div 3)
    BY <1>2 DEF boxOf
  <2> QED BY <2>1, <2>2, <2>3
<1> QED BY <1>1, <1>2, BaseAssumption

\* The names of the three units of a cell.
LEMMA UnitsOf ==
  ASSUME NEW cell \in Cell, NEW val \in 0 .. NUM
  PROVE  /\ \A unit \in 1 .. 3 :
              /\ numberIn(unit, cell) \in 0 .. NUM - 1
              /\ IsUnit(unit, numberIn(unit, cell), val)
              /\ unitsOf(cell, val)[unit] = unitName(unit, numberIn(unit, cell), val)
         /\ Len(unitsOf(cell, val)) = 3
         /\ ToSet(unitsOf(cell, val)) = {unitName(unit, numberIn(unit, cell), val) : unit \in 1 .. 3}
<1>1. /\ get_row_col(rowOf(cell), val) = unitName(1, numberIn(1, cell), val)
      /\ get_col_col(colOf(cell), val) = unitName(2, numberIn(2, cell), val)
      /\ get_box_col(boxOf(cell), val) = unitName(3, numberIn(3, cell), val)
  <2>1. numberIn(1, cell) = rowOf(cell) /\ numberIn(2, cell) = colOf(cell) /\ numberIn(3, cell) = boxOf(cell)
    BY DEF numberIn
  <2>2. rowOf(cell) \in Int /\ colOf(cell) \in Int /\ boxOf(cell) \in Int /\ val \in Int
    BY Coordinates, Numbers
  <2> QED BY <2>1, <2>2 DEF get_row_col, get_col_col, get_box_col, unitName
<1>2. unitsOf(cell, val) = <<unitName(1, numberIn(1, cell), val), unitName(2, numberIn(2, cell), val),
                             unitName(3, numberIn(3, cell), val)>>
  BY <1>1 DEF unitsOf
<1>3. \A unit \in 1 .. 3 : unit = 1 \/ unit = 2 \/ unit = 3
  OBVIOUS
<1>4. \A unit \in 1 .. 3 : numberIn(unit, cell) \in 0 .. NUM - 1
  BY <1>3, Coordinates DEF numberIn
<1>5. \A unit \in 1 .. 3 : IsUnit(unit, numberIn(unit, cell), val)
  BY <1>3, <1>4, Numbers DEF IsUnit
<1>6. \A unit \in 1 .. 3 : unitsOf(cell, val)[unit] = unitName(unit, numberIn(unit, cell), val)
  BY <1>2, <1>3
<1>7. Len(unitsOf(cell, val)) = 3 /\ DOMAIN unitsOf(cell, val) = 1 .. 3
  BY <1>2
<1>8. ToSet(unitsOf(cell, val)) = {unitName(unit, numberIn(unit, cell), val) : unit \in 1 .. 3}
  BY <1>6, <1>7 DEF ToSet
<1> QED BY <1>4, <1>5, <1>6, <1>7, <1>8

\* The options: a blank cell with a digit none of whose units is given.
Allowed(board) == {o \in Blank(board) \X (1 .. NUM) : ToSet(unitsOf(o[1], o[2])) \cap given(board) = {}}

\* The options are for blanks, with digits that are not given in their units.
LEMMA Options ==
  ASSUME NEW board
  PROVE  /\ Len(options(board)) \in Nat /\ DOMAIN options(board) = 1 .. Len(options(board))
         /\ \A k \in 1 .. Len(options(board)) : options(board)[k] \in Allowed(board)
<1> DEFINE b == blanks(board)
           pairs == withDigits(b)
           T == {o \in ToSet(pairs) : ToSet(unitsOf(o[1], o[2])) \cap given(board) = {}}
           U == {pairs[i] : i \in 1 .. Len(pairs)} \cap T
<1>1. options(board) = those(pairs, T)
  BY DEF options
<1>2. Lists(b, Blank(board))
  BY Blanks
<1>3. Len(b) \in Nat /\ DOMAIN b = 1 .. Len(b)
  BY <1>2 DEF Lists
<1> HIDE DEF b
<1>4. Paired(pairs, b)
  BY <1>3, WithDigits
<1> HIDE DEF pairs
<1>5. Len(pairs) \in Nat /\ DOMAIN pairs = 1 .. Len(pairs)
  BY <1>4 DEF Paired
<1>6. ASSUME NEW o \in U PROVE o \in Allowed(board)
  <2>1. PICK k \in 1 .. Len(pairs) : o = pairs[k]
    OBVIOUS
  <2>2. PICK i \in 1 .. Len(b), val \in 1 .. NUM : pairs[k] = <<b[i], val>>
    BY <1>4 DEF Paired
  <2>3. b[i] \in Blank(board)
    BY <1>2 DEF Lists
  <2>4. o \in Blank(board) \X (1 .. NUM)
    BY <2>1, <2>2, <2>3
  <2>5. ToSet(unitsOf(o[1], o[2])) \cap given(board) = {}
    OBVIOUS
  <2> QED BY <2>4, <2>5 DEF Allowed
<1> HIDE DEF T
<1>7. Lists(those(pairs, T), U)
  BY <1>5, Those
<1> QED BY <1>1, <1>6, <1>7 DEF Lists

\* One element before others.
LEMMA OneBefore ==
  ASSUME NEW S, NEW p \in Seq(S), NEW u \in Seq(S), Len(p) = 1
  PROVE  \A j \in 1 .. Len(u) + 1 : (p \o u)[j] = IF j = 1 THEN p[1] ELSE u[j - 1]
<1>1. \A j \in 1 .. Len(p) + Len(u) : (p \o u)[j] = IF j <= Len(p) THEN p[j] ELSE u[j - Len(p)]
  BY ConcatProperties
<1>2. Len(u) \in Nat
  OBVIOUS
<1>3. ASSUME NEW j \in 1 .. Len(u) + 1 PROVE (p \o u)[j] = IF j = 1 THEN p[1] ELSE u[j - 1]
  <2>1. j \in 1 .. Len(p) + Len(u) /\ j - Len(p) = j - 1 /\ (j <= Len(p) <=> j = 1)
    BY <1>2
  <2>2. (p \o u)[j] = IF j <= Len(p) THEN p[j] ELSE u[j - Len(p)]
    BY <1>1, <2>1
  <2> QED BY <2>1, <2>2
<1> QED BY <1>3

\* A list of one name and three.
LEMMA OneAndThree ==
  ASSUME NEW a, NEW u, NEW x, NEW y, NEW z, u = <<x, y, z>>
  PROVE  \A j \in 1 .. 4 : (<<a>> \o u)[j] = IF j = 1 THEN a ELSE u[j - 1]
<1> DEFINE S == {a, x, y, z}
           p == <<a>>
<1>1. u \in Seq(S) /\ Len(u) = 3 /\ p \in Seq(S) /\ Len(p) = 1 /\ p[1] = a
  OBVIOUS
<1> HIDE DEF S, p
<1>2. \A j \in 1 .. Len(u) + 1 : (p \o u)[j] = IF j = 1 THEN p[1] ELSE u[j - 1]
  BY <1>1, OneBefore
<1>3. \A j \in 1 .. 4 : (p \o u)[j] = IF j = 1 THEN a ELSE u[j - 1]
  <2>1. 1 .. Len(u) + 1 = 1 .. 4
    BY <1>1
  <2> QED BY <1>1, <1>2, <2>1
<1> QED BY <1>3 DEF p

\* The names of an option's four nodes.
nameAt(o, j) == IF j = 1 THEN o[1] ELSE unitName(j - 1, numberIn(j - 1, o[1]), o[2])

OptionTuples(board) ==
  [k \in DOMAIN options(board) |-> <<options(board)[k][1]>> \o unitsOf(options(board)[k][1], options(board)[k][2])]

\* The nodes of the matrix: four for every option.
LEMMA OptionNames ==
  ASSUME NEW board
  PROVE  /\ Flattened(optionNames(board), OptionTuples(board), 4)
         /\ Len(OptionTuples(board)) = Len(options(board))
         /\ \A k \in 1 .. Len(options(board)), j \in 1 .. 4 :
              OptionTuples(board)[k][j] = nameAt(options(board)[k], j)
<1> DEFINE t == OptionTuples(board)
           opts == options(board)
<1>1. Len(opts) \in Nat /\ DOMAIN opts = 1 .. Len(opts) /\ \A k \in 1 .. Len(opts) : opts[k] \in Allowed(board)
  BY Options
<1>2. optionNames(board) = flat(t, 4)
  BY DEF optionNames, OptionTuples
<1>3. Len(t) = Len(opts)
  <2>1. t = [k \in 1 .. Len(opts) |-> t[k]]
    BY <1>1 DEF OptionTuples
  <2> HIDE DEF t, opts
  <2> QED BY <1>1, <2>1, FunctionLen
<1>4. ASSUME NEW k \in 1 .. Len(opts), NEW j \in 1 .. 4 PROVE t[k][j] = nameAt(opts[k], j)
  <2>1. t[k] = <<opts[k][1]>> \o unitsOf(opts[k][1], opts[k][2])
    BY <1>1 DEF OptionTuples
  <2>2. opts[k][1] \in Cell /\ opts[k][2] \in 0 .. NUM
    <3>1. opts[k] \in Blank(board) \X (1 .. NUM)
      BY <1>1 DEF Allowed
    <3> QED BY <3>1, Numbers DEF Blank
  <2> DEFINE cell == opts[k][1]
             val == opts[k][2]
             u == unitsOf(cell, val)
  <2>3. u = <<u[1], u[2], u[3]>>
    BY DEF unitsOf
  <2>4. \A unit \in 1 .. 3 : u[unit] = unitName(unit, numberIn(unit, cell), val)
    <3> HIDE DEF cell, val
    <3>1. cell \in Cell /\ val \in 0 .. NUM
      BY <2>2 DEF cell, val
    <3> QED BY <3>1, UnitsOf
  <2> HIDE DEF u
  <2>5. \A i \in 1 .. 4 : (<<cell>> \o u)[i] = IF i = 1 THEN cell ELSE u[i - 1]
    <3> HIDE DEF cell
    <3> QED BY <2>3, OneAndThree
  <2>6. t[k][j] = IF j = 1 THEN cell ELSE u[j - 1]
    BY <2>1, <2>5 DEF u
  <2>7. j # 1 => j - 1 \in 1 .. 3
    OBVIOUS
  <2> HIDE DEF t
  <2> QED BY <2>4, <2>6, <2>7 DEF nameAt
<1>5. Flattened(flat(t, 4), t, 4)
  <2> DEFINE w == 4
  <2>1. w \in Width /\ Len(t) \in Nat
    BY <1>1, <1>3 DEF Width
  <2> HIDE DEF w, t
  <2>2. Flattened(flat(t, w), t, w)
    BY <2>1, Flat
  <2> QED BY <2>2 DEF w
<1> QED BY <1>2, <1>3, <1>4, <1>5

\* The names of an option: its cell and its three units,
LEMMA NameParts ==
  ASSUME NEW board, NEW o \in Allowed(board)
  PROVE  /\ o[1] \in Blank(board) /\ o[1] \in Cell /\ o[2] \in 1 .. NUM
         /\ nameAt(o, 1) = o[1]
         /\ \A unit \in 1 .. 3 :
              /\ nameAt(o, unit + 1) = unitName(unit, numberIn(unit, o[1]), o[2])
              /\ IsUnit(unit, numberIn(unit, o[1]), o[2])
              /\ numberIn(unit, o[1]) \in 0 .. NUM - 1
              /\ unitName(unit, numberIn(unit, o[1]), o[2]) \in UnitName \ given(board)
<1>1. o \in Blank(board) \X (1 .. NUM) /\ ToSet(unitsOf(o[1], o[2])) \cap given(board) = {}
  BY DEF Allowed
<1>2. PICK cell \in Blank(board), val \in 1 .. NUM : o[1] = cell /\ o[2] = val
  BY <1>1
<1>3. cell \in Cell /\ val \in 0 .. NUM
  BY Numbers DEF Blank
<1>4. /\ \A unit \in 1 .. 3 :
           numberIn(unit, cell) \in 0 .. NUM - 1 /\ IsUnit(unit, numberIn(unit, cell), val)
      /\ ToSet(unitsOf(cell, val)) = {unitName(unit, numberIn(unit, cell), val) : unit \in 1 .. 3}
  BY <1>3, UnitsOf
<1>5. \A unit \in 1 .. 3 : unitName(unit, numberIn(unit, cell), val) \in UnitName
  BY <1>4, UnitNames
<1>6. \A unit \in 1 .. 3 : unitName(unit, numberIn(unit, cell), val) \notin given(board)
  BY <1>1, <1>2, <1>4
<1>7. \A unit \in 1 .. 3 : nameAt(o, unit + 1) = unitName(unit, numberIn(unit, cell), val)
  <2>1. \A unit \in 1 .. 3 : unit + 1 # 1 /\ (unit + 1) - 1 = unit
    OBVIOUS
  <2> QED BY <1>2, <2>1 DEF nameAt
<1>8. nameAt(o, 1) = o[1]
  BY DEF nameAt
<1> QED BY <1>2, <1>3, <1>4, <1>5, <1>6, <1>7, <1>8

\* which are four different columns.
LEMMA NamesDiffer ==
  ASSUME NEW board, NEW o \in Allowed(board)
  PROVE  /\ \A j \in 1 .. 4 : nameAt(o, j) \in ColumnName(board) /\ nameAt(o, j) \in Int
         /\ \A i, j \in 1 .. 4 : nameAt(o, i) = nameAt(o, j) => i = j
<1>1. /\ o[1] \in Blank(board) /\ o[1] \in Cell /\ o[2] \in 1 .. NUM
      /\ nameAt(o, 1) = o[1]
  BY NameParts
<1>2. \A unit \in 1 .. 3 :
        /\ nameAt(o, unit + 1) = unitName(unit, numberIn(unit, o[1]), o[2])
        /\ IsUnit(unit, numberIn(unit, o[1]), o[2])
        /\ numberIn(unit, o[1]) \in 0 .. NUM - 1
        /\ unitName(unit, numberIn(unit, o[1]), o[2]) \in UnitName \ given(board)
  BY NameParts
<1>3. \A j \in 1 .. 4 : j = 1 \/ \E unit \in 1 .. 3 : j = unit + 1
  <2>1. \A j \in 1 .. 4 : j = 1 \/ (j - 1 \in 1 .. 3 /\ j = (j - 1) + 1)
    OBVIOUS
  <2> QED BY <2>1
<1>4. ASSUME NEW unit \in 1 .. 3
      PROVE  /\ nameAt(o, unit + 1) \in ColumnName(board)
             /\ nameAt(o, unit + 1) \in Int /\ nameAt(o, unit + 1) >= 100
  <2>1. unitName(unit, numberIn(unit, o[1]), o[2]) \in Nat /\ unitName(unit, numberIn(unit, o[1]), o[2]) >= 100
    BY <1>1, <1>2, UnitNames
  <2> QED BY <1>2, <2>1 DEF ColumnName
<1>5. nameAt(o, 1) \in ColumnName(board) /\ nameAt(o, 1) \in 0 .. 80
  <2>1. o[1] \in 0 .. N - 1 /\ N <= 81 /\ N \in Nat
    BY <1>1, Numbers
  <2>2. o[1] \in ColumnName(board)
    BY <1>1 DEF ColumnName
  <2> DEFINE cell == o[1]
  <2> HIDE DEF cell
  <2>3. cell \in 0 .. 80
    BY <2>1 DEF cell
  <2> QED BY <1>1, <2>2, <2>3 DEF cell
<1>6. ASSUME NEW u \in 1 .. 3, NEW v \in 1 .. 3, nameAt(o, u + 1) = nameAt(o, v + 1) PROVE u = v
  BY <1>2, <1>6, UnitParts
<1>7. \A j \in 1 .. 4 : nameAt(o, j) \in ColumnName(board) /\ nameAt(o, j) \in Int
  BY <1>3, <1>4, <1>5
<1>8. ASSUME NEW i \in 1 .. 4, NEW j \in 1 .. 4, nameAt(o, i) = nameAt(o, j) PROVE i = j
  <2>1. CASE i = 1 /\ j = 1
    BY <2>1
  <2>2. CASE i = 1 /\ j # 1
    <3>1. PICK v \in 1 .. 3 : j = v + 1
      BY <1>3, <2>2
    <3> QED BY <1>4, <1>5, <1>8, <2>2, <3>1
  <2>3. CASE i # 1 /\ j = 1
    <3>1. PICK v \in 1 .. 3 : i = v + 1
      BY <1>3, <2>3
    <3> QED BY <1>4, <1>5, <1>8, <2>3, <3>1
  <2>4. CASE i # 1 /\ j # 1
    <3>1. PICK u \in 1 .. 3 : i = u + 1
      BY <1>3, <2>4
    <3>2. PICK v \in 1 .. 3 : j = v + 1
      BY <1>3, <2>4
    <3>3. u = v
      BY <1>6, <1>8, <3>1, <3>2
    <3> QED BY <3>1, <3>2, <3>3
  <2> QED BY <2>1, <2>2, <2>3, <2>4
<1> QED BY <1>7, <1>8

-----------------------------------------------------------------------------
(***************************************************************************)
(* The constructor's matrix is linked.                                     *)
(***************************************************************************)
\* The first node of the option of a node.
first(J, n) == n - ((n - J - 1) % 4)

\* The names from p on are those of the option o.
NamedFrom(names, p, o) == \A j \in 1 .. 4 : names[p + (j - 1)] = nameAt(o, j)

\* The names of the nodes: those of the columns, which differ, and then of options.
Layout(names, board, J, K) ==
  /\ J \in Nat /\ K \in Nat /\ J <= K
  /\ Len(names) = K
  /\ \A c \in 1 .. J : names[c] \in ColumnName(board)
  /\ \A x \in ColumnName(board) : \E c \in 1 .. J : names[c] = x
  /\ \A a, b \in 1 .. J : names[a] = names[b] => a = b
  /\ \A n \in J + 1 .. K : /\ first(J, n) \in J + 1 .. K - 3
                           /\ n \in first(J, n) .. first(J, n) + 3
                           /\ \A i \in first(J, n) .. first(J, n) + 3 : first(J, i) = first(J, n)
                           /\ \E o \in Allowed(board) : NamedFrom(names, first(J, n), o)

\* The first of the four nodes of an option.
LEMMA FirstOfFour ==
  ASSUME NEW J \in Nat, NEW i \in Nat, NEW j \in 0 .. 3
  PROVE  first(J, J + 1 + i * 4 + j) = J + 1 + i * 4
<1> DEFINE w == 4
<1>1. w \in {3, 4, 9} /\ j \in 0 .. w - 1
  OBVIOUS
<1> HIDE DEF w
<1>2. (i * w + j) % w = j
  BY <1>1, EuclidUnique
<1>3. (J + 1 + i * 4 + j) - J - 1 = i * w + j
  BY DEF w
<1> QED BY <1>2, <1>3 DEF first, w

\* The constructor names the columns first, each name once, and then the nodes
\* of options, four at a time (sudoku_dancing_links.cpp:115-150).
LEMMA NodesLaidOut ==
  ASSUME NEW board
  PROVE  LET names == columnNames(board) \o optionNames(board)
         IN  Layout(names, board, Len(columnNames(board)), Len(names))
<1> DEFINE s == columnNames(board)
           t == optionNames(board)
           names == s \o t
           J == Len(s)
           K == Len(names)
           opts == options(board)
           V == {t[k] : k \in 1 .. Len(t)}
           tuples == OptionTuples(board)
<1>1. Lists(s, ColumnName(board)) /\ Distinct(s)
  BY ColumnNames
<1>2. /\ Flattened(t, tuples, 4) /\ Len(tuples) = Len(opts)
      /\ \A k \in 1 .. Len(opts), j \in 1 .. 4 : tuples[k][j] = nameAt(opts[k], j)
  BY OptionNames
<1>3. Len(opts) \in Nat /\ \A k \in 1 .. Len(opts) : opts[k] \in Allowed(board)
  BY Options
<1> HIDE DEF s, t, opts, tuples
<1>4. Lists(t, V)
  <2>1. Len(t) \in Nat /\ DOMAIN t = 1 .. Len(t) /\ \E g : t = [k \in 1 .. Len(t) |-> g[k]]
    BY <1>2 DEF Flattened
  <2>2. t \in Seq(V)
    BY <2>1
  <2>3. (\A i \in 1 .. Len(t) : t[i] \in V) /\ \A x \in V : \E i \in 1 .. Len(t) : t[i] = x
    OBVIOUS
  <2> QED BY <2>1, <2>2, <2>3 DEF Lists
<1> HIDE DEF V
<1>5. /\ Len(names) = Len(s) + Len(t)
      /\ \A i \in 1 .. Len(s) : names[i] = s[i]
      /\ \A i \in 1 .. Len(t) : names[Len(s) + i] = t[i]
  <2> HIDE DEF names
  <2>1. names = s \o t
    BY DEF names
  <2> QED BY <1>1, <1>4, <2>1, Concatenated
<1>6. J \in Nat /\ Len(t) \in Nat
  BY <1>1, <1>2 DEF Lists, Flattened
<1>7. Len(t) = 4 * Len(opts)
  <2>1. Len(t) = Len(tuples) * 4
    BY <1>2 DEF Flattened
  <2> QED BY <1>2, <1>3, <2>1
<1> HIDE DEF names
<1>8. /\ \A c \in 1 .. J : names[c] \in ColumnName(board)
      /\ \A x \in ColumnName(board) : \E c \in 1 .. J : names[c] = x
      /\ \A a, b \in 1 .. J : names[a] = names[b] => a = b
  BY <1>1, <1>5 DEF Lists, Distinct
<1>9. ASSUME NEW n \in J + 1 .. K
      PROVE  /\ first(J, n) \in J + 1 .. K - 3
             /\ n \in first(J, n) .. first(J, n) + 3
             /\ \A i \in first(J, n) .. first(J, n) + 3 : first(J, i) = first(J, n)
             /\ \E o \in Allowed(board) : NamedFrom(names, first(J, n), o)
  <2>1. n - J \in 1 .. Len(t)
    BY <1>5, <1>6
  <2>2. PICK k \in 1 .. Len(opts), j \in 1 .. 4 : n - J = Place(k, j, 4)
    BY <1>2, <2>1 DEF Flattened
  <2> DEFINE p == J + 1 + (k - 1) * 4
  <2>3. k - 1 \in Nat /\ k <= Len(opts)
    BY <1>3
  <2>4. /\ n = J + 1 + (k - 1) * 4 + (j - 1) /\ j - 1 \in 0 .. 3
        /\ p \in J + 1 .. K - 3
    BY <1>3, <1>5, <1>6, <1>7, <2>2, <2>3 DEF Place
  <2>5. first(J, n) = p
    BY <1>6, <2>3, <2>4, FirstOfFour
  <2>6. ASSUME NEW i \in p .. p + 3 PROVE first(J, i) = p
    <3>1. i - p \in 0 .. 3 /\ i = J + 1 + (k - 1) * 4 + (i - p)
      BY <1>6, <2>3
    <3> DEFINE q == i - p
    <3> HIDE DEF q
    <3>2. q \in 0 .. 3 /\ i = J + 1 + (k - 1) * 4 + q
      BY <3>1 DEF q
    <3> QED BY <1>6, <2>3, <3>2, FirstOfFour
  <2>7. NamedFrom(names, p, opts[k])
    <3> SUFFICES ASSUME NEW i \in 1 .. 4 PROVE names[p + (i - 1)] = nameAt(opts[k], i)
      BY DEF NamedFrom
    <3>1. Place(k, i, 4) \in 1 .. Len(t) /\ t[Place(k, i, 4)] = tuples[k][i]
      BY <1>2 DEF Flattened
    <3>2. p + (i - 1) = Len(s) + Place(k, i, 4)
      BY <1>6, <2>3 DEF Place
    <3> HIDE DEF p
    <3> QED BY <1>2, <1>5, <3>1, <3>2
  <2>8. n \in p .. p + 3
    BY <1>6, <2>3, <2>4
  <2> HIDE DEF p
  <2> QED BY <1>3, <2>4, <2>5, <2>6, <2>7, <2>8
<1>10. K \in Nat /\ J <= K
  BY <1>5, <1>6
<1>11. Layout(names, board, J, K)
  <2> HIDE DEF J, K
  <2>1. J \in Nat /\ K \in Nat /\ J <= K /\ Len(names) = K
    BY <1>6, <1>10 DEF K
  <2> QED BY <1>8, <1>9, <2>1 DEF Layout
<1> QED BY <1>11 DEF names, s, t

\* after goes up in a set and from its greatest element to its least,
LEMMA AfterIn ==
  ASSUME NEW K \in Nat, NEW S \in SUBSET (0 .. K), NEW n \in S
  PROVE  /\ after(S, n) \in S
         /\ n = Max(S) => \A k \in S : after(S, n) <= k
         /\ n # Max(S) => n < after(S, n) /\ \A k \in S : n < k => after(S, n) <= k
<1> DEFINE U == {m \in S : m > n}
<1>1. S # {} /\ S \in SUBSET Nat
  OBVIOUS
<1>2. Min(S) \in S /\ (\A k \in S : Min(S) <= k)
  BY <1>1, MinNumber
<1>3. Max(S) \in S /\ (\A k \in S : k <= Max(S))
  BY <1>1, MaxNumber
<1>4. CASE n = Max(S)
  BY <1>2, <1>4 DEF after
<1>5. CASE n # Max(S)
  <2>0. PICK hi \in S : hi = Max(S)
    BY <1>3
  <2>1. U # {} /\ U \in SUBSET Nat
    <3>1. n \in Nat /\ hi \in Nat /\ n <= hi /\ n # hi
      BY <1>3, <1>5, <2>0
    <3>2. hi > n
      BY <3>1
    <3>3. hi \in U
      BY <3>2
    <3>4. U \in SUBSET Nat
      BY <1>1
    <3> QED BY <3>3, <3>4
  <2> HIDE DEF U
  <2>2. Min(U) \in U /\ (\A k \in U : Min(U) <= k)
    BY <2>1, MinNumber
  <2>3. after(S, n) = Min(U)
    BY <1>5 DEF after, U
  <2> QED BY <1>5, <2>2, <2>3 DEF U
<1> QED BY <1>4, <1>5

\* before goes down and from the least to the greatest.
LEMMA BeforeIn ==
  ASSUME NEW K \in Nat, NEW S \in SUBSET (0 .. K), NEW n \in S
  PROVE  /\ before(S, n) \in S
         /\ n = Min(S) => before(S, n) = Max(S)
         /\ n # Min(S) => before(S, n) < n /\ \A k \in S : k < n => k <= before(S, n)
<1> DEFINE U == {m \in S : m < n}
<1>1. S # {} /\ S \in SUBSET Nat
  OBVIOUS
<1>2. Min(S) \in S /\ (\A k \in S : Min(S) <= k)
  BY <1>1, MinNumber
<1>3. Max(S) \in S /\ (\A k \in S : k <= Max(S))
  BY <1>1, MaxNumber
<1>4. CASE n = Min(S)
  BY <1>3, <1>4 DEF before
<1>5. CASE n # Min(S)
  <2>0. PICK lo \in S : lo = Min(S)
    BY <1>2
  <2>1. U # {} /\ U \in SUBSET (0 .. K)
    <3>1. n \in Nat /\ lo \in Nat /\ lo <= n /\ n # lo
      BY <1>2, <1>5, <2>0
    <3>2. lo < n
      BY <3>1
    <3> QED BY <3>2
  <2> HIDE DEF U
  <2>2. Max(U) \in U /\ (\A k \in U : k <= Max(U))
    BY <2>1, MaxNumber
  <2>3. before(S, n) = Max(U)
    BY <1>5 DEF before, U
  <2> QED BY <1>5, <2>2, <2>3 DEF U
<1> QED BY <1>4, <1>5

\* Nodes linked to those after and before them are a ring.
LEMMA RingOf ==
  ASSUME NEW K \in Nat, NEW S \in SUBSET (0 .. K), NEW next, NEW prev,
         \A n \in S : next[n] = after(S, n) /\ prev[n] = before(S, n)
  PROVE  Ring(next, prev, S)
<1> SUFFICES ASSUME NEW n \in S
    PROVE  /\ next[n] \in S /\ prev[n] \in S
           /\ prev[next[n]] = n /\ next[prev[n]] = n
           /\ \A k \in S : n < k => n < next[n] /\ next[n] <= k
           /\ (\A k \in S : k <= n) => \A k \in S : next[n] <= k
  BY DEF Ring
<1>1. S # {} /\ S \in SUBSET Nat /\ S \subseteq Int
  OBVIOUS
<1>2. Min(S) \in S /\ (\A k \in S : Min(S) <= k)
  BY <1>1, MinNumber
<1>3. Max(S) \in S /\ (\A k \in S : k <= Max(S))
  BY <1>1, MaxNumber
<1>4. PICK lo \in S, hi \in S : lo = Min(S) /\ hi = Max(S)
  BY <1>2, <1>3
<1>5. ASSUME NEW i \in S
      PROVE  /\ next[i] \in S
             /\ i = hi => next[i] = lo
             /\ i # hi => i < next[i] /\ \A k \in S : i < k => next[i] <= k
  <2>1. /\ after(S, i) \in S
        /\ i = Max(S) => \A k \in S : after(S, i) <= k
        /\ i # Max(S) => i < after(S, i) /\ \A k \in S : i < k => after(S, i) <= k
    BY AfterIn
  <2>2. i = hi => after(S, i) = lo
    BY <1>4 DEF after
  <2> QED BY <1>4, <2>1, <2>2
<1>6. ASSUME NEW i \in S
      PROVE  /\ prev[i] \in S
             /\ i = lo => prev[i] = hi
             /\ i # lo => prev[i] < i /\ \A k \in S : k < i => k <= prev[i]
  <2>1. /\ before(S, i) \in S
        /\ i = Min(S) => before(S, i) = Max(S)
        /\ i # Min(S) => before(S, i) < i /\ \A k \in S : k < i => k <= before(S, i)
    BY BeforeIn
  <2> QED BY <1>4, <2>1
<1>7. \A k \in S : lo <= k /\ k <= hi
  BY <1>2, <1>3, <1>4
<1>8. prev[next[n]] = n
  <2>1. PICK k \in S : k = next[n]
    BY <1>5
  <2>2. CASE n = hi
    BY <1>5, <1>6, <2>2
  <2>3. CASE n # hi
    <3>1. n < k /\ \A i \in S : n < i => k <= i
      BY <1>5, <2>1, <2>3
    <3>2. k # lo
      BY <1>1, <1>7, <3>1
    <3>3. PICK j \in S : j = prev[k]
      BY <1>6
    <3>4. j < k /\ n <= j
      BY <1>6, <3>1, <3>2, <3>3
    <3>5. ~(n < j)
      <4>1. ASSUME n < j PROVE FALSE
        <5>1. k <= j /\ k \in Int /\ j \in Int
          BY <1>1, <3>1, <4>1
        <5> QED BY <3>4, <5>1
      <4> QED BY <4>1
    <3>6. n = j
      BY <1>1, <3>4, <3>5
    <3> QED BY <2>1, <3>3, <3>6
  <2> QED BY <2>2, <2>3
<1>9. next[prev[n]] = n
  <2>1. PICK k \in S : k = prev[n]
    BY <1>6
  <2>2. CASE n = lo
    BY <1>5, <1>6, <2>2
  <2>3. CASE n # lo
    <3>1. k < n /\ \A i \in S : i < n => i <= k
      BY <1>6, <2>1, <2>3
    <3>2. k # hi
      BY <1>1, <1>7, <3>1
    <3>3. PICK j \in S : j = next[k]
      BY <1>5
    <3>4. k < j /\ j <= n
      BY <1>5, <3>1, <3>2, <3>3
    <3>5. ~(j < n)
      <4>1. ASSUME j < n PROVE FALSE
        <5>1. j <= k /\ k \in Int /\ j \in Int
          BY <1>1, <3>1, <4>1
        <5> QED BY <3>4, <5>1
      <4> QED BY <4>1
    <3>6. n = j
      BY <1>1, <3>4, <3>5
    <3> QED BY <2>1, <3>3, <3>6
  <2> QED BY <2>2, <2>3
<1>10. \A k \in S : n < k => n < next[n] /\ next[n] <= k
  <2>1. ASSUME NEW k \in S, n < k PROVE n # hi
    BY <1>1, <1>7, <2>1
  <2> QED BY <1>5, <2>1
<1>11. (\A k \in S : k <= n) => \A k \in S : next[n] <= k
  <2>1. ASSUME \A k \in S : k <= n PROVE n = hi
    BY <1>1, <1>7, <2>1
  <2> QED BY <1>5, <1>7, <2>1
<1> QED BY <1>5, <1>6, <1>8, <1>9, <1>10, <1>11

\* The names of columns are numbers.
LEMMA ColumnNameInt ==
  ASSUME NEW board
  PROVE  ColumnName(board) \subseteq Int
<1>1. Blank(board) \subseteq Int
  BY Numbers DEF Blank
<1>2. ASSUME NEW x \in UnitName PROVE x \in Int
  <2>1. PICK unit \in 1 .. 3, number \in 0 .. NUM - 1, val \in 1 .. NUM : x = unitName(unit, number, val)
    BY UnitNames
  <2> QED BY <2>1, UnitNames
<1> QED BY <1>1, <1>2 DEF ColumnName

\* Every node has the name of a column.
LEMMA NamesOfColumns ==
  ASSUME NEW names, NEW board, NEW J, NEW K, Layout(names, board, J, K), NEW n \in 1 .. K
  PROVE  /\ names[n] \in ColumnName(board) /\ names[n] \in Int
         /\ \E c \in 1 .. J : names[c] = names[n]
<1>1. names[n] \in ColumnName(board)
  <2>1. CASE n \in 1 .. J
    BY <2>1 DEF Layout
  <2>2. CASE n \notin 1 .. J
    <3>1. n \in J + 1 .. K
      BY <2>2 DEF Layout
    <3> DEFINE p == first(J, n)
    <3>2. p \in J + 1 .. K - 3 /\ n \in p .. p + 3 /\ \E o \in Allowed(board) : NamedFrom(names, p, o)
      BY <3>1 DEF Layout
    <3> HIDE DEF p
    <3>3. PICK o \in Allowed(board) : NamedFrom(names, p, o)
      BY <3>2
    <3>4. J \in Nat /\ K \in Nat
      BY DEF Layout
    <3>5. (n - p) + 1 \in 1 .. 4 /\ n = p + (((n - p) + 1) - 1)
      BY <3>2, <3>4
    <3> DEFINE j == (n - p) + 1
    <3> HIDE DEF j
    <3>6. j \in 1 .. 4 /\ n = p + (j - 1)
      BY <3>5 DEF j
    <3>7. names[n] = nameAt(o, j)
      BY <3>3, <3>6 DEF NamedFrom
    <3> QED BY <3>6, <3>7, NamesDiffer
  <2> QED BY <2>1, <2>2
<1> QED BY <1>1, ColumnNameInt DEF Layout

\* What matrixOf makes of the names.
RowAt(J, n) == IF n <= J THEN 0 .. J ELSE first(J, n) .. first(J, n) + 3

Built(m, names, J, K) ==
  LET Node == 0 .. K
      ring(n) == {i \in Node : m.col[i] = m.col[n]}
  IN  /\ m = [name |-> m.name, col |-> m.col, right |-> m.right, left |-> m.left,
              down |-> m.down, up |-> m.up, size |-> m.size]
      /\ m.name = [n \in Node |-> IF n = 0 THEN 0 ELSE names[n]]
      /\ m.col = [n \in Node |-> CHOOSE c \in 0 .. J : m.name[c] = m.name[n] /\ (c = 0 <=> n = 0)]
      /\ m.right = [n \in Node |-> after(RowAt(J, n), n)]
      /\ m.left = [n \in Node |-> before(RowAt(J, n), n)]
      /\ m.down = [n \in Node |-> after(ring(n), n)]
      /\ m.up = [n \in Node |-> before(ring(n), n)]
      /\ m.size = [c \in 0 .. J |-> Cardinality(ring(c)) - 1]

\* matrixOf links the nodes by their names.
LEMMA MatrixBuilt ==
  ASSUME NEW names, NEW J, NEW K, K = Len(names)
  PROVE  Built(matrixOf(names, J), names, J, K)
<1> DEFINE Node == 0 .. K
           name == [n \in Node |-> IF n = 0 THEN 0 ELSE names[n]]
           col == [n \in Node |-> CHOOSE c \in 0 .. J : name[c] = name[n] /\ (c = 0 <=> n = 0)]
           right == [n \in Node |-> after(RowAt(J, n), n)]
           left == [n \in Node |-> before(RowAt(J, n), n)]
           ring(n) == {i \in Node : col[i] = col[n]}
           down == [n \in Node |-> after(ring(n), n)]
           up == [n \in Node |-> before(ring(n), n)]
           size == [c \in 0 .. J |-> Cardinality(ring(c)) - 1]
           m == matrixOf(names, J)
<1>1. m = [name |-> name, col |-> col, right |-> right, left |-> left,
           down |-> down, up |-> up, size |-> size]
  BY DEF matrixOf, RowAt, first
<1> HIDE DEF m
<1>2. /\ m.name = name /\ m.col = col /\ m.right = right /\ m.left = left
      /\ m.down = down /\ m.up = up /\ m.size = size
  <2> HIDE DEF name, col, right, left, down, up, size
  <2> QED BY <1>1
<1>3. Built(m, names, J, K)
  <2>1. /\ m.right = right /\ m.left = left
    BY <1>2
  <2> HIDE DEF right, left, down, up, size, name, col
  <2>2. \A n : {i \in Node : m.col[i] = m.col[n]} = ring(n)
    BY <1>2
  <2> HIDE DEF Node, m
  <2>3. m.down = [n \in Node |-> after({i \in Node : m.col[i] = m.col[n]}, n)]
    BY <1>2, <2>2 DEF down
  <2>4. m.up = [n \in Node |-> before({i \in Node : m.col[i] = m.col[n]}, n)]
    BY <1>2, <2>2 DEF up
  <2>5. m.size = [c \in 0 .. J |-> Cardinality({i \in Node : m.col[i] = m.col[c]}) - 1]
    BY <1>2, <2>2 DEF size
  <2>6. m.name = [n \in Node |-> IF n = 0 THEN 0 ELSE names[n]]
    BY <1>2 DEF name
  <2>7. m.col = [n \in Node |-> CHOOSE c \in 0 .. J : m.name[c] = m.name[n] /\ (c = 0 <=> n = 0)]
    BY <1>2 DEF col
  <2>8. m = [name |-> m.name, col |-> m.col, right |-> m.right, left |-> m.left,
             down |-> m.down, up |-> m.up, size |-> m.size]
    BY <1>1, <1>2
  <2>9. /\ m.right = [n \in Node |-> after(RowAt(J, n), n)]
        /\ m.left = [n \in Node |-> before(RowAt(J, n), n)]
    BY <2>1 DEF right, left
  <2> QED BY <2>3, <2>4, <2>5, <2>6, <2>7, <2>8, <2>9 DEF Built, Node
<1> QED BY <1>3 DEF m

Made(m, names, board, J, K) == Layout(names, board, J, K) /\ Built(m, names, J, K)

\* Every node is in the column of its name.
LEMMA MadeColumns ==
  ASSUME NEW m, NEW names, NEW board, NEW J, NEW K, Made(m, names, board, J, K)
  PROVE  /\ m.name \in [0 .. K -> Int] /\ m.col \in [0 .. K -> 0 .. J]
         /\ \A n \in 1 .. K : /\ m.name[n] = names[n]
                              /\ m.col[n] \in 1 .. J /\ names[m.col[n]] = names[n]
         /\ \A c \in 0 .. J : m.col[c] = c
<1>1. /\ J \in Nat /\ K \in Nat /\ J <= K
      /\ \A a, b \in 1 .. J : names[a] = names[b] => a = b
  BY DEF Made, Layout
<1>2. /\ m.name = [n \in 0 .. K |-> IF n = 0 THEN 0 ELSE names[n]]
      /\ m.col = [n \in 0 .. K |-> CHOOSE c \in 0 .. J : m.name[c] = m.name[n] /\ (c = 0 <=> n = 0)]
  BY DEF Made, Built
<1>3. \A n \in 1 .. K : names[n] \in Int /\ \E c \in 1 .. J : names[c] = names[n]
  BY NamesOfColumns DEF Made
<1>4. m.name[0] = 0 /\ \A n \in 1 .. K : m.name[n] = names[n]
  BY <1>1, <1>2
<1>5. m.name \in [0 .. K -> Int]
  <2>1. \A n \in 0 .. K : (IF n = 0 THEN 0 ELSE names[n]) \in Int
    BY <1>1, <1>3
  <2> QED BY <1>2, <2>1
<1> DEFINE Fits(c, n) == m.name[c] = m.name[n] /\ (c = 0 <=> n = 0)
<1>6. ASSUME NEW n \in 0 .. K PROVE m.col[n] \in 0 .. J /\ Fits(m.col[n], n)
  <2>1. \E c \in 0 .. J : Fits(c, n)
    <3>1. CASE n = 0
      <4>1. 0 \in 0 .. J /\ Fits(0, n)
        BY <1>1, <3>1
      <4> QED BY <4>1
    <3>2. CASE n # 0
      <4>1. n \in 1 .. K
        BY <1>1, <3>2
      <4>2. PICK c \in 1 .. J : names[c] = names[n]
        BY <1>3, <4>1
      <4>3. c \in 0 .. J /\ c \in 1 .. K /\ c # 0
        BY <1>1
      <4>4. Fits(c, n)
        BY <1>4, <3>2, <4>1, <4>2, <4>3
      <4> QED BY <4>3, <4>4
    <3> QED BY <3>1, <3>2
  <2>2. m.col[n] = CHOOSE c \in 0 .. J : Fits(c, n)
    BY <1>2
  <2> HIDE DEF Fits
  <2> QED BY <2>1, <2>2
<1>7. m.col \in [0 .. K -> 0 .. J]
  <2>1. DOMAIN m.col = 0 .. K /\ m.col = [n \in 0 .. K |-> m.col[n]]
    BY <1>2
  <2> QED BY <1>6, <2>1
<1>8. ASSUME NEW n \in 1 .. K PROVE m.col[n] \in 1 .. J /\ names[m.col[n]] = names[n]
  <2>1. PICK c \in 0 .. J : c = m.col[n] /\ Fits(c, n)
    <3>1. n \in 0 .. K
      BY <1>1
    <3> QED BY <1>6, <3>1
  <2>2. c # 0 /\ m.name[c] = m.name[n]
    BY <1>1, <2>1
  <2>3. c \in 1 .. J /\ c \in 1 .. K
    BY <1>1, <2>2
  <2> QED BY <1>4, <2>1, <2>2, <2>3
<1>9. ASSUME NEW c \in 0 .. J PROVE m.col[c] = c
  <2>1. CASE c = 0
    <3>1. Fits(m.col[0], 0)
      BY <1>1, <1>6
    <3> QED BY <2>1, <3>1
  <2>2. CASE c # 0
    <3>1. c \in 1 .. J /\ c \in 1 .. K
      BY <1>1, <2>2
    <3> QED BY <1>1, <1>8, <3>1
  <2> QED BY <2>1, <2>2
<1> QED BY <1>4, <1>5, <1>7, <1>8, <1>9

\* A ring of four nodes in a row.
LEMMA FourRing ==
  ASSUME NEW p \in Nat, NEW next, NEW prev, Ring(next, prev, p .. p + 3)
  PROVE  /\ next[p] = p + 1 /\ next[p + 1] = p + 2 /\ next[p + 2] = p + 3 /\ next[p + 3] = p
<1> DEFINE T == p .. p + 3
<1>1. \A n \in T : /\ next[n] \in T
                   /\ \A k \in T : n < k => n < next[n] /\ next[n] <= k
                   /\ (\A k \in T : k <= n) => \A k \in T : next[n] <= k
  BY DEF Ring
<1>2. ASSUME NEW i \in 0 .. 2 PROVE next[p + i] = p + i + 1
  <2>1. p + i \in T /\ p + i + 1 \in T /\ p + i < p + i + 1
    OBVIOUS
  <2> HIDE DEF T
  <2>2. PICK q \in T : q = next[p + i]
    BY <1>1, <2>1
  <2>3. p + i < q /\ q <= p + i + 1
    BY <1>1, <2>1, <2>2
  <2>4. q \in Int
    BY DEF T
  <2> QED BY <2>2, <2>3, <2>4
<1>3. next[p + 3] = p
  <2>1. p + 3 \in T /\ p \in T /\ \A k \in T : k <= p + 3 /\ p <= k /\ k \in Int
    OBVIOUS
  <2> HIDE DEF T
  <2>2. PICK q \in T : q = next[p + 3]
    BY <1>1, <2>1
  <2>3. q <= p /\ p <= q
    BY <1>1, <2>1, <2>2
  <2> QED BY <2>1, <2>2, <2>3
<1>4. next[p] = p + 1
  <2>1. p + 0 = p /\ p + 0 + 1 = p + 1
    OBVIOUS
  <2> QED BY <1>2, <2>1
<1>5. next[p + 1] = p + 2
  <2>1. p + 1 + 1 = p + 2
    OBVIOUS
  <2> QED BY <1>2, <2>1
<1>6. next[p + 2] = p + 3
  <2>1. p + 2 + 1 = p + 3
    OBVIOUS
  <2> QED BY <1>2, <2>1
<1> QED BY <1>3, <1>4, <1>5, <1>6

\* The four nodes of an option are a ring from left to right.
LEMMA MadeRows ==
  ASSUME NEW m, NEW names, NEW board, NEW J, NEW K, Made(m, names, board, J, K), NEW n \in J + 1 .. K
  PROVE  LET p == first(J, n)
         IN  /\ p \in J + 1 .. K - 3 /\ n \in p .. p + 3
             /\ Ring(m.right, m.left, p .. p + 3)
             /\ RowOf(m, n) = p .. p + 3
             /\ m.right[m.right[m.right[m.right[n]]]] = n
             /\ m.right[n] # n /\ m.right[m.right[n]] # n
<1> DEFINE p == first(J, n)
<1>1. /\ J \in Nat /\ K \in Nat /\ p \in J + 1 .. K - 3 /\ n \in p .. p + 3
      /\ \A i \in p .. p + 3 : first(J, i) = p
  BY DEF Made, Layout
<1>2. /\ m.right = [i \in 0 .. K |-> after(RowAt(J, i), i)]
      /\ m.left = [i \in 0 .. K |-> before(RowAt(J, i), i)]
  BY DEF Made, Built
<1> HIDE DEF p
<1>3. ASSUME NEW i \in p .. p + 3
      PROVE  m.right[i] = after(p .. p + 3, i) /\ m.left[i] = before(p .. p + 3, i)
  <2>1. i \in 0 .. K /\ ~(i <= J) /\ first(J, i) = p
    BY <1>1
  <2>2. RowAt(J, i) = p .. p + 3
    BY <2>1 DEF RowAt
  <2> QED BY <1>2, <2>1, <2>2
<1>4. Ring(m.right, m.left, p .. p + 3)
  <2> DEFINE T == p .. p + 3
  <2>1. T \in SUBSET (0 .. K)
    BY <1>1
  <2>2. \A i \in T : m.right[i] = after(T, i) /\ m.left[i] = before(T, i)
    BY <1>3
  <2> HIDE DEF T
  <2>3. Ring(m.right, m.left, T)
    BY <1>1, <2>1, <2>2, RingOf
  <2> QED BY <2>3 DEF T
<1>5. /\ m.right[p] = p + 1 /\ m.right[p + 1] = p + 2
      /\ m.right[p + 2] = p + 3 /\ m.right[p + 3] = p
  BY <1>1, <1>4, FourRing
<1>6. n = p \/ n = p + 1 \/ n = p + 2 \/ n = p + 3
  BY <1>1
<1>7. p .. p + 3 = {p, p + 1, p + 2, p + 3}
  BY <1>1
<1>8. p # p + 1 /\ p # p + 2 /\ p + 1 # p + 2 /\ p + 1 # p + 3 /\ p + 2 # p + 3 /\ p # p + 3
  BY <1>1
<1>9. RowOf(m, n) = {p, p + 1, p + 2, p + 3}
  <2> DEFINE a == p + 1
             b == p + 2
             c == p + 3
  <2>1. /\ m.right[p] = a /\ m.right[a] = b /\ m.right[b] = c /\ m.right[c] = p
        /\ (n = p \/ n = a \/ n = b \/ n = c)
    BY <1>5, <1>6
  <2> HIDE DEF a, b, c
  <2>2. RowOf(m, n) = {p, a, b, c}
    BY <2>1 DEF RowOf
  <2> QED BY <2>2 DEF a, b, c
<1>10. m.right[m.right[m.right[m.right[n]]]] = n
  BY <1>5, <1>6
<1>11. m.right[n] # n /\ m.right[m.right[n]] # n
  BY <1>5, <1>6, <1>8
<1> QED BY <1>1, <1>4, <1>7, <1>9, <1>10, <1>11 DEF p

\* The nodes of an option have different columns.
LEMMA MadeApart ==
  ASSUME NEW m, NEW names, NEW board, NEW J, NEW K, Made(m, names, board, J, K), NEW n \in J + 1 .. K,
         NEW i \in first(J, n) .. first(J, n) + 3, NEW k \in first(J, n) .. first(J, n) + 3,
         m.col[i] = m.col[k]
  PROVE  i = k
<1> DEFINE p == first(J, n)
<1>1. p \in J + 1 .. K - 3 /\ J \in Nat /\ K \in Nat /\ \E o \in Allowed(board) : NamedFrom(names, p, o)
  BY DEF Made, Layout
<1> HIDE DEF p
<1>2. i \in p .. p + 3 /\ k \in p .. p + 3
  BY DEF p
<1>3. PICK o \in Allowed(board) : NamedFrom(names, p, o)
  BY <1>1
<1>4. (i - p) + 1 \in 1 .. 4 /\ i = p + (((i - p) + 1) - 1) /\ (k - p) + 1 \in 1 .. 4 /\ k = p + (((k - p) + 1) - 1)
  BY <1>1, <1>2
<1> DEFINE a == (i - p) + 1
           b == (k - p) + 1
<1> HIDE DEF a, b
<1>5. a \in 1 .. 4 /\ i = p + (a - 1) /\ b \in 1 .. 4 /\ k = p + (b - 1)
  BY <1>4 DEF a, b
<1>6. names[i] = nameAt(o, a) /\ names[k] = nameAt(o, b)
  BY <1>3, <1>5 DEF NamedFrom
<1>7. names[i] = names[k]
  <2>1. i \in 1 .. K /\ k \in 1 .. K
    BY <1>1, <1>2
  <2>2. names[m.col[i]] = names[i] /\ names[m.col[k]] = names[k]
    BY <2>1, MadeColumns
  <2> QED BY <2>2
<1>8. a = b
  BY <1>5, <1>6, <1>7, NamesDiffer
<1> QED BY <1>5, <1>8

\* The constructor's links are between nodes,
LEMMA MadeTyped ==
  ASSUME NEW m, NEW names, NEW board, NEW J, NEW K, Made(m, names, board, J, K)
  PROVE  m \in Matrices(0 .. K, 0 .. J)
<1>1. J \in Nat /\ K \in Nat /\ J <= K
  BY DEF Made, Layout
<1>2. m.name \in [0 .. K -> Int] /\ m.col \in [0 .. K -> 0 .. J]
  BY MadeColumns
<1> DEFINE Node == 0 .. K
           ring(n) == {i \in Node : m.col[i] = m.col[n]}
<1>3. /\ m = [name |-> m.name, col |-> m.col, right |-> m.right, left |-> m.left,
              down |-> m.down, up |-> m.up, size |-> m.size]
      /\ m.right = [n \in Node |-> after(RowAt(J, n), n)]
      /\ m.left = [n \in Node |-> before(RowAt(J, n), n)]
      /\ m.down = [n \in Node |-> after(ring(n), n)]
      /\ m.up = [n \in Node |-> before(ring(n), n)]
      /\ m.size = [c \in 0 .. J |-> Cardinality(ring(c)) - 1]
  BY DEF Made, Built
<1>4. ASSUME NEW n \in Node PROVE RowAt(J, n) \in SUBSET Node /\ n \in RowAt(J, n)
  <2>1. CASE n <= J
    BY <1>1, <2>1 DEF RowAt
  <2>2. CASE ~(n <= J)
    <3>1. n \in J + 1 .. K
      BY <1>1, <2>2
    <3> DEFINE p == first(J, n)
    <3>2. p \in J + 1 .. K - 3 /\ n \in p .. p + 3
      BY <3>1 DEF Made, Layout
    <3>3. RowAt(J, n) = p .. p + 3
      BY <2>2 DEF RowAt
    <3> HIDE DEF p
    <3>4. p .. p + 3 \in SUBSET Node
      BY <1>1, <3>2
    <3> QED BY <3>2, <3>3, <3>4
  <2> QED BY <2>1, <2>2
<1>5. ASSUME NEW n \in Node, NEW S \in SUBSET Node, n \in S
      PROVE  after(S, n) \in Node /\ before(S, n) \in Node
  <2>1. after(S, n) \in S
    BY <1>1, <1>5, AfterIn
  <2>2. before(S, n) \in S
    BY <1>1, <1>5, BeforeIn
  <2> QED BY <2>1, <2>2
<1>6. ASSUME NEW n \in Node PROVE ring(n) \in SUBSET Node /\ n \in ring(n)
  OBVIOUS
<1> HIDE DEF ring
<1>7. m.right \in [Node -> Node]
  <2>1. \A n \in Node : after(RowAt(J, n), n) \in Node
    BY <1>4, <1>5
  <2> QED BY <1>3, <2>1
<1>8. m.left \in [Node -> Node]
  <2>1. \A n \in Node : before(RowAt(J, n), n) \in Node
    BY <1>4, <1>5
  <2> QED BY <1>3, <2>1
<1>9. m.down \in [Node -> Node]
  <2>1. \A n \in Node : after(ring(n), n) \in Node
    BY <1>5, <1>6
  <2> QED BY <1>3, <2>1
<1>10. m.up \in [Node -> Node]
  <2>1. \A n \in Node : before(ring(n), n) \in Node
    BY <1>5, <1>6
  <2> QED BY <1>3, <2>1
<1>11. m.size \in [0 .. J -> Int]
  <2>1. IsFiniteSet(Node)
    <3>1. 0 \in Int /\ K \in Int
      BY <1>1
    <3> QED BY <3>1, FS_Interval, Zenon
  <2>2. ASSUME NEW c \in 0 .. J PROVE Cardinality(ring(c)) - 1 \in Int
    <3>1. ring(c) \subseteq Node
      BY DEF ring
    <3>2. IsFiniteSet(ring(c))
      BY <2>1, <3>1, FS_Subset
    <3>3. Cardinality(ring(c)) \in Nat
      BY <3>2, FS_CardinalityType
    <3> QED BY <3>3
  <2> QED BY <1>3, <2>2
<1> QED BY <1>2, <1>3, <1>7, <1>8, <1>9, <1>10, <1>11 DEF Matrices, Node

\* its options are rings of four nodes in four columns,
LEMMA MadeFrame ==
  ASSUME NEW m, NEW names, NEW board, NEW J, NEW K, Made(m, names, board, J, K)
  PROVE  Frame(m, K, J)
<1>1. J \in Nat /\ K \in Nat /\ J <= K
  BY DEF Made, Layout
<1>2. \A c \in 0 .. J : m.col[c] = c
  BY MadeColumns
<1>3. ASSUME NEW n \in J + 1 .. K
      PROVE  /\ m.right[n] \in J + 1 .. K /\ m.left[m.right[n]] = n
             /\ m.right[m.right[m.right[m.right[n]]]] = n
             /\ m.col[n] # 0 /\ m.col[m.right[n]] # m.col[n]
             /\ m.col[m.right[m.right[n]]] # m.col[n]
  <2> DEFINE p == first(J, n)
             T == p .. p + 3
  <2>1. /\ p \in J + 1 .. K - 3 /\ n \in T
        /\ Ring(m.right, m.left, T)
        /\ m.right[m.right[m.right[m.right[n]]]] = n
        /\ m.right[n] # n /\ m.right[m.right[n]] # n
    BY MadeRows
  <2>2. \A i \in T, k \in T : m.col[i] = m.col[k] => i = k
    BY MadeApart
  <2> HIDE DEF p
  <2>3. T \subseteq J + 1 .. K
    BY <1>1, <2>1
  <2> HIDE DEF T
  <2>4. m.right[n] \in T /\ m.left[m.right[n]] = n /\ m.right[m.right[n]] \in T
    BY <2>1 DEF Ring
  <2>5. m.col[n] # 0
    <3>1. n \in 1 .. K
      BY <1>1
    <3>2. m.col[n] \in 1 .. J
      BY <3>1, MadeColumns
    <3> QED BY <1>1, <3>2
  <2> QED BY <2>1, <2>2, <2>3, <2>4, <2>5
<1>4. m \in Matrices(0 .. K, 0 .. J)
  BY MadeTyped
<1>5. J \in 0 .. K
  BY <1>1
<1> QED BY <1>1, <1>2, <1>3, <1>4, <1>5 DEF Frame

\* and all its columns are linked.
LEMMA MadeLinked ==
  ASSUME NEW m, NEW names, NEW board, NEW J, NEW K, Made(m, names, board, J, K)
  PROVE  Linked(m, K, J, 1 .. J)
<1>1. J \in Nat /\ K \in Nat /\ J <= K
  BY DEF Made, Layout
<1>2. Frame(m, K, J)
  BY MadeFrame
<1> DEFINE F == 1 .. J
           Node == 0 .. K
           S == Kept(m, K, J, F)
           ring(n) == {i \in Node : m.col[i] = m.col[n]}
<1>3. /\ m.right = [n \in Node |-> after(RowAt(J, n), n)]
      /\ m.left = [n \in Node |-> before(RowAt(J, n), n)]
      /\ m.down = [n \in Node |-> after(ring(n), n)]
      /\ m.up = [n \in Node |-> before(ring(n), n)]
      /\ m.size = [c \in 0 .. J |-> Cardinality(ring(c)) - 1]
  BY DEF Made, Built
<1>4. S = J + 1 .. K
  <2>1. ASSUME NEW n \in J + 1 .. K PROVE n \in S
    <3>1. \A i \in RowOf(m, n) : m.col[i] \in 1 .. J
      BY <1>2, RowColumns
    <3> QED BY <3>1 DEF Kept
  <2> QED BY <2>1 DEF Kept
<1>5. Horiz(m, F)
  <2> DEFINE T == {0} \cup F
  <2>1. T = 0 .. J /\ T \in SUBSET Node
    BY <1>1
  <2>2. ASSUME NEW n \in T PROVE m.right[n] = after(T, n) /\ m.left[n] = before(T, n)
    <3>1. n <= J /\ n \in Node
      BY <1>1, <2>1
    <3>2. RowAt(J, n) = T
      BY <2>1, <3>1 DEF RowAt
    <3> HIDE DEF T, ring
    <3>3. m.right[n] = after(RowAt(J, n), n) /\ m.left[n] = before(RowAt(J, n), n)
      BY <1>3, <3>1
    <3> QED BY <3>2, <3>3
  <2> HIDE DEF T
  <2>3. Ring(m.right, m.left, T)
    BY <1>1, <2>1, <2>2, RingOf
  <2> QED BY <2>3 DEF Horiz, T
<1>6. ASSUME NEW c \in F
      PROVE  /\ Ring(m.down, m.up, {c} \cup Below(m, S, c))
             /\ m.size[c] = Cardinality(Below(m, S, c))
  <2> DEFINE B == Below(m, S, c)
             T == {c} \cup B
  <2>1. c \in Node /\ c \in 0 .. J /\ m.col[c] = c
    BY <1>1, <1>2 DEF Frame
  <2>2. B = {n \in J + 1 .. K : m.col[n] = c}
    BY <1>4 DEF Below
  <2>3. ring(c) = T
    <3>1. ASSUME NEW i \in Node, m.col[i] = c PROVE i \in T
      <4>1. CASE i <= J
        <5>1. i \in 0 .. J
          BY <1>1, <4>1
        <5>2. m.col[i] = i
          BY <1>2, <5>1 DEF Frame
        <5> QED BY <3>1, <5>2
      <4>2. CASE ~(i <= J)
        <5>1. i \in J + 1 .. K
          BY <1>1, <4>2
        <5> QED BY <2>2, <3>1, <5>1
      <4> QED BY <4>1, <4>2
    <3>2. ASSUME NEW i \in T PROVE i \in Node /\ m.col[i] = c
      <4>1. \A n \in J + 1 .. K : n \in Node
        BY <1>1
      <4> QED BY <2>1, <2>2, <4>1
    <3> HIDE DEF T
    <3> QED BY <2>1, <3>1, <3>2
  <2>4. \A n \in T : n \in Node /\ m.col[n] = c /\ ring(n) = T
    BY <2>1, <2>3
  <2>5. T \in SUBSET Node
    BY <2>4
  <2> HIDE DEF ring
  <2>6. \A n \in T : m.down[n] = after(T, n) /\ m.up[n] = before(T, n)
    <3> SUFFICES ASSUME NEW n \in T PROVE m.down[n] = after(T, n) /\ m.up[n] = before(T, n)
      OBVIOUS
    <3>1. n \in Node /\ ring(n) = T
      BY <2>4
    <3>2. m.down[n] = after(ring(n), n) /\ m.up[n] = before(ring(n), n)
      BY <1>3, <3>1
    <3> QED BY <3>1, <3>2
  <2>7. Ring(m.down, m.up, T)
    <3> HIDE DEF T
    <3> QED BY <1>1, <2>5, <2>6, RingOf
  <2>8. IsFiniteSet(B) /\ c \notin B
    <3>1. IsFiniteSet(Node)
      <4>1. 0 \in Int /\ K \in Int
        BY <1>1
      <4> QED BY <4>1, FS_Interval, Zenon
    <3>2. B \subseteq Node
      BY <2>5
    <3>3. IsFiniteSet(B)
      BY <3>1, <3>2, FS_Subset
    <3>4. c \notin B
      BY <1>1, <2>2
    <3> QED BY <3>3, <3>4
  <2> HIDE DEF B
  <2>9. Cardinality(B \cup {c}) = Cardinality(B) + 1
    BY <2>8, FS_AddElement
  <2>10. T = B \cup {c}
    OBVIOUS
  <2>11. Cardinality(B) \in Nat
    BY <2>8, FS_CardinalityType
  <2>12. m.size[c] = Cardinality(T) - 1
    BY <1>3, <2>1, <2>3
  <2> HIDE DEF T
  <2>13. m.size[c] = Cardinality(B)
    BY <2>9, <2>10, <2>11, <2>12
  <2> QED BY <2>7, <2>13 DEF B, T
<1>7. Vert(m, F, S)
  BY <1>6 DEF Vert
<1> QED BY <1>2, <1>5, <1>7 DEF Linked

\* What the constructor makes of any board.
IsMatrixOf(m, board, K, J) ==
  \E names : Made(m, names, board, J, K)

\* So the constructor's matrix is linked for any board, whatever digits are given.
LEMMA NewMatrix ==
  ASSUME NEW board
  PROVE  \E K, J : IsMatrixOf(newMatrix(board), board, K, J)
<1> DEFINE names == columnNames(board) \o optionNames(board)
           J == Len(columnNames(board))
           K == Len(names)
           m == matrixOf(names, J)
<1>1. newMatrix(board) = m
  BY DEF newMatrix
<1>2. Layout(names, board, J, K)
  BY NodesLaidOut
<1> HIDE DEF names, J
<1>3. Built(m, names, J, K)
  BY MatrixBuilt
<1>4. Made(m, names, board, J, K)
  BY <1>2, <1>3 DEF Made
<1> HIDE DEF m, K
<1>5. IsMatrixOf(m, board, K, J)
  BY <1>4 DEF IsMatrixOf
<1> QED BY <1>1, <1>5

\* The options of s cover every column, and none twice.
Covers(s, m, K, J) ==
  /\ Len(s) \in Nat /\ DOMAIN s = 1 .. Len(s)
  /\ \A i \in 1 .. Len(s) : s[i] \in J + 1 .. K
  /\ \A c \in 1 .. J : \E i \in 1 .. Len(s) : c \in Columns(m, s[i])
  /\ \A i, k \in 1 .. Len(s) : \A c : c \in Columns(m, s[i]) /\ c \in Columns(m, s[k]) => i = k

\* When no column is left, the options chosen cover every column once.
LEMMA SearchCovers ==
  ASSUME NEW d, NEW m, NEW K, NEW J, Searches(d, m, K, J), d.pc = "solve", allCovered(d)
  PROVE  /\ Covers(d.stack, m, K, J)
         /\ Frame(d.matrix, K, J) /\ Like(d.matrix, m, K, J)
<1> DEFINE s == d.stack
           L == Len(s)
<1>1. PICK M : Trail(M, m, K, J, s) /\ Position(d, M, m, K, J)
  BY DEF Searches
<1>2. Frame(m, K, J)
  BY DEF Searches
<1>3. s \in Seq(J + 1 .. K) /\ L \in Nat /\ DOMAIN s = 1 .. L
  BY <1>1 DEF Trail
<1>4. ASSUME NEW i \in 1 .. L PROVE s[i] \in J + 1 .. K
  <2> DEFINE Y == J + 1 .. K
  <2>1. s \in Seq(Y)
    BY <1>3
  <2> HIDE DEF Y, s
  <2>2. s[i] \in Y
    BY <2>1
  <2> QED BY <2>2 DEF Y
<1>5. d.matrix = M[L + 1]
  BY <1>1 DEF Position, InRow
<1> DEFINE F == Free(m, J, s, L + 1)
<1>6. Linked(d.matrix, K, J, F) /\ Like(d.matrix, m, K, J)
  <2>1. L + 1 \in 1 .. L + 1
    BY <1>3
  <2>2. Level(M, m, K, J, s, L + 1)
    BY <1>1, <2>1 DEF Trail
  <2> QED BY <1>5, <2>2 DEF Level
<1>7. F = {}
  <2> HIDE DEF F
  <2>1. d.matrix.left[0] = 0
    BY DEF allCovered
  <2> QED BY <1>6, <2>1, RootAlone
<1>8. \A c \in 1 .. J : \E i \in 1 .. L : c \in Columns(m, s[i])
  <2>1. 1 .. (L + 1) - 1 = 1 .. L
    BY <1>3
  <2>2. F = (1 .. J) \ UNION {Columns(m, s[i]) : i \in 1 .. L}
    BY <2>1 DEF Free
  <2> HIDE DEF F, s
  <2> QED BY <1>7, <2>2
<1>9. ASSUME NEW i \in 1 .. L, NEW k \in 1 .. L, i < k, NEW c, c \in Columns(m, s[i]), c \in Columns(m, s[k])
      PROVE  FALSE
  <2>1. Chosen(M, m, K, J, s, k)
    BY <1>1 DEF Trail
  <2>2. s[k] \in Kept(m, K, J, Free(m, J, s, k))
    BY <2>1 DEF Chosen
  <2>3. Columns(m, s[k]) \subseteq Free(m, J, s, k)
    <3> DEFINE G == Free(m, J, s, k)
               n == s[k]
    <3>1. n \in J + 1 .. K /\ n \in Kept(m, K, J, G)
      BY <1>4, <2>2
    <3> HIDE DEF G, n
    <3>2. Columns(m, n) \subseteq G
      BY <1>2, <3>1, KeptColumns
    <3> QED BY <3>2 DEF G, n
  <2>4. i \in 1 .. k - 1
    BY <1>3, <1>9
  <2>5. c \notin Free(m, J, s, k)
    BY <1>9, <2>4 DEF Free
  <2> QED BY <1>9, <2>3, <2>5
<1>10. \A i, k \in 1 .. L : \A c : c \in Columns(m, s[i]) /\ c \in Columns(m, s[k]) => i = k
  <2> SUFFICES ASSUME NEW i \in 1 .. L, NEW k \in 1 .. L, NEW c,
                      c \in Columns(m, s[i]), c \in Columns(m, s[k])
               PROVE  i = k
    OBVIOUS
  <2>1. ~(i < k) /\ ~(k < i)
    BY <1>9
  <2> QED BY <1>3, <2>1
<1>11. Frame(d.matrix, K, J)
  BY <1>6 DEF Linked
<1>12. Covers(s, m, K, J)
  BY <1>3, <1>4, <1>8, <1>10 DEF Covers
<1> QED BY <1>6, <1>11, <1>12

-----------------------------------------------------------------------------
(***************************************************************************)
(* The end of the search: the options chosen are an exact cover.           *)
(***************************************************************************)
\* What the solver reads off a node: the cell and the digit of its option.
LEMMA Decoded ==
  ASSUME NEW m, NEW names, NEW board, NEW J, NEW K, Made(m, names, board, J, K),
         NEW e, Frame(e, K, J), Like(e, m, K, J), NEW n \in J + 1 .. K,
         NEW o \in Allowed(board), NamedFrom(names, first(J, n), o)
  PROVE  /\ \A i \in RowOf(m, n) : \E j \in 1 .. 4 : names[i] = nameAt(o, j)
         /\ \A j \in 1 .. 4 : \E i \in RowOf(m, n) : names[i] = nameAt(o, j)
         /\ cellOf(e, n) = o[1] /\ valOf(e, n) = o[2]
<1> DEFINE p == first(J, n)
           S == namesOf(e, n)
<1>1. /\ p \in J + 1 .. K - 3 /\ RowOf(m, n) = p .. p + 3
  BY MadeRows
<1>2. J \in Nat /\ K \in Nat
  BY DEF Made, Layout
<1>3. NamedFrom(names, p, o)
  OBVIOUS
<1> HIDE DEF p
<1>4. ASSUME NEW i \in RowOf(m, n) PROVE \E j \in 1 .. 4 : names[i] = nameAt(o, j)
  <2>1. i \in p .. p + 3
    BY <1>1
  <2>2. (i - p) + 1 \in 1 .. 4 /\ i = p + (((i - p) + 1) - 1)
    BY <1>1, <1>2, <2>1
  <2> DEFINE j == (i - p) + 1
  <2> HIDE DEF j
  <2>3. j \in 1 .. 4 /\ i = p + (j - 1)
    BY <2>2 DEF j
  <2> QED BY <1>3, <2>3 DEF NamedFrom
<1>5. ASSUME NEW j \in 1 .. 4 PROVE \E i \in RowOf(m, n) : names[i] = nameAt(o, j)
  <2>1. p + (j - 1) \in p .. p + 3
    BY <1>1, <1>2
  <2> QED BY <1>1, <1>3, <2>1 DEF NamedFrom
<1>6. S = {nameAt(o, j) : j \in 1 .. 4}
  <2>1. Frame(m, K, J)
    BY MadeFrame
  <2>2. RowOf(e, n) = RowOf(m, n)
    BY <2>1, LikeRows
  <2>3. ToSet(option(e, n)) = RowOf(m, n)
    BY <2>2, ColumnsOf
  <2>4. e.name = m.name
    BY DEF Like
  <2>5. \A i \in RowOf(m, n) : m.name[i] = names[i]
    <3>1. \A i \in RowOf(m, n) : i \in 1 .. K
      BY <1>1, <1>2
    <3> QED BY <3>1, MadeColumns
  <2>6. S = {names[i] : i \in RowOf(m, n)}
    BY <2>3, <2>4, <2>5 DEF namesOf
  <2> QED BY <1>4, <1>5, <2>6
<1>7. /\ o[1] \in Cell /\ o[2] \in 1 .. NUM /\ nameAt(o, 1) = o[1]
      /\ \A unit \in 1 .. 3 :
           /\ nameAt(o, unit + 1) = unitName(unit, numberIn(unit, o[1]), o[2])
           /\ numberIn(unit, o[1]) \in 0 .. NUM - 1
  BY NameParts
<1>8. PICK val \in 1 .. 9 : val = o[2]
  <2> DEFINE v == o[2]
  <2>1. v \in 1 .. NUM /\ NUM \in Nat /\ NUM <= 9
    BY <1>7, Numbers
  <2> HIDE DEF v
  <2>2. v \in 1 .. 9
    BY <2>1
  <2> QED BY <2>2 DEF v
<1>9. ASSUME NEW j \in 1 .. 4
      PROVE  \/ j = 1 /\ nameAt(o, j) < 100 /\ ~(nameAt(o, j) >= 100) /\ nameAt(o, j) = o[1]
             \/ j # 1 /\ ~(nameAt(o, j) < 100) /\ nameAt(o, j) >= 100 /\ nameAt(o, j) % 10 = val
  <2>1. CASE j = 1
    <3>1. o[1] \in 0 .. N - 1 /\ N <= 81 /\ N \in Nat
      BY <1>7, Numbers
    <3> DEFINE cell == o[1]
    <3> HIDE DEF cell
    <3>2. cell < 100 /\ ~(cell >= 100)
      BY <3>1 DEF cell
    <3> QED BY <1>7, <2>1, <3>2 DEF cell
  <2>2. CASE j # 1
    <3> DEFINE unit == j - 1
               number == numberIn(unit, o[1])
    <3>1. unit \in 1 .. 3 /\ j = unit + 1
      BY <2>2
    <3>2. nameAt(o, j) = unitName(unit, number, val) /\ number \in 0 .. NUM - 1
      BY <1>7, <1>8, <3>1
    <3>3. number \in 0 .. 8
      <4> HIDE DEF number
      <4> QED BY <3>2, Numbers
    <3> HIDE DEF number, unit
    <3>4. unit = 1 \/ unit = 2 \/ unit = 3
      BY <3>1
    <3>5. unitName(unit, number, val) = 10 * (10 * unit + number) + val
      BY <3>1, <3>3 DEF unitName
    <3>6. unitName(unit, number, val) % 10 = val /\ unitName(unit, number, val) >= 100
      BY <3>1, <3>3, <3>5
    <3>7. unitName(unit, number, val) \in Int
      BY <3>1, <3>3, <3>5
    <3> QED BY <2>2, <3>2, <3>6, <3>7
  <2> QED BY <2>1, <2>2
<1>10. cellOf(e, n) = o[1]
  <2>1. 1 \in 1 .. 4
    OBVIOUS
  <2>2. nameAt(o, 1) \in S /\ nameAt(o, 1) < 100 /\ nameAt(o, 1) = o[1]
    BY <1>6, <1>9, <2>1
  <2>3. \A name \in S : name < 100 => name = o[1]
    BY <1>6, <1>9
  <2>4. cellOf(e, n) = CHOOSE name \in S : name < 100
    BY DEF cellOf
  <2> HIDE DEF S
  <2> QED BY <2>2, <2>3, <2>4
<1>11. valOf(e, n) = o[2]
  <2>1. 2 \in 1 .. 4
    OBVIOUS
  <2>2. nameAt(o, 2) \in S /\ nameAt(o, 2) >= 100
    BY <1>6, <1>9, <2>1
  <2>3. \A name \in S : name >= 100 => name % 10 = val
    BY <1>6, <1>9
  <2>4. valOf(e, n) = (CHOOSE name \in S : name >= 100) % 10
    BY DEF valOf
  <2> HIDE DEF S
  <2>5. (CHOOSE name \in S : name >= 100) \in S /\ (CHOOSE name \in S : name >= 100) >= 100
    BY <2>2
  <2> QED BY <1>8, <2>3, <2>4, <2>5
<1> QED BY <1>4, <1>5, <1>10, <1>11

\* The options O[1] .. O[L] name every column of the board, and none twice.
ExactCover(board, L, O) ==
  /\ L \in Nat
  /\ \A i \in 1 .. L : O[i] \in Allowed(board)
  /\ \A x \in ColumnName(board) : \E i \in 1 .. L, j \in 1 .. 4 : x = nameAt(O[i], j)
  /\ \A i, k \in 1 .. L : \A a, b \in 1 .. 4 : nameAt(O[i], a) = nameAt(O[k], b) => i = k

\* The cells and digits that the solver reads off the nodes of s are those of O.
Reads(e, s, O) == \A i \in 1 .. Len(s) : cellOf(e, s[i]) = O[i][1] /\ valOf(e, s[i]) = O[i][2]

\* They are an exact cover of the blanks and the units and digits not given.
LEMMA ExactlyCovered ==
  ASSUME NEW m, NEW names, NEW board, NEW J, NEW K, Made(m, names, board, J, K),
         NEW s, Covers(s, m, K, J), NEW e, Frame(e, K, J), Like(e, m, K, J)
  PROVE  \E O : ExactCover(board, Len(s), O) /\ Reads(e, s, O)
<1> DEFINE L == Len(s)
           A == Allowed(board)
           Is(i, o) == NamedFrom(names, first(J, s[i]), o)
           O == [i \in 1 .. L |-> CHOOSE o \in A : Is(i, o)]
<1>1. /\ L \in Nat /\ DOMAIN s = 1 .. L
      /\ \A i \in 1 .. L : s[i] \in J + 1 .. K
      /\ \A c \in 1 .. J : \E i \in 1 .. L : c \in Columns(m, s[i])
      /\ \A i, k \in 1 .. L : \A c : c \in Columns(m, s[i]) /\ c \in Columns(m, s[k]) => i = k
  BY DEF Covers
<1>2. J \in Nat /\ K \in Nat /\ J <= K /\ \A a, b \in 1 .. J : names[a] = names[b] => a = b
  BY DEF Made, Layout
<1>3. ASSUME NEW i \in 1 .. L PROVE O[i] \in A /\ Is(i, O[i])
  <2>1. \E o \in A : Is(i, o)
    <3> DEFINE n == s[i]
    <3>1. n \in J + 1 .. K
      BY <1>1
    <3> HIDE DEF n
    <3>2. \E o \in Allowed(board) : NamedFrom(names, first(J, n), o)
      BY <3>1 DEF Made, Layout
    <3> QED BY <3>2 DEF n
  <2>2. O[i] = CHOOSE o \in A : Is(i, o)
    OBVIOUS
  <2> HIDE DEF Is, A, O
  <2> QED BY <2>1, <2>2
<1> HIDE DEF A, O
<1>4. ASSUME NEW i \in 1 .. L
      PROVE  /\ \A r \in RowOf(m, s[i]) : \E j \in 1 .. 4 : names[r] = nameAt(O[i], j)
             /\ \A j \in 1 .. 4 : \E r \in RowOf(m, s[i]) : names[r] = nameAt(O[i], j)
             /\ cellOf(e, s[i]) = O[i][1] /\ valOf(e, s[i]) = O[i][2]
  <2> DEFINE n == s[i]
             o == O[i]
  <2>1. n \in J + 1 .. K /\ o \in Allowed(board) /\ NamedFrom(names, first(J, n), o)
    BY <1>1, <1>3 DEF A
  <2> HIDE DEF n, o
  <2>2. /\ \A r \in RowOf(m, n) : \E j \in 1 .. 4 : names[r] = nameAt(o, j)
        /\ \A j \in 1 .. 4 : \E r \in RowOf(m, n) : names[r] = nameAt(o, j)
        /\ cellOf(e, n) = o[1] /\ valOf(e, n) = o[2]
    BY <2>1, Decoded
  <2> QED BY <2>2 DEF n, o
<1> HIDE DEF Is
\* The columns of an option have the names of its nodes.
<1>5. ASSUME NEW i \in 1 .. L, NEW r \in RowOf(m, s[i])
      PROVE  m.col[r] \in Columns(m, s[i]) /\ m.col[r] \in 1 .. J /\ names[m.col[r]] = names[r]
  <2>1. r \in 1 .. K
    <3>1. s[i] \in J + 1 .. K
      BY <1>1
    <3>2. Frame(m, K, J)
      BY MadeFrame
    <3>3. r \in J + 1 .. K
      BY <3>1, <3>2, SameRow
    <3> QED BY <1>2, <3>3
  <2> QED BY <2>1, MadeColumns DEF Columns
<1>6. ASSUME NEW x \in ColumnName(board) PROVE \E i \in 1 .. L, j \in 1 .. 4 : x = nameAt(O[i], j)
  <2>1. PICK c \in 1 .. J : names[c] = x
    BY DEF Made, Layout
  <2>2. PICK i \in 1 .. L : c \in Columns(m, s[i])
    BY <1>1
  <2>3. PICK r \in RowOf(m, s[i]) : c = m.col[r]
    BY <2>2 DEF Columns
  <2>4. names[r] = x
    BY <1>5, <2>1, <2>3
  <2> QED BY <1>4, <2>4
<1>7. ASSUME NEW i \in 1 .. L, NEW k \in 1 .. L, NEW a \in 1 .. 4, NEW b \in 1 .. 4,
             nameAt(O[i], a) = nameAt(O[k], b)
      PROVE  i = k
  <2>1. PICK r \in RowOf(m, s[i]) : names[r] = nameAt(O[i], a)
    BY <1>4
  <2>2. PICK t \in RowOf(m, s[k]) : names[t] = nameAt(O[k], b)
    BY <1>4
  <2>3. m.col[r] \in Columns(m, s[i]) /\ m.col[r] \in 1 .. J /\ names[m.col[r]] = names[r]
    BY <1>5
  <2>4. m.col[t] \in Columns(m, s[k]) /\ m.col[t] \in 1 .. J /\ names[m.col[t]] = names[t]
    BY <1>5
  <2>5. m.col[r] = m.col[t]
    BY <1>2, <1>7, <2>1, <2>2, <2>3, <2>4
  <2> QED BY <1>1, <2>3, <2>4, <2>5
<1>8. ExactCover(board, L, O)
  <2>1. \A i \in 1 .. L : O[i] \in Allowed(board)
    BY <1>3 DEF A
  <2> HIDE DEF L
  <2>2. L \in Nat
    BY <1>1 DEF L
  <2> QED BY <1>6, <1>7, <2>1, <2>2 DEF ExactCover
<1>9. Reads(e, s, O)
  BY <1>4 DEF Reads
<1> QED BY <1>8, <1>9

-----------------------------------------------------------------------------
(***************************************************************************)
(* What fill writes: the givens, and a digit in every blank.               *)
(***************************************************************************)
\* f has the givens of the board, and the digits of the options in its blanks.
IsFilled(f, board, L, O) ==
  /\ \A cell \in Cell : board[cell] # 0 => f[cell] = board[cell]
  /\ \A i \in 1 .. L : f[O[i][1]] = O[i][2]
  /\ \A cell \in Cell : board[cell] = 0 => \E i \in 1 .. L : O[i][1] = cell

\* Every blank has one option.
LEMMA BlankCovered ==
  ASSUME NEW board, NEW L, NEW O, ExactCover(board, L, O), NEW cell \in Cell
  PROVE  /\ board[cell] = 0 <=> \E i \in 1 .. L : O[i][1] = cell
         /\ \A i, k \in 1 .. L : O[i][1] = O[k][1] => i = k
<1>1. /\ \A i \in 1 .. L : O[i] \in Allowed(board)
      /\ \A x \in ColumnName(board) : \E i \in 1 .. L, j \in 1 .. 4 : x = nameAt(O[i], j)
      /\ \A i, k \in 1 .. L : \A a, b \in 1 .. 4 : nameAt(O[i], a) = nameAt(O[k], b) => i = k
  BY DEF ExactCover
<1>2. ASSUME NEW i \in 1 .. L
      PROVE  O[i][1] \in Blank(board) /\ nameAt(O[i], 1) = O[i][1]
  <2> DEFINE o == O[i]
  <2>1. o \in Allowed(board)
    BY <1>1
  <2> HIDE DEF o
  <2>2. o[1] \in Blank(board) /\ nameAt(o, 1) = o[1]
    BY <2>1, NameParts
  <2> QED BY <2>2 DEF o
<1>3. ASSUME NEW i \in 1 .. L, NEW j \in 1 .. 4, nameAt(O[i], j) \in Cell PROVE j = 1
  <2> SUFFICES ASSUME j # 1 PROVE FALSE
    OBVIOUS
  <2> DEFINE o == O[i]
             unit == j - 1
  <2>1. o \in Allowed(board) /\ unit \in 1 .. 3 /\ j = unit + 1
    BY <1>1
  <2> HIDE DEF o, unit
  <2>2. nameAt(o, j) = unitName(unit, numberIn(unit, o[1]), o[2]) /\ numberIn(unit, o[1]) \in 0 .. NUM - 1
        /\ o[2] \in 1 .. NUM
    BY <2>1, NameParts
  <2>3. unitName(unit, numberIn(unit, o[1]), o[2]) >= 100
    BY <2>1, <2>2, UnitNames
  <2> DEFINE x == nameAt(o, j)
  <2>4. x \in Cell /\ x >= 100
    BY <1>3, <2>2, <2>3 DEF o
  <2> HIDE DEF x
  <2>5. x \in 0 .. N - 1 /\ N <= 81 /\ N \in Nat
    BY <2>4, Numbers
  <2> QED BY <2>4, <2>5
<1>4. ASSUME board[cell] = 0 PROVE \E i \in 1 .. L : O[i][1] = cell
  <2>1. cell \in ColumnName(board)
    BY <1>4 DEF ColumnName, Blank
  <2>2. PICK i \in 1 .. L, j \in 1 .. 4 : cell = nameAt(O[i], j)
    BY <1>1, <2>1
  <2>3. j = 1
    BY <1>3, <2>2
  <2> QED BY <1>2, <2>2, <2>3
<1>5. ASSUME NEW i \in 1 .. L, O[i][1] = cell PROVE board[cell] = 0
  BY <1>2, <1>5 DEF Blank
<1>6. ASSUME NEW i \in 1 .. L, NEW k \in 1 .. L, O[i][1] = O[k][1] PROVE i = k
  <2>1. 1 \in 1 .. 4
    OBVIOUS
  <2>2. nameAt(O[i], 1) = nameAt(O[k], 1)
    BY <1>2, <1>6
  <2> QED BY <1>1, <2>1, <2>2
<1> QED BY <1>4, <1>5, <1>6

\* What fill writes.
LEMMA FillWrites ==
  ASSUME NEW d, IsDance(d), NEW board, d.board = board,
         Len(d.stack) \in Nat, DOMAIN d.stack = 1 .. Len(d.stack),
         \A i \in 1 .. Len(d.stack) : d.stack[i] \in Nat,
         NEW O, ExactCover(board, Len(d.stack), O), Reads(d.matrix, d.stack, O),
         DOMAIN board = Cell
  PROVE  /\ IsFilled(fill(d).board, board, Len(d.stack), O)
         /\ fill(d).pc = "true" /\ IsDance(fill(d))
<1> DEFINE s == d.stack
           L == Len(s)
           e == d.matrix
           chosen(cell) == {n \in ToSet(s) : cellOf(e, n) = cell}
           f == [cell \in Cell |-> IF chosen(cell) = {} THEN board[cell] ELSE valOf(e, Max(chosen(cell)))]
<1>1. \A i \in 1 .. L : O[i] \in Allowed(board)
  BY DEF ExactCover
<1>2. fill(d).board = f /\ fill(d).pc = "true" /\ IsDance(fill(d))
  <2> DEFINE g(b) == [cell \in Cell |-> IF chosen(cell) = {} THEN b[cell] ELSE valOf(e, Max(chosen(cell)))]
  <2>1. fill(d) = [d EXCEPT !.board = g(@), !.pc = "true"]
    BY DEF fill
  <2>2. f = g(board)
    OBVIOUS
  <2> HIDE DEF g, f
  <2>3. PICK a, b, x, y, z : d = [matrix |-> a, board |-> b, stack |-> x, row |-> y, pc |-> z]
    BY DanceParts
  <2>4. b = board
    BY <2>3
  <2>5. fill(d) = [matrix |-> a, board |-> g(b), stack |-> x, row |-> y, pc |-> "true"]
    BY <2>1, <2>3
  <2>6. fill(d).board = f /\ fill(d).pc = "true"
    BY <2>2, <2>4, <2>5
  <2>7. IsDance(fill(d))
    BY <2>5, DanceOf
  <2> QED BY <2>6, <2>7
<1>3. ToSet(s) = {s[i] : i \in 1 .. L}
  BY DEF ToSet
<1>4. \A i \in 1 .. L : cellOf(e, s[i]) = O[i][1] /\ valOf(e, s[i]) = O[i][2] /\ s[i] \in Nat
  BY DEF Reads
<1>5. ASSUME NEW cell \in Cell
      PROVE  /\ board[cell] = 0 <=> \E i \in 1 .. L : O[i][1] = cell
             /\ \A i, k \in 1 .. L : O[i][1] = O[k][1] => i = k
  BY BlankCovered
<1> HIDE DEF s, e
<1>6. ASSUME NEW cell \in Cell, board[cell] # 0 PROVE f[cell] = board[cell]
  <2>1. chosen(cell) = {}
    BY <1>3, <1>4, <1>5, <1>6
  <2> QED BY <2>1
<1>7. ASSUME NEW i \in 1 .. L PROVE f[O[i][1]] = O[i][2]
  <2>1. PICK cell \in Cell : cell = O[i][1]
    <3>1. O[i] \in Blank(board) \X (1 .. NUM)
      BY <1>1 DEF Allowed
    <3> QED BY <3>1 DEF Blank
  <2>2. chosen(cell) = {s[i]}
    <3>1. s[i] \in chosen(cell)
      BY <1>3, <1>4, <2>1
    <3>2. ASSUME NEW n \in chosen(cell) PROVE n = s[i]
      <4>1. PICK k \in 1 .. L : n = s[k]
        BY <1>3
      <4>2. O[k][1] = O[i][1]
        BY <1>4, <2>1, <4>1
      <4> QED BY <1>5, <4>1, <4>2
    <3> HIDE DEF chosen
    <3> QED BY <3>1, <3>2
  <2> DEFINE T == chosen(cell)
             x == s[i]
  <2>3. x \in Nat /\ T = {x}
    BY <1>4, <2>2
  <2>4. f[cell] = IF T = {} THEN board[cell] ELSE valOf(e, Max(T))
    OBVIOUS
  <2> HIDE DEF T, x
  <2>5. Max(T) = x
    <3>1. T \in SUBSET (0 .. x) /\ T # {}
      BY <2>3
    <3>2. Max(T) \in T
      BY <2>3, <3>1, MaxNumber
    <3> QED BY <2>3, <3>2
  <2>6. f[cell] = valOf(e, x)
    BY <2>3, <2>4, <2>5
  <2>7. valOf(e, x) = O[i][2]
    BY <1>4 DEF x
  <2> HIDE DEF f
  <2> QED BY <2>1, <2>6, <2>7
<1>8. \A cell \in Cell : board[cell] = 0 => \E i \in 1 .. L : O[i][1] = cell
  BY <1>5
<1> HIDE DEF f, L
<1>9. IsFilled(f, board, L, O)
  BY <1>6, <1>7, <1>8 DEF IsFilled
<1> QED BY <1>2, <1>9 DEF L, s

\* The k-th cell of a unit, and which one a cell is.
place(unit, number, k) ==
  CASE unit = 1 -> number * NUM + k
    [] unit = 2 -> k * NUM + number
    [] unit = 3 -> ((number \div Base) * Base + (k \div Base)) * NUM + ((number % Base) * Base + (k % Base))

positionIn(unit, cell) ==
  CASE unit = 1 -> colOf(cell)
    [] unit = 2 -> rowOf(cell)
    [] unit = 3 -> (rowOf(cell) % Base) * Base + (colOf(cell) % Base)

\* A cell from its row and column,
LEMMA RowAndColumn ==
  ASSUME NEW cell \in Cell
  PROVE  /\ rowOf(cell) \in 0 .. NUM - 1 /\ colOf(cell) \in 0 .. NUM - 1
         /\ cell = rowOf(cell) * NUM + colOf(cell)
<1>1. CASE Base = 2
  <2>1. cell \in 0 .. 15 /\ NUM = 4
    BY <1>1 DEF Cell, N, NUM
  <2> QED BY <2>1 DEF rowOf, colOf
<1>2. CASE Base = 3
  <2>1. cell \in 0 .. 80 /\ NUM = 9
    BY <1>2 DEF Cell, N, NUM
  <2> QED BY <2>1 DEF rowOf, colOf
<1> QED BY <1>1, <1>2, BaseAssumption

\* The cells of a box.
LEMMA BoxPlaces ==
  ASSUME NEW r \in 0 .. NUM - 1, NEW c \in 0 .. NUM - 1
  PROVE  LET box == (r \div Base) * Base + (c \div Base)
             k == (r % Base) * Base + (c % Base)
         IN  /\ k \in 0 .. NUM - 1 /\ box \in 0 .. NUM - 1
             /\ (box \div Base) * Base + (k \div Base) = r
             /\ (box % Base) * Base + (k % Base) = c
             /\ box \div Base = r \div Base /\ box % Base = c \div Base
<1>1. CASE Base = 2
  <2>1. r \in 0 .. 3 /\ c \in 0 .. 3 /\ NUM = 4
    BY <1>1 DEF NUM
  <2> DEFINE R == r \div 2
             C == c \div 2
             x == r % 2
             y == c % 2
  <2>2. R \in 0 .. 1 /\ C \in 0 .. 1 /\ x \in 0 .. 1 /\ y \in 0 .. 1 /\ r = R * 2 + x /\ c = C * 2 + y
    BY <2>1
  <2>3. r \div Base = R /\ c \div Base = C /\ r % Base = x /\ c % Base = y
    BY <1>1
  <2> HIDE DEF R, C, x, y
  <2>4. (R * 2 + C) \div 2 = R /\ (R * 2 + C) % 2 = C /\ (x * 2 + y) \div 2 = x /\ (x * 2 + y) % 2 = y
    BY <2>2
  <2>5. R * 2 + C \in 0 .. 3 /\ x * 2 + y \in 0 .. 3
    BY <2>2
  <2> QED BY <1>1, <2>1, <2>2, <2>3, <2>4, <2>5
<1>2. CASE Base = 3
  <2>1. r \in 0 .. 8 /\ c \in 0 .. 8 /\ NUM = 9
    BY <1>2 DEF NUM
  <2> DEFINE R == r \div 3
             C == c \div 3
             x == r % 3
             y == c % 3
  <2>2. R \in 0 .. 2 /\ C \in 0 .. 2 /\ x \in 0 .. 2 /\ y \in 0 .. 2 /\ r = R * 3 + x /\ c = C * 3 + y
    BY <2>1
  <2>3. r \div Base = R /\ c \div Base = C /\ r % Base = x /\ c % Base = y
    BY <1>2
  <2> HIDE DEF R, C, x, y
  <2>4. (R * 3 + C) \div 3 = R /\ (R * 3 + C) % 3 = C /\ (x * 3 + y) \div 3 = x /\ (x * 3 + y) % 3 = y
    BY <2>2
  <2>5. R * 3 + C \in 0 .. 8 /\ x * 3 + y \in 0 .. 8
    BY <2>2
  <2> QED BY <1>2, <2>1, <2>2, <2>3, <2>4, <2>5
<1> QED BY <1>1, <1>2, BaseAssumption

\* and from any of its units and its place in it;
LEMMA Places ==
  ASSUME NEW cell \in Cell, NEW unit \in 1 .. 3
  PROVE  /\ positionIn(unit, cell) \in 0 .. NUM - 1
         /\ cell = place(unit, numberIn(unit, cell), positionIn(unit, cell))
<1> DEFINE r == rowOf(cell)
           c == colOf(cell)
<1>1. r \in 0 .. NUM - 1 /\ c \in 0 .. NUM - 1 /\ cell = r * NUM + c
  BY RowAndColumn
<1>2. boxOf(cell) = (r \div Base) * Base + (c \div Base)
  BY DEF boxOf
<1> HIDE DEF r, c
<1> DEFINE box == (r \div Base) * Base + (c \div Base)
           k == (r % Base) * Base + (c % Base)
<1>3. /\ k \in 0 .. NUM - 1
      /\ (box \div Base) * Base + (k \div Base) = r
      /\ (box % Base) * Base + (k % Base) = c
  BY <1>1, BoxPlaces
<1>4. CASE unit = 1
  BY <1>1, <1>4 DEF place, positionIn, numberIn, r, c
<1>5. CASE unit = 2
  BY <1>1, <1>5 DEF place, positionIn, numberIn, r, c
<1>6. CASE unit = 3
  <2>1. numberIn(unit, cell) = box /\ positionIn(unit, cell) = k
    BY <1>2, <1>6 DEF positionIn, numberIn, r, c
  <2> HIDE DEF box, k
  <2>2. place(unit, box, k) = ((box \div Base) * Base + (k \div Base)) * NUM + ((box % Base) * Base + (k % Base))
    BY <1>6 DEF place
  <2>3. place(unit, box, k) = r * NUM + c
    BY <1>3, <2>2
  <2> QED BY <1>1, <1>3, <2>1, <2>3
<1> QED BY <1>4, <1>5, <1>6

\* every place in a unit is a cell.
LEMMA PlaceInCell ==
  ASSUME NEW unit \in 1 .. 3, NEW number \in 0 .. NUM - 1, NEW k \in 0 .. NUM - 1
  PROVE  place(unit, number, k) \in Cell
<1>1. ASSUME NEW r \in 0 .. NUM - 1, NEW c \in 0 .. NUM - 1 PROVE r * NUM + c \in Cell
  <2>1. CASE Base = 2
    BY <2>1 DEF Cell, N, NUM
  <2>2. CASE Base = 3
    BY <2>2 DEF Cell, N, NUM
  <2> QED BY <2>1, <2>2, BaseAssumption
<1>2. CASE unit = 1
  BY <1>1, <1>2 DEF place
<1>3. CASE unit = 2
  BY <1>1, <1>3 DEF place
<1>4. CASE unit = 3
  <2> DEFINE r == (number \div Base) * Base + (k \div Base)
             c == (number % Base) * Base + (k % Base)
  <2>1. r \in 0 .. NUM - 1
    BY BoxPlaces
  <2>2. c \in 0 .. NUM - 1
    BY BoxPlaces
  <2>3. place(unit, number, k) = r * NUM + c
    BY <1>4 DEF place
  <2> HIDE DEF r, c
  <2> QED BY <1>1, <2>1, <2>2, <2>3
<1> QED BY <1>2, <1>3, <1>4

-----------------------------------------------------------------------------
(***************************************************************************)
(* An exact cover has every digit in every unit, and so the board passes   *)
(* the test of solved.                                                     *)
(***************************************************************************)
\* Every unit of f has every digit.
Full(f) ==
  /\ \A cell \in Cell : f[cell] \in 1 .. NUM
  /\ \A unit \in 1 .. 3, number \in 0 .. NUM - 1, val \in 1 .. NUM :
       \E cell \in Cell : numberIn(unit, cell) = number /\ f[cell] = val

\* A unit with every digit has none twice.
LEMMA NoneTwice ==
  ASSUME NEW f, Full(f), NEW unit \in 1 .. 3, NEW a \in Cell, NEW b \in Cell,
         numberIn(unit, a) = numberIn(unit, b), f[a] = f[b]
  PROVE  a = b
<1> DEFINE number == numberIn(unit, a)
           S == 0 .. NUM - 1
           T == 1 .. NUM
           g == [k \in S |-> f[place(unit, number, k)]]
<1>0. NUM \in Nat /\ NUM >= 1
  BY Numbers
<1>1. number \in 0 .. NUM - 1
  <2>1. 0 \in 0 .. NUM
    BY <1>0
  <2> QED BY <2>1, UnitsOf
<1> HIDE DEF number
<1>2. /\ \A cell \in Cell : f[cell] \in T
      /\ \A val \in T : \E cell \in Cell : numberIn(unit, cell) = number /\ f[cell] = val
  BY <1>1 DEF Full
<1>3. ASSUME NEW cell \in Cell, numberIn(unit, cell) = number
      PROVE  \E k \in S : k = positionIn(unit, cell) /\ cell = place(unit, number, k) /\ g[k] = f[cell]
  <2>1. positionIn(unit, cell) \in S /\ cell = place(unit, number, positionIn(unit, cell))
    BY <1>3, Places
  <2> QED BY <2>1
<1>4. ASSUME NEW k \in S PROVE g[k] \in T
  <2>1. place(unit, number, k) \in Cell
    BY <1>1, PlaceInCell
  <2> QED BY <1>2, <2>1
<1>5. g \in [S -> T]
  <2>1. g = [k \in S |-> g[k]]
    OBVIOUS
  <2> HIDE DEF g, S, T
  <2> QED BY <1>4, <2>1
<1>6. IsFiniteSet(S) /\ Cardinality(S) = Cardinality(T)
  <2>1. 0 \in Int /\ 1 \in Int /\ NUM \in Int /\ NUM - 1 \in Int
    BY <1>0
  <2>2. IsFiniteSet(S) /\ Cardinality(S) = IF 0 > NUM - 1 THEN 0 ELSE (NUM - 1) - 0 + 1
    BY <2>1, FS_Interval
  <2>3. Cardinality(T) = IF 1 > NUM THEN 0 ELSE NUM - 1 + 1
    BY <2>1, FS_Interval
  <2> QED BY <1>0, <2>2, <2>3
<1> HIDE DEF g
<1>7. \A val \in T : \E k \in S : g[k] = val
  BY <1>2, <1>3
<1>8. g \in Injection(S, T)
  <2> HIDE DEF S, T
  <2>1. g \in Surjection(S, T)
    BY <1>5, <1>7 DEF Surjection
  <2> QED BY <1>6, <2>1, FS_SurjSameCardinalityImpliesInj
<1>9. PICK k \in S : a = place(unit, number, k) /\ g[k] = f[a]
  BY <1>3 DEF number
<1>10. PICK l \in S : b = place(unit, number, l) /\ g[l] = f[b]
  BY <1>3 DEF number
<1>11. k = l
  <2> HIDE DEF S, T
  <2>1. DOMAIN g = S /\ IsInjective(g)
    BY <1>5, <1>8 DEF Injection
  <2> QED BY <1>9, <1>10, <2>1 DEF IsInjective
<1> QED BY <1>9, <1>10, <1>11

\* Two cells are in a box if the code computes the same box for them.
LEMMA SameBox ==
  ASSUME NEW a \in Cell, NEW b \in Cell
  PROVE  sameBox(a, b) <=> boxOf(a) = boxOf(b)
<1> DEFINE r == rowOf(a)
           c == colOf(a)
           s == rowOf(b)
           t == colOf(b)
<1>1. r \in 0 .. NUM - 1 /\ c \in 0 .. NUM - 1 /\ s \in 0 .. NUM - 1 /\ t \in 0 .. NUM - 1
  BY RowAndColumn
<1>2. /\ boxOf(a) = (r \div Base) * Base + (c \div Base)
      /\ boxOf(b) = (s \div Base) * Base + (t \div Base)
      /\ sameBox(a, b) <=> r \div Base = s \div Base /\ c \div Base = t \div Base
  BY DEF boxOf, sameBox
<1> HIDE DEF r, c, s, t
<1>3. /\ boxOf(a) \div Base = r \div Base /\ boxOf(a) % Base = c \div Base
      /\ boxOf(b) \div Base = s \div Base /\ boxOf(b) % Base = t \div Base
  <2>1. /\ ((r \div Base) * Base + (c \div Base)) \div Base = r \div Base
        /\ ((r \div Base) * Base + (c \div Base)) % Base = c \div Base
    BY <1>1, BoxPlaces
  <2>2. /\ ((s \div Base) * Base + (t \div Base)) \div Base = s \div Base
        /\ ((s \div Base) * Base + (t \div Base)) % Base = t \div Base
    BY <1>1, BoxPlaces
  <2> QED BY <1>2, <2>1, <2>2
<1> QED BY <1>2, <1>3

\* The units of a cell have its digit once.
LEMMA Once ==
  ASSUME NEW f, Full(f), NEW unit \in 1 .. 3, NEW me \in Cell
  PROVE  occursOnce(f, {cell \in Cell : numberIn(unit, cell) = numberIn(unit, me)})
<1> DEFINE U == {cell \in Cell : numberIn(unit, cell) = numberIn(unit, me)}
<1> SUFFICES ASSUME NEW val \in 1 .. NUM PROVE Cardinality({cell \in U : f[cell] = val}) = 1
  BY DEF occursOnce
<1>1. numberIn(unit, me) \in 0 .. NUM - 1
  <2>1. 0 \in 0 .. NUM
    BY Numbers
  <2> QED BY <2>1, UnitsOf
<1>2. PICK x \in Cell : numberIn(unit, x) = numberIn(unit, me) /\ f[x] = val
  BY <1>1 DEF Full
<1>3. {cell \in U : f[cell] = val} = {x}
  <2>1. ASSUME NEW cell \in U, f[cell] = val PROVE cell = x
    BY <1>2, <2>1, NoneTwice
  <2> QED BY <1>2, <2>1
<1> QED BY <1>3, FS_Singleton

\* A full board passes the test of solved, and neighbors have different digits.
LEMMA FullSolved ==
  ASSUME NEW f, Full(f)
  PROVE  /\ solved(f)
         /\ \A me \in Cell : \A cell \in neighbors[me] : f[cell] # f[me]
<1>1. \A cell \in Cell : /\ numberIn(1, cell) = rowOf(cell)
                         /\ numberIn(2, cell) = colOf(cell)
                         /\ numberIn(3, cell) = boxOf(cell)
  BY DEF numberIn
<1>2. 1 \in 1 .. 3 /\ 2 \in 1 .. 3 /\ 3 \in 1 .. 3
  OBVIOUS
<1>3. ASSUME NEW me \in Cell
      PROVE  /\ occursOnce(f, {cell \in Cell : rowOf(cell) = rowOf(me)})
             /\ occursOnce(f, {cell \in Cell : colOf(cell) = colOf(me)})
             /\ occursOnce(f, {cell \in Cell : sameBox(cell, me)})
  <2>1. occursOnce(f, {cell \in Cell : numberIn(1, cell) = numberIn(1, me)})
    BY <1>2, Once
  <2>2. occursOnce(f, {cell \in Cell : numberIn(2, cell) = numberIn(2, me)})
    BY <1>2, Once
  <2>3. occursOnce(f, {cell \in Cell : numberIn(3, cell) = numberIn(3, me)})
    BY <1>2, Once
  <2>4. {cell \in Cell : rowOf(cell) = rowOf(me)} = {cell \in Cell : numberIn(1, cell) = numberIn(1, me)}
    BY <1>1
  <2>5. {cell \in Cell : colOf(cell) = colOf(me)} = {cell \in Cell : numberIn(2, cell) = numberIn(2, me)}
    BY <1>1
  <2>6. {cell \in Cell : sameBox(cell, me)} = {cell \in Cell : numberIn(3, cell) = numberIn(3, me)}
    BY <1>1, SameBox
  <2> QED BY <2>1, <2>2, <2>3, <2>4, <2>5, <2>6
<1>4. ASSUME NEW me \in Cell, NEW cell \in neighbors[me], f[cell] = f[me] PROVE FALSE
  <2>1. /\ cell \in Cell /\ cell # me
        /\ rowOf(cell) = rowOf(me) \/ colOf(cell) = colOf(me) \/ sameBox(cell, me)
    BY DEF neighbors
  <2>2. \/ numberIn(1, cell) = numberIn(1, me)
        \/ numberIn(2, cell) = numberIn(2, me)
        \/ numberIn(3, cell) = numberIn(3, me)
    BY <1>1, <2>1, SameBox
  <2> QED BY <1>2, <1>4, <2>1, <2>2, NoneTwice
<1> QED BY <1>3, <1>4 DEF solved

Digits(board) == \A cell \in Cell : board[cell] \in 0 .. NUM

\* The givens and an exact cover of the rest have every digit in every unit,
\* even where givens contradict each other.
LEMMA FilledFull ==
  ASSUME NEW board, Digits(board), NEW L, NEW O, ExactCover(board, L, O),
         NEW f, IsFilled(f, board, L, O)
  PROVE  Full(f)
<1>1. /\ \A i \in 1 .. L : O[i] \in Allowed(board)
      /\ \A x \in ColumnName(board) : \E i \in 1 .. L, j \in 1 .. 4 : x = nameAt(O[i], j)
  BY DEF ExactCover
<1>2. /\ \A cell \in Cell : board[cell] # 0 => f[cell] = board[cell]
      /\ \A i \in 1 .. L : f[O[i][1]] = O[i][2]
      /\ \A cell \in Cell : board[cell] = 0 => \E i \in 1 .. L : O[i][1] = cell
  BY DEF IsFilled
<1>3. ASSUME NEW i \in 1 .. L
      PROVE  /\ O[i][1] \in Cell /\ O[i][2] \in 1 .. NUM
             /\ nameAt(O[i], 1) = O[i][1]
             /\ \A unit \in 1 .. 3 :
                  /\ nameAt(O[i], unit + 1) = unitName(unit, numberIn(unit, O[i][1]), O[i][2])
                  /\ IsUnit(unit, numberIn(unit, O[i][1]), O[i][2])
  <2> DEFINE o == O[i]
  <2>1. o \in Allowed(board)
    BY <1>1
  <2> HIDE DEF o
  <2>2. /\ o[1] \in Cell /\ o[2] \in 1 .. NUM /\ nameAt(o, 1) = o[1]
        /\ \A unit \in 1 .. 3 :
             /\ nameAt(o, unit + 1) = unitName(unit, numberIn(unit, o[1]), o[2])
             /\ IsUnit(unit, numberIn(unit, o[1]), o[2])
    BY <2>1, NameParts
  <2> QED BY <2>2 DEF o
<1>4. ASSUME NEW cell \in Cell PROVE f[cell] \in 1 .. NUM
  <2>1. CASE board[cell] = 0
    <3>1. PICK i \in 1 .. L : O[i][1] = cell
      BY <1>2, <2>1
    <3> QED BY <1>2, <1>3, <3>1
  <2>2. CASE board[cell] # 0
    <3>1. board[cell] \in 0 .. NUM
      BY DEF Digits
    <3>2. board[cell] \in 1 .. NUM
      BY <2>2, <3>1
    <3> QED BY <1>2, <2>2, <3>2
  <2> QED BY <2>1, <2>2
<1>5. ASSUME NEW unit \in 1 .. 3, NEW number \in 0 .. NUM - 1, NEW val \in 1 .. NUM
      PROVE  \E cell \in Cell : numberIn(unit, cell) = number /\ f[cell] = val
  <2> DEFINE x == unitName(unit, number, val)
  <2>1. x \in UnitName /\ x \in Nat /\ x >= 100
    BY UnitNames
  <2>2. IsUnit(unit, number, val)
    BY Numbers DEF IsUnit
  <2>3. CASE x \in given(board)
    <3>1. PICK cell \in Cell : x \in ToSet(unitsOf(cell, board[cell]))
      BY <2>3 DEF given
    <3> DEFINE digit == board[cell]
    <3>2. digit \in 0 .. NUM
      BY DEF Digits
    <3>3. x \in ToSet(unitsOf(cell, digit))
      BY <3>1
    <3> HIDE DEF digit, x
    <3>4. PICK u \in 1 .. 3 : x = unitName(u, numberIn(u, cell), digit)
      BY <3>2, <3>3, UnitsOf
    <3>5. IsUnit(u, numberIn(u, cell), digit)
      BY <3>2, UnitsOf
    <3>6. u = unit /\ numberIn(u, cell) = number /\ digit = val
      BY <2>2, <3>4, <3>5, UnitParts DEF x
    <3>7. digit # 0
      BY <3>6
    <3> QED BY <1>2, <3>6, <3>7 DEF digit
  <2>4. CASE x \notin given(board)
    <3>1. x \in ColumnName(board)
      BY <2>1, <2>4 DEF ColumnName
    <3> HIDE DEF x
    <3>2. PICK i \in 1 .. L, j \in 1 .. 4 : x = nameAt(O[i], j)
      BY <1>1, <3>1
    <3> DEFINE cell == O[i][1]
               digit == O[i][2]
    <3>3. /\ cell \in Cell /\ digit \in 1 .. NUM /\ nameAt(O[i], 1) = cell
          /\ \A u \in 1 .. 3 :
               /\ nameAt(O[i], u + 1) = unitName(u, numberIn(u, cell), digit)
               /\ IsUnit(u, numberIn(u, cell), digit)
      BY <1>3
    <3>4. f[cell] = digit
      BY <1>2
    <3> HIDE DEF cell, digit
    <3>5. j # 1
      <4>1. cell \in 0 .. N - 1 /\ N <= 81 /\ N \in Nat
        BY <3>3, Numbers
      <4>2. ~(cell >= 100)
        BY <4>1
      <4> QED BY <2>1, <3>2, <3>3, <4>2
    <3>6. PICK u \in 1 .. 3 : j = u + 1
      <4>1. j - 1 \in 1 .. 3 /\ j = (j - 1) + 1
        BY <3>5
      <4> QED BY <4>1
    <3>7. unitName(u, numberIn(u, cell), digit) = unitName(unit, number, val)
      BY <3>2, <3>3, <3>6 DEF x
    <3>8. IsUnit(u, numberIn(u, cell), digit)
      BY <3>3
    <3>9. u = unit /\ numberIn(u, cell) = number /\ digit = val
      BY <2>2, <3>7, <3>8, UnitParts
    <3> QED BY <3>3, <3>4, <3>9
  <2> QED BY <2>3, <2>4
<1> QED BY <1>4, <1>5 DEF Full

\* A board that solves the puzzle.
Solves(board, puzzle) ==
  /\ solved(board)
  /\ \A me \in Cell : /\ puzzle[me] \in {0, board[me]}
                      /\ \A cell \in neighbors[me] : board[cell] # board[me]

\* When no column is left, what is filled in solves the puzzle.
LEMMA FillSolves ==
  ASSUME NEW puzzle, Digits(puzzle), DOMAIN puzzle = Cell,
         NEW m, NEW K, NEW J, IsMatrixOf(m, puzzle, K, J),
         NEW d, Searches(d, m, K, J), d.pc = "solve", allCovered(d), d.board = puzzle
  PROVE  fill(d).pc = "true" /\ Solves(fill(d).board, puzzle)
<1> DEFINE s == d.stack
           e == d.matrix
<1>1. PICK names : Made(m, names, puzzle, J, K)
  BY DEF IsMatrixOf
<1>2. Covers(s, m, K, J) /\ Frame(e, K, J) /\ Like(e, m, K, J)
  BY SearchCovers
<1>3. PICK O : ExactCover(puzzle, Len(s), O) /\ Reads(e, s, O)
  <2> HIDE DEF s, e
  <2> QED BY <1>1, <1>2, ExactlyCovered
<1>4. IsDance(d)
  BY DEF Searches
<1>5. Len(s) \in Nat /\ DOMAIN s = 1 .. Len(s)
  BY <1>2 DEF Covers
<1>6. \A i \in 1 .. Len(s) : s[i] \in Nat
  <2>1. J \in Nat /\ K \in Nat
    BY <1>1 DEF Made, Layout
  <2> HIDE DEF s
  <2>2. \A i \in 1 .. Len(s) : s[i] \in J + 1 .. K
    BY <1>2 DEF Covers
  <2>3. ASSUME NEW n \in J + 1 .. K PROVE n \in Nat
    BY <2>1
  <2> QED BY <2>2, <2>3
<1>7. IsFilled(fill(d).board, puzzle, Len(s), O) /\ fill(d).pc = "true"
  BY <1>3, <1>4, <1>5, <1>6, FillWrites
<1> DEFINE f == fill(d).board
<1> HIDE DEF f, s
<1>8. IsFilled(f, puzzle, Len(s), O)
  BY <1>7 DEF f
<1>9. Full(f)
  BY <1>3, <1>8, FilledFull
<1>10. solved(f) /\ \A me \in Cell : \A cell \in neighbors[me] : f[cell] # f[me]
  BY <1>9, FullSolved
<1>11. \A me \in Cell : puzzle[me] \in {0, f[me]}
  BY <1>8 DEF IsFilled
<1>12. Solves(f, puzzle)
  BY <1>10, <1>11 DEF Solves
<1> QED BY <1>7, <1>12 DEF f

\* A step of the search changes the board only where it ends.
LEMMA StepKeepsBoard ==
  ASSUME NEW d, IsDance(d)
  PROVE  /\ choose(d).board = d.board /\ choose(d).pc = "row"
         /\ try(d).board = d.board /\ try(d).pc = "solve"
         /\ giveUp(d).board = d.board /\ giveUp(d).pc \in {"false", d.pc}
<1>1. PICK a, b, x, y, z : d = [matrix |-> a, board |-> b, stack |-> x, row |-> y, pc |-> z]
  BY DanceParts
<1>2. choose(d).board = d.board /\ choose(d).pc = "row"
  <2> DEFINE c == get_min_column(d.matrix)
             m == cover(d.matrix, c)
             r == m.down[c]
  <2>1. choose(d) = [d EXCEPT !.matrix = m, !.row = r, !.pc = "row"]
    BY DEF choose
  <2> HIDE DEF m, r
  <2> QED BY <1>1, <2>1
<1>3. try(d).board = d.board /\ try(d).pc = "solve"
  <2> DEFINE g(u) == coverAll(u, walk(u.right, d.row))
  <2>1. try(d) = [d EXCEPT !.matrix = g(@), !.stack = Append(@, d.row), !.pc = "solve"]
    BY DEF try
  <2> HIDE DEF g
  <2> QED BY <1>1, <2>1
<1>4. giveUp(d).board = d.board /\ giveUp(d).pc \in {"false", d.pc}
  <2> DEFINE m == uncover(d.matrix, d.row)
             n == Last(d.stack)
             back == uncoverAll(m, reverseOrder(m, n))
             r == back.down[n]
  <2>1. giveUp(d) = IF d.stack = <<>> THEN [d EXCEPT !.matrix = m, !.pc = "false"]
                    ELSE [d EXCEPT !.matrix = back, !.stack = Front(@), !.row = r]
    BY DEF giveUp
  <2> HIDE DEF m, back, r
  <2> QED BY <1>1, <2>1
<1> QED BY <1>2, <1>3, <1>4

\* Where a search for the solution of a puzzle can be.
Solver(d, puzzle) ==
  IF d.pc = "true" THEN Solves(d.board, puzzle)
  ELSE /\ d.board = puzzle
       /\ \E m, K, J : IsMatrixOf(m, puzzle, K, J) /\ Searches(d, m, K, J)

\* A new Dance is at the start of a search for its puzzle.
LEMMA SolverStarts ==
  ASSUME NEW puzzle
  PROVE  Solver(newDance(puzzle), puzzle)
<1> DEFINE d == newDance(puzzle)
           x == newMatrix(puzzle)
<1>1. /\ d = [matrix |-> x, board |-> puzzle, stack |-> <<>>, row |-> 0, pc |-> "solve"]
  BY DEF newDance
<1>2. PICK K, J : IsMatrixOf(x, puzzle, K, J)
  BY NewMatrix
<1>3. Linked(x, K, J, 1 .. J)
  BY <1>2, MadeLinked DEF IsMatrixOf
<1> HIDE DEF d, x
<1>4. d.matrix = x /\ d.board = puzzle /\ d.stack = <<>> /\ d.pc = "solve"
  BY <1>1
<1>5. IsDance(d)
  BY <1>1, DanceOf
<1>6. Searches(d, x, K, J)
  BY <1>3, <1>4, <1>5, SearchStarts
<1>7. Solver(d, puzzle)
  BY <1>2, <1>4, <1>6 DEF Solver
<1> QED BY <1>7 DEF d

\* The steps of the search keep to it,
LEMMA SolverSteps ==
  ASSUME NEW d, NEW puzzle, Solver(d, puzzle), d.pc # "true"
  PROVE  /\ d.pc = "solve" /\ ~allCovered(d) => Solver(choose(d), puzzle)
         /\ d.pc = "row" /\ ~atHeader(d) => Solver(try(d), puzzle)
         /\ d.pc = "row" /\ atHeader(d) => Solver(giveUp(d), puzzle)
<1>1. PICK m, K, J : IsMatrixOf(m, puzzle, K, J) /\ Searches(d, m, K, J)
  BY DEF Solver
<1>2. d.board = puzzle /\ IsDance(d)
  BY <1>1 DEF Solver, Searches
<1>3. /\ choose(d).board = d.board /\ choose(d).pc = "row"
      /\ try(d).board = d.board /\ try(d).pc = "solve"
      /\ giveUp(d).board = d.board /\ giveUp(d).pc \in {"false", d.pc}
  BY <1>2, StepKeepsBoard
<1>4. ASSUME NEW e, e.board = puzzle, e.pc # "true", Searches(e, m, K, J) PROVE Solver(e, puzzle)
  BY <1>1, <1>4 DEF Solver
<1>5. CASE d.pc = "solve" /\ ~allCovered(d)
  BY <1>1, <1>2, <1>3, <1>4, <1>5, ChooseSearches
<1>6. CASE d.pc = "row" /\ ~atHeader(d)
  BY <1>1, <1>2, <1>3, <1>4, <1>6, TrySearches
<1>7. CASE d.pc = "row" /\ atHeader(d)
  BY <1>1, <1>2, <1>3, <1>4, <1>7, GiveUpSearches
<1> QED BY <1>5, <1>6, <1>7

\* and its end is a solution.
LEMMA SolverFills ==
  ASSUME NEW d, NEW puzzle, Digits(puzzle), DOMAIN puzzle = Cell,
         Solver(d, puzzle), d.pc = "solve", allCovered(d)
  PROVE  Solver(fill(d), puzzle)
<1>1. PICK m, K, J : IsMatrixOf(m, puzzle, K, J) /\ Searches(d, m, K, J)
  BY DEF Solver
<1>2. d.board = puzzle
  BY DEF Solver
<1>3. fill(d).pc = "true" /\ Solves(fill(d).board, puzzle)
  BY <1>1, <1>2, FillSolves
<1> QED BY <1>3 DEF Solver

-----------------------------------------------------------------------------
(***************************************************************************)
(* The threads: a worker who searches has a puzzle, in a row that main     *)
(* does not read into any more.                                            *)
(***************************************************************************)
Rows ==
  /\ file \in Seq(Line) /\ total \in Nat /\ Sid \in 0 .. total /\ Len(file) + total <= MaxLines
  /\ Room
  /\ DOMAIN sudoku = Job
  /\ \A i \in Job : i < total \/ (i = total /\ mpc = "count") => sudoku[i] \in Puzzle
  /\ DOMAIN wpc = Worker /\ DOMAIN job = Worker
  /\ \A w \in Worker : wpc[w] = "solve" =>
       /\ job[w] \in Nat /\ job[w] < Sid
       /\ \A v \in Worker : wpc[v] = "solve" /\ job[v] = job[w] => v = w

Solvers ==
  /\ DOMAIN dance = Worker
  /\ \A w \in Worker : dance[w] # None =>
       wpc[w] = "solve" /\ Solver(dance[w], input(sudoku[job[w]]))

SudokuInv == Rows /\ Solvers

\* The invariant of the threads holds at first.
LEMMA SudokuStarts == SudokuInit => SudokuInv
<1> SUFFICES ASSUME SudokuInit PROVE SudokuInv
  OBVIOUS
<1>1. file \in Seq(Line) /\ Len(file) <= MaxLines
  <2>1. PICK n \in 0 .. MaxLines : file \in [1 .. n -> Line]
    BY DEF SudokuInit, Init
  <2> QED BY <2>1, MaxLinesAssumption
<1>2. Rows
  <2>1. total = 0 /\ Sid = 0 /\ mpc = "read" /\ DOMAIN sudoku = Job
        /\ DOMAIN wpc = Worker /\ DOMAIN job = Worker /\ \A w \in Worker : wpc[w] = "loop"
    BY DEF SudokuInit, Init
  <2>2. Len(file) \in Nat
    BY <1>1
  <2>3. Len(file) + total <= MaxLines
    BY <1>1, <2>1, <2>2, MaxLinesAssumption
  <2>4. \A i \in Job : ~(i < total) /\ mpc # "count"
    BY <2>1, MaxLinesAssumption DEF Job
  <2> QED BY <1>1, <2>1, <2>3, <2>4 DEF Rows, Room
<1>3. Solvers
  BY DEF SudokuInit, Solvers
<1> QED BY <1>2, <1>3 DEF SudokuInv

\* The row a worker reads from is a puzzle, and main has done with it.
LEMMA RowOfWorker ==
  ASSUME Rows, NEW w \in Worker, wpc[w] = "solve"
  PROVE  /\ job[w] \in Job /\ job[w] < total
         /\ sudoku[job[w]] \in Puzzle
         /\ DOMAIN input(sudoku[job[w]]) = Cell /\ Digits(input(sudoku[job[w]]))
<1>1. job[w] \in Nat /\ job[w] < Sid /\ Sid \in 0 .. total /\ total \in Nat
      /\ file \in Seq(Line) /\ Len(file) + total <= MaxLines
  BY DEF Rows
<1>2. Len(file) \in Nat
  BY <1>1
<1>3. job[w] \in Job /\ job[w] < total
  BY <1>1, <1>2, MaxLinesAssumption DEF Job
<1>4. sudoku[job[w]] \in Puzzle
  BY <1>3 DEF Rows
<1> DEFINE line == sudoku[job[w]]
<1>5. \A cell \in Cell : line[cell + 1] \in 0 .. NUM
  BY <1>4, DigitsAssumption
<1> HIDE DEF line
<1>6. DOMAIN input(line) = Cell /\ Digits(input(line))
  BY <1>5 DEF input, Digits
<1> QED BY <1>3, <1>4, <1>6 DEF line

\* A step that leaves the searches and their puzzles alone.
LEMMA SolversKept ==
  ASSUME Solvers, UNCHANGED dance,
         \A w \in Worker : dance[w] # None =>
           wpc'[w] = "solve" /\ sudoku'[job'[w]] = sudoku[job[w]]
  PROVE  Solvers'
<1>1. ASSUME NEW w \in Worker, dance'[w] # None
      PROVE  wpc'[w] = "solve" /\ Solver(dance'[w], input(sudoku'[job'[w]]))
  <2>1. dance'[w] = dance[w]
    OBVIOUS
  <2>2. Solver(dance[w], input(sudoku[job[w]]))
    BY <1>1, <2>1 DEF Solvers
  <2>3. wpc'[w] = "solve" /\ sudoku'[job'[w]] = sudoku[job[w]]
    BY <1>1, <2>1
  <2> QED BY <2>1, <2>2, <2>3
<1>2. DOMAIN dance' = Worker
  BY DEF Solvers
<1> QED BY <1>1, <1>2 DEF Solvers

\* Main's steps keep it:
LEMMA MainKeeps == ASSUME SudokuInv, main, UNCHANGED dance PROVE SudokuInv'
<1>0. Rows /\ Solvers
  BY DEF SudokuInv
<1>1. /\ file \in Seq(Line) /\ total \in Nat /\ Sid \in 0 .. total /\ Len(file) + total <= MaxLines
      /\ Len(file) \in Nat /\ MaxLines \in Nat
  BY <1>0, MaxLinesAssumption DEF Rows
<1>2. CASE ReadLine
  <2>1. /\ file' = Tail(file) /\ sudoku' = [sudoku EXCEPT ![total] = Head(file)]
        /\ mpc = "read" /\ file # <<>>
        /\ mpc' = IF Head(file) \in Puzzle THEN "count" ELSE "read"
        /\ UNCHANGED <<total, Sid, wpc, job>>
    BY <1>2 DEF ReadLine
  <2>2. /\ Tail(file) \in Seq(Line) /\ Len(file) > 0 /\ Len(Tail(file)) = Len(file) - 1
    BY <1>1, <2>1
  <2>3. total \in Job
    BY <1>1, <2>2 DEF Job
  <2>4. \A i \in Job : sudoku'[i] = IF i = total THEN Head(file) ELSE sudoku[i]
    BY <1>0, <2>1, <2>3 DEF Rows
  <2>5. Len(file') + total' < MaxLines
    BY <1>1, <2>1, <2>2
  <2>6. \A i \in Job : i < total' \/ (i = total' /\ mpc' = "count") => sudoku'[i] \in Puzzle
    <3> SUFFICES ASSUME NEW i \in Job, i < total' \/ (i = total' /\ mpc' = "count")
                 PROVE  sudoku'[i] \in Puzzle
      OBVIOUS
    <3>1. CASE i = total
      <4>1. ~(i < total)
        BY <1>1, <3>1
      <4>2. mpc' = "count"
        BY <2>1, <4>1
      <4>3. Head(file) \in Puzzle
        BY <2>1, <4>2
      <4> QED BY <2>4, <3>1, <4>3
    <3>2. CASE i # total
      <4>1. i < total
        BY <2>1, <3>2
      <4>2. sudoku[i] \in Puzzle
        BY <1>0, <4>1 DEF Rows
      <4> QED BY <2>4, <3>2, <4>2
    <3> QED BY <3>1, <3>2
  <2>7. Rows'
    <3>1. file' \in Seq(Line) /\ Len(file') + total' <= MaxLines
      BY <1>1, <2>1, <2>2
    <3>2. Room'
      BY <2>5 DEF Room
    <3>3. DOMAIN sudoku' = Job
      BY <1>0, <2>1 DEF Rows
    <3> QED BY <1>0, <2>1, <2>6, <3>1, <3>2, <3>3 DEF Rows
  <2>8. Solvers'
    <3>1. ASSUME NEW w \in Worker, dance[w] # None
          PROVE  wpc'[w] = "solve" /\ sudoku'[job'[w]] = sudoku[job[w]]
      <4>1. wpc[w] = "solve"
        BY <1>0, <3>1 DEF Solvers
      <4>2. job[w] \in Job /\ job[w] < total
        BY <1>0, <4>1, RowOfWorker
      <4>3. job[w] # total
        BY <1>1, <4>2 DEF Job
      <4> QED BY <2>1, <2>4, <4>1, <4>2, <4>3
    <3> QED BY <1>0, <3>1, SolversKept
  <2> QED BY <2>7, <2>8 DEF SudokuInv
<1>3. ASSUME UNCHANGED <<sudoku, wpc, job>> PROVE Solvers'
  <2>1. ASSUME NEW w \in Worker, dance[w] # None
        PROVE  wpc'[w] = "solve" /\ sudoku'[job'[w]] = sudoku[job[w]]
    BY <1>0, <1>3, <2>1 DEF Solvers
  <2> QED BY <1>0, <2>1, SolversKept
<1>4. CASE CountPuzzle
  <2>1. /\ mpc = "count" /\ total' = total + 1 /\ mpc' = "read"
        /\ UNCHANGED <<file, sudoku, Sid, wpc, job>>
    BY <1>4 DEF CountPuzzle
  <2>2. Len(file) + total < MaxLines
    BY <1>0, <2>1 DEF Rows, Room
  <2>3. total' \in Nat /\ Sid' \in 0 .. total' /\ Len(file') + total' <= MaxLines
    BY <1>1, <2>1, <2>2
  <2>4. \A i \in Job : i < total' => i < total \/ i = total
    BY <1>1, <2>1 DEF Job
  <2>5. Rows'
    BY <1>0, <2>1, <2>3, <2>4 DEF Rows, Room
  <2> QED BY <1>3, <2>1, <2>5 DEF SudokuInv
<1>5. CASE EndOfFile \/ Result
  <2>1. mpc' # "count" /\ UNCHANGED <<file, sudoku, total, Sid, wpc, job>>
    BY <1>5 DEF EndOfFile, Result
  <2>2. Rows'
    BY <1>0, <2>1 DEF Rows, Room
  <2> QED BY <1>3, <2>1, <2>2 DEF SudokuInv
<1> QED BY <1>2, <1>4, <1>5 DEF main

\* so do a worker's steps that are not steps of its search,
LEMMA PoolKeeps ==
  ASSUME SudokuInv, NEW w \in Worker, pool(w), UNCHANGED dance
  PROVE  SudokuInv'
<1>0. Rows /\ Solvers
  BY DEF SudokuInv
<1>1. UNCHANGED <<file, sudoku, total, mpc>>
  BY DEF pool, Run, getJob, NoJob
<1>2. wpc[w] # "solve" /\ DOMAIN wpc = Worker /\ DOMAIN job = Worker
  BY <1>0 DEF pool, Run, getJob, NoJob, Rows
<1>3. \A v \in Worker : v # w => wpc'[v] = wpc[v] /\ job'[v] = job[v]
  BY <1>2 DEF pool, Run, getJob, NoJob
<1>4. Solvers'
  <2>1. ASSUME NEW v \in Worker, dance[v] # None
        PROVE  wpc'[v] = "solve" /\ sudoku'[job'[v]] = sudoku[job[v]]
    <3>1. wpc[v] = "solve" /\ v # w
      BY <1>0, <1>2, <2>1 DEF Solvers
    <3> QED BY <1>1, <1>3, <3>1
  <2> QED BY <1>0, <2>1, SolversKept
<1>5. CASE Run(w) \/ NoJob(w)
  <2>1. /\ \A v \in Worker : wpc'[v] = "solve" => wpc[v] = "solve"
        /\ UNCHANGED <<job, Sid>> /\ DOMAIN wpc' = Worker
    BY <1>2, <1>5 DEF Run, NoJob
  <2>2. Rows'
    BY <1>0, <1>1, <2>1 DEF Rows, Room
  <2> QED BY <1>4, <2>2 DEF SudokuInv
<1>6. CASE getJob(w)
  <2>1. /\ ~(Sid >= total) /\ job' = [job EXCEPT ![w] = Sid] /\ Sid' = Sid + 1
        /\ wpc' = [wpc EXCEPT ![w] = "solve"]
    BY <1>6 DEF getJob, noneLeft, nextSid
  <2>2. Sid \in Nat /\ Sid < total /\ total \in Nat
    BY <1>0, <2>1 DEF Rows
  <2>3. Sid' \in 0 .. total'
    BY <1>1, <2>1, <2>2
  <2>4. DOMAIN job' = Worker /\ DOMAIN wpc' = Worker /\ job'[w] = Sid
    BY <1>2, <2>1
  <2>5. ASSUME NEW v \in Worker, wpc'[v] = "solve"
        PROVE  job'[v] \in Nat /\ job'[v] < Sid'
    <3>1. CASE v = w
      BY <2>1, <2>2, <2>4, <3>1
    <3>2. CASE v # w
      <4>1. job'[v] = job[v] /\ job[v] \in Nat /\ job[v] < Sid
        BY <1>0, <1>3, <2>5, <3>2 DEF Rows
      <4> QED BY <2>1, <2>2, <4>1
    <3> QED BY <3>1, <3>2
  <2>6. ASSUME NEW v \in Worker, wpc'[v] = "solve", NEW u \in Worker, wpc'[u] = "solve", job'[u] = job'[v]
        PROVE  u = v
    <3>1. ASSUME NEW x \in Worker, x # w, wpc'[x] = "solve" PROVE job'[x] # Sid
      <4>1. job'[x] = job[x] /\ job[x] \in Nat /\ job[x] < Sid
        BY <1>0, <1>3, <3>1 DEF Rows
      <4> QED BY <2>2, <4>1
    <3>2. CASE u # w /\ v # w
      BY <1>0, <1>3, <2>6, <3>2 DEF Rows
    <3>3. CASE u = w \/ v = w
      BY <2>4, <2>6, <3>1, <3>3
    <3> QED BY <3>2, <3>3
  <2>7. Rows'
    BY <1>0, <1>1, <2>3, <2>4, <2>5, <2>6 DEF Rows, Room
  <2> QED BY <1>4, <2>7 DEF SudokuInv
<1> QED BY <1>5, <1>6 DEF pool

\* and the steps of a search.
LEMMA SearchKeeps == ASSUME SudokuInv, NEW w \in Worker, search(w) PROVE SudokuInv'
<1>0. Rows /\ Solvers
  BY DEF SudokuInv
<1> DEFINE d == dance[w]
           puzzle == input(sudoku[job[w]])
<1>1. wpc[w] = "solve"
  BY DEF search, Input, Fill, Choose, Try, GiveUp, Write, searching
<1>2. DOMAIN puzzle = Cell /\ Digits(puzzle)
  BY <1>0, <1>1, RowOfWorker
<1>3. ASSUME d # None PROVE Solver(d, puzzle)
  BY <1>0, <1>3 DEF Solvers
<1> HIDE DEF puzzle
\* One worker's search goes on.
<1>4. ASSUME UNCHANGED vars, NEW e, dance' = [dance EXCEPT ![w] = e], Solver(e, puzzle)
      PROVE  SudokuInv'
  <2>1. UNCHANGED <<file, sudoku, total, Sid, mpc, wpc, job>>
    BY <1>4 DEF vars
  <2>2. Rows'
    BY <1>0, <2>1 DEF Rows, Room
  <2>3. Solvers'
    <3>1. DOMAIN dance = Worker
      BY <1>0 DEF Solvers
    <3>2. ASSUME NEW v \in Worker, dance'[v] # None
          PROVE  wpc'[v] = "solve" /\ Solver(dance'[v], input(sudoku'[job'[v]]))
      <4>1. CASE v = w
        <5>1. dance'[v] = e
          BY <1>4, <3>1, <4>1
        <5>2. Solver(e, input(sudoku[job[w]]))
          BY <1>4 DEF puzzle
        <5> QED BY <1>1, <2>1, <4>1, <5>1, <5>2
      <4>2. CASE v # w
        <5>1. dance'[v] = dance[v]
          BY <1>4, <3>1, <4>2
        <5>2. wpc[v] = "solve" /\ Solver(dance[v], input(sudoku[job[v]]))
          BY <1>0, <3>2, <5>1 DEF Solvers
        <5> QED BY <2>1, <5>1, <5>2
      <4> QED BY <4>1, <4>2
    <3>3. DOMAIN dance' = Worker
      BY <1>4, <3>1
    <3> QED BY <3>2, <3>3 DEF Solvers
  <2> QED BY <2>2, <2>3 DEF SudokuInv
<1>5. DOMAIN dance = Worker
  BY <1>0 DEF Solvers
<1>6. CASE Input(w)
  <2>1. UNCHANGED vars /\ dance' = [dance EXCEPT ![w] = newDance(puzzle)]
    BY <1>6 DEF Input, puzzle
  <2>2. Solver(newDance(puzzle), puzzle)
    BY SolverStarts
  <2> QED BY <1>4, <2>1, <2>2
<1>7. CASE Fill(w)
  <2>1. d # None /\ d.pc = "solve" /\ allCovered(d) /\ UNCHANGED vars
        /\ dance' = [dance EXCEPT ![w] = fill(d)]
    BY <1>7 DEF Fill, searching
  <2> HIDE DEF d
  <2>2. Solver(fill(d), puzzle)
    BY <1>2, <1>3, <2>1, SolverFills
  <2> QED BY <1>4, <2>1, <2>2
<1>8. CASE Choose(w)
  <2>1. d # None /\ d.pc = "solve" /\ ~allCovered(d) /\ UNCHANGED vars
        /\ dance' = [dance EXCEPT ![w] = choose(d)]
    BY <1>8 DEF Choose, searching
  <2> HIDE DEF d
  <2>2. Solver(choose(d), puzzle)
    BY <1>3, <2>1, SolverSteps
  <2> QED BY <1>4, <2>1, <2>2
<1>9. CASE Try(w)
  <2>1. d # None /\ d.pc = "row" /\ ~atHeader(d) /\ UNCHANGED vars
        /\ dance' = [dance EXCEPT ![w] = try(d)]
    BY <1>9 DEF Try, searching
  <2> HIDE DEF d
  <2>2. Solver(try(d), puzzle)
    BY <1>3, <2>1, SolverSteps
  <2> QED BY <1>4, <2>1, <2>2
<1>10. CASE GiveUp(w)
  <2>1. d # None /\ d.pc = "row" /\ atHeader(d) /\ UNCHANGED vars
        /\ dance' = [dance EXCEPT ![w] = giveUp(d)]
    BY <1>10 DEF GiveUp, searching
  <2> HIDE DEF d
  <2>2. Solver(giveUp(d), puzzle)
    BY <1>3, <2>1, SolverSteps
  <2> QED BY <1>4, <2>1, <2>2
<1>11. CASE Write(w)
  <2>1. /\ wpc' = [wpc EXCEPT ![w] = "loop"] /\ dance' = [dance EXCEPT ![w] = None]
        /\ UNCHANGED <<file, sudoku, total, Sid, mpc, job>>
    BY <1>11 DEF Write
  <2>2. DOMAIN wpc = Worker
    BY <1>0 DEF Rows
  <2>3. /\ DOMAIN wpc' = Worker /\ wpc'[w] = "loop" /\ dance'[w] = None
        /\ \A v \in Worker : v # w => wpc'[v] = wpc[v] /\ dance'[v] = dance[v]
    BY <1>5, <2>1, <2>2
  <2>4. Rows'
    <3>1. \A v \in Worker : wpc'[v] = "solve" => wpc[v] = "solve"
      BY <2>3
    <3> QED BY <1>0, <2>1, <2>3, <3>1 DEF Rows, Room
  <2>5. Solvers'
    <3>1. ASSUME NEW v \in Worker, dance'[v] # None
          PROVE  wpc'[v] = "solve" /\ Solver(dance'[v], input(sudoku'[job'[v]]))
      <4>1. v # w
        BY <2>3, <3>1
      <4>2. wpc[v] = "solve" /\ Solver(dance[v], input(sudoku[job[v]]))
        BY <1>0, <2>3, <3>1, <4>1 DEF Solvers
      <4> QED BY <2>1, <2>3, <4>1, <4>2
    <3>2. DOMAIN dance' = Worker
      BY <1>5, <2>1
    <3> QED BY <3>1, <3>2 DEF Solvers
  <2> QED BY <2>4, <2>5 DEF SudokuInv
<1> QED BY <1>6, <1>7, <1>8, <1>9, <1>10, <1>11 DEF search

\* It is an invariant of the program.
LEMMA SudokuInvariant == SudokuSpec => []SudokuInv
<1>1. SudokuInv /\ [SudokuNext]_sudokuVars => SudokuInv'
  <2> SUFFICES ASSUME SudokuInv, [SudokuNext]_sudokuVars PROVE SudokuInv'
    OBVIOUS
  <2>1. CASE UNCHANGED sudokuVars
    BY <2>1 DEF sudokuVars, vars, SudokuInv, Rows, Room, Solvers
  <2>2. CASE main /\ UNCHANGED dance
    BY <2>2, MainKeeps
  <2>3. ASSUME NEW w \in Worker, thread(w) PROVE SudokuInv'
    BY <2>3, PoolKeeps, SearchKeeps DEF thread
  <2> QED BY <2>1, <2>2, <2>3 DEF SudokuNext
<1> QED BY <1>1, SudokuStarts, PTL DEF SudokuSpec

\* However often a search has gone down and come back, the links are those of
\* the matrix without what is covered (sudoku_dancing_links.cpp:170-234), for any
\* puzzle and any number of workers.
THEOREM LinksAreRight == SudokuSpec => []MatrixMatches
<1>1. SudokuInv => MatrixMatches
  <2> SUFFICES ASSUME SudokuInv, NEW w \in Worker, dance[w] # None, dance[w].pc # "true"
               PROVE  matches(dance[w])
    BY DEF MatrixMatches
  <2>1. Solver(dance[w], input(sudoku[job[w]]))
    BY DEF SudokuInv, Solvers
  <2>2. \E m, K, J : Searches(dance[w], m, K, J)
    BY <2>1 DEF Solver
  <2> QED BY <2>2, SearchMatches
<1> QED BY <1>1, SudokuInvariant, PTL

\* A board that the solver calls solved passes the test of Run, and no given is
\* changed (sudoku_dancing_links.cpp:196-234, main.cpp:53-56).
THEOREM SolutionsAreRight == SudokuSpec => []SolutionRight
<1>1. SudokuInv => SolutionRight
  <2> SUFFICES ASSUME SudokuInv, NEW w \in Worker, searching(w, "true")
               PROVE  LET puzzle == input(sudoku[job[w]])
                          board  == dance[w].board
                      IN  /\ solved(board)
                          /\ \A me \in Cell : /\ puzzle[me] \in {0, board[me]}
                                              /\ \A cell \in neighbors[me] : board[cell] # board[me]
    BY DEF SolutionRight
  <2>1. dance[w] # None /\ dance[w].pc = "true"
    BY DEF searching
  <2>2. Solver(dance[w], input(sudoku[job[w]]))
    BY <2>1 DEF SudokuInv, Solvers
  <2>3. Solves(dance[w].board, input(sudoku[job[w]]))
    BY <2>1, <2>2 DEF Solver
  <2> QED BY <2>3 DEF Solves
<1> QED BY <1>1, SudokuInvariant, PTL

\* The rows of workers are apart from each other and from the reader's
\* (main.cpp:52-59, 104) while they search step by step.
THEOREM SearchesKeptApart == SudokuSpec => []JobsSeparate
<1>1. SudokuInv => JobsSeparate
  BY RowOfWorker DEF SudokuInv, Rows, JobsSeparate
<1> QED BY <1>1, SudokuInvariant, PTL

=============================================================================
