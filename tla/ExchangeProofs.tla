---------------------------- MODULE ExchangeProofs ----------------------------
(***************************************************************************)
(* The semaphores of Exchange: types, exclusion, fresh results, and that   *)
(* they implement Rendezvous, for any number of participants.              *)
(***************************************************************************)
EXTENDS Exchange, TLAPS

\* Where the poster is for p: 1 to 5 in postProgram, 6 to 10 in collectProgram,
\* 1 before its turn to post, 6 between posting and its turn to collect.
pos(p) ==
    IF pk[1] = "post" THEN IF turn = p THEN pk[2] ELSE IF turn < p THEN 1 ELSE 6
    ELSE IF turn = p THEN 5 + pk[2] ELSE IF turn < p THEN 6 ELSE 1

\* The worker's instruction that puts the result out, and the one that gives
\* the task's or the result's mutex back.
puts(p)   == IF p \in TaskFirst THEN 9 ELSE 7
leavesT(p) == IF p \in TaskFirst THEN 6 ELSE 8
leavesR(p) == IF p \in TaskFirst THEN 8 ELSE 6

Count(p, lock, s) == sem[p][lock][s]

\* The task is being written, is out, is worked on, or its result is out.
Phase(p) ==
    \/ /\ pos(p) \in 1 .. 5 /\ wk[p] = 1
       /\ Count(p, "task", "full") = 0 /\ Count(p, "ret", "full") = 0
    \/ /\ pos(p) = 6 /\ wk[p] = 1
       /\ Count(p, "task", "full") = 1 /\ Count(p, "ret", "full") = 0
    \/ /\ pos(p) = 6 /\ wk[p] \in 2 .. puts(p)
       /\ Count(p, "task", "full") = 0 /\ Count(p, "ret", "full") = 0
    \/ /\ pos(p) \in {1} \cup 6 .. 10 /\ (wk[p] = 1 \/ wk[p] \in puts(p) + 1 .. 9)
       /\ Count(p, "task", "full") = 0
       /\ Count(p, "ret", "full") = IF pos(p) = 6 THEN 1 ELSE 0

\* What the other semaphores count follows from where the two threads are.
Counts(p) ==
    /\ Count(p, "task", "empty") =
         IF \/ wk[p] = 1 /\ pos(p) \notin 2 .. 5 /\ Count(p, "task", "full") = 0
            \/ p \in TaskFirst /\ wk[p] \in 8 .. 9
         THEN 1 ELSE 0
    /\ Count(p, "task", "mutex") =
         IF pos(p) \in 3 .. 4 \/ wk[p] \in 3 .. leavesT(p) THEN 0 ELSE 1
    /\ Count(p, "ret", "empty") =
         IF \/ pos(p) \in 1 .. 5
            \/ pos(p) = 6 /\ wk[p] <= 3 /\ Count(p, "ret", "full") = 0
         THEN 1 ELSE 0
    /\ Count(p, "ret", "mutex") =
         IF pos(p) \in 8 .. 9 \/ wk[p] \in 5 .. leavesR(p) THEN 0 ELSE 1

\* The buffers hold what belongs to this round.
Buffers(p) ==
    /\ pos(p) \in 4 .. 10 => task[p] = round
    /\ \/ Count(p, "ret", "full") = 1
       \/ pos(p) \in 7 .. 10
       \/ pos(p) = 6 /\ wk[p] >= 6
       => ret[p] = round

Lock == {"task", "ret"}
Sem == {"empty", "full", "mutex"}

Typed ==
    /\ sem \in [PId -> [Lock -> [Sem -> Int]]]
    /\ task \in [PId -> 0 .. Rounds - 1]
    /\ ret \in [PId -> 0 .. Rounds - 1]
    /\ got \in 0 .. Rounds - 1
    /\ round \in 0 .. Rounds - 1
    /\ turn \in PId
    /\ pk \in {"post", "collect"} \X (1 .. 5)
    /\ wk \in [PId -> 1 .. 9]

PInv(p) == Phase(p) /\ Counts(p) /\ Buffers(p)

ExchangeInv == Typed /\ \A p \in PId : PInv(p)

-----------------------------------------------------------------------------
LEMMA PostProgram ==
  /\ Len(postProgram) = 5
  /\ postProgram[1] = wait("task", "empty") /\ postProgram[2] = wait("task", "mutex")
  /\ postProgram[3] = use
  /\ postProgram[4] = post("task", "mutex") /\ postProgram[5] = post("task", "full")
BY DEF postProgram, pGet, pRelease

LEMMA CollectProgram ==
  /\ Len(collectProgram) = 5
  /\ collectProgram[1] = wait("ret", "full") /\ collectProgram[2] = wait("ret", "mutex")
  /\ collectProgram[3] = use
  /\ collectProgram[4] = post("ret", "mutex") /\ collectProgram[5] = post("ret", "empty")
BY DEF collectProgram, cGet, cRelease

LEMMA WorkerProgram ==
  ASSUME NEW p \in PId
  PROVE  LET prog == workerProgram(p) IN
         /\ Len(prog) = 9
         /\ prog[1] = wait("task", "full") /\ prog[2] = wait("task", "mutex")
         /\ prog[3] = wait("ret", "empty") /\ prog[4] = wait("ret", "mutex")
         /\ prog[5] = use
         /\ p \in TaskFirst =>
              /\ prog[6] = post("task", "mutex") /\ prog[7] = post("task", "empty")
              /\ prog[8] = post("ret", "mutex") /\ prog[9] = post("ret", "full")
         /\ p \notin TaskFirst =>
              /\ prog[6] = post("ret", "mutex") /\ prog[7] = post("ret", "full")
              /\ prog[8] = post("task", "mutex") /\ prog[9] = post("task", "empty")
<1>1. CASE p \in TaskFirst
  BY <1>1 DEF workerProgram, cGet, pGet, cRelease, pRelease
<1>2. CASE p \notin TaskFirst
  BY <1>2 DEF workerProgram, cGet, pGet, cRelease, pRelease
<1> QED BY <1>1, <1>2

\* What a semaphore operation does to the counts.
Only(p, lock, s, n) ==
    /\ sem' \in [PId -> [Lock -> [Sem -> Int]]]
    /\ \A q \in PId : q # p => sem'[q] = sem[q]
    /\ \A l \in Lock, x \in Sem :
         sem'[p][l][x] = IF l = lock /\ x = s THEN sem[p][l][x] + n ELSE sem[p][l][x]

Changed(p, lock, s, n) ==
    \A l \in Lock, x \in Sem :
      Count(p, l, x)' = IF l = lock /\ x = s THEN Count(p, l, x) + n ELSE Count(p, l, x)

LEMMA Waits ==
  ASSUME Typed, NEW p \in PId, NEW lock \in Lock, NEW s \in Sem, Semaphore(p, wait(lock, s))
  PROVE  Count(p, lock, s) > 0 /\ Only(p, lock, s, -1)
<1>1. /\ sem[p][lock][s] > 0
      /\ sem' = [sem EXCEPT ![p][lock][s] = @ - 1]
  BY DEF Semaphore, wait
<1> QED BY <1>1 DEF Typed, Count, Only

LEMMA Posts ==
  ASSUME Typed, NEW p \in PId, NEW lock \in Lock, NEW s \in Sem, Semaphore(p, post(lock, s))
  PROVE  Only(p, lock, s, 1)
<1>1. sem' = [sem EXCEPT ![p][lock][s] = @ + 1]
  BY DEF Semaphore, post
<1> QED BY <1>1 DEF Typed, Only

\* Where a step of the poster leads.
LEMMA Advance ==
  ASSUME Typed, PosterAdvance, NEW p \in PId
  PROVE  /\ pos(p)' = IF p # turn THEN pos(p) ELSE IF pos(p) = 10 THEN 1 ELSE pos(p) + 1
         /\ pk' \in {"post", "collect"} \X (1 .. 5) /\ turn' \in PId
         /\ round' \in 0 .. Rounds - 1
         /\ round' # round => pos(p)' = 1
<1>1. Len(posterProgram) = 5
  BY PostProgram, CollectProgram DEF posterProgram
<1>2. /\ pk = <<pk[1], pk[2]>> /\ pk[1] \in {"post", "collect"} /\ pk[2] \in 1 .. 5
      /\ turn \in 1 .. PNum /\ p \in 1 .. PNum /\ PNum \in Nat /\ Rounds \in Nat
      /\ round \in 0 .. Rounds - 1
  BY ExchangeAssumption DEF Typed, PId
<1>3. CASE pk[2] < 5
  <2>1. pk' = <<pk[1], pk[2] + 1>> /\ turn' = turn /\ round' = round
    BY <1>1, <1>2, <1>3 DEF PosterAdvance
  <2> QED BY <1>2, <1>3, <2>1 DEF pos, PId
<1>4. CASE pk[2] = 5 /\ turn < PNum
  <2>1. pk' = <<pk[1], 1>> /\ turn' = turn + 1 /\ round' = round
    BY <1>1, <1>2, <1>4 DEF PosterAdvance
  <2> QED BY <1>2, <1>4, <2>1 DEF pos, PId
<1>5. CASE pk[2] = 5 /\ turn = PNum
  <2>1. /\ pk' = IF pk[1] = "post" THEN <<"collect", 1>> ELSE <<"post", 1>>
        /\ turn' = 1
        /\ round' = IF pk[1] = "post" THEN round ELSE (round + 1) % Rounds
    BY <1>1, <1>2, <1>5 DEF PosterAdvance
  <2>2. (round + 1) % Rounds \in 0 .. Rounds - 1
    BY <1>2, ExchangeAssumption
  <2> QED BY <1>2, <1>5, <2>1, <2>2 DEF pos, PId
<1> QED BY <1>2, <1>3, <1>4, <1>5

\* The instruction of the poster when it deals with p.
LEMMA PosterInstruction ==
  ASSUME Typed, NEW p \in PId, p = turn
  PROVE  /\ pos(p) = 1 => posterProgram[pk[2]] = wait("task", "empty")
         /\ pos(p) = 2 => posterProgram[pk[2]] = wait("task", "mutex")
         /\ pos(p) = 3 => posterProgram[pk[2]] = use /\ pk[1] = "post"
         /\ pos(p) = 4 => posterProgram[pk[2]] = post("task", "mutex")
         /\ pos(p) = 5 => posterProgram[pk[2]] = post("task", "full")
         /\ pos(p) = 6 => posterProgram[pk[2]] = wait("ret", "full")
         /\ pos(p) = 7 => posterProgram[pk[2]] = wait("ret", "mutex")
         /\ pos(p) = 8 => posterProgram[pk[2]] = use /\ pk[1] = "collect"
         /\ pos(p) = 9 => posterProgram[pk[2]] = post("ret", "mutex")
         /\ pos(p) = 10 => posterProgram[pk[2]] = post("ret", "empty")
         /\ pos(p) \in 1 .. 10
<1>1. pk[1] \in {"post", "collect"} /\ pk[2] \in 1 .. 5
  BY DEF Typed
<1>2. CASE pk[1] = "post"
  BY <1>1, <1>2, PostProgram DEF posterProgram, pos
<1>3. CASE pk[1] = "collect"
  BY <1>1, <1>3, CollectProgram DEF posterProgram, pos
<1> QED BY <1>1, <1>2, <1>3

LEMMA Instructions ==
  /\ \A l, s : wait(l, s).op = "wait" /\ post(l, s).op = "post" /\ use.op = "use"
  /\ \A l, s : wait(l, s) # use /\ post(l, s) # use
BY DEF wait, post, use

\* What a step of the poster leaves of the others.
LEMMA PosterOther ==
  ASSUME ExchangeInv, poster, NEW p \in PId, p # turn
  PROVE  PInv(p)'
<1>1. PosterAdvance /\ wk' = wk /\ ret' = ret
  BY DEF poster, PosterSemaphore, PosterUses
<1>2. sem'[p] = sem[p] /\ task'[p] = task[p]
  BY DEF poster, PosterSemaphore, PosterUses, Semaphore, ExchangeInv, Typed
<1>3. pos(p)' = pos(p) /\ (round' # round => pos(p) = 1)
  BY <1>1, Advance DEF ExchangeInv
<1>4. PInv(p)
  BY DEF ExchangeInv
<1>5. Phase(p)' /\ Counts(p)'
  BY <1>1, <1>2, <1>3, <1>4 DEF PInv, Phase, Counts, Count, puts, leavesT, leavesR
<1>6. Buffers(p)'
  BY <1>1, <1>2, <1>3, <1>4 DEF PInv, Phase, Buffers, Count
<1> QED BY <1>5, <1>6 DEF PInv

\* The result's semaphore full counts down with the poster's wait for it and up
\* where the worker puts the result out, and nowhere else.
ResultTaken(p) ==
    IF pos(p) = 6 THEN Count(p, "ret", "full") = 1 /\ Count(p, "ret", "full")' = 0
                  ELSE Count(p, "ret", "full")' = Count(p, "ret", "full")
ResultPut(p) ==
    IF wk[p] = puts(p) THEN pos(p) = 6 /\ Count(p, "ret", "full") = 0 /\ Count(p, "ret", "full")' = 1
                       ELSE Count(p, "ret", "full")' = Count(p, "ret", "full")

LEMMA PosterOwn ==
  ASSUME ExchangeInv, poster, NEW p \in PId, p = turn
  PROVE  PInv(p)' /\ Typed' /\ ResultTaken(p)
<1>1. PosterAdvance /\ wk' = wk /\ ret' = ret
  BY DEF poster, PosterSemaphore, PosterUses
<1>2. /\ pos(p)' = IF pos(p) = 10 THEN 1 ELSE pos(p) + 1
      /\ pk' \in {"post", "collect"} \X (1 .. 5) /\ turn' \in PId
      /\ round' \in 0 .. Rounds - 1
      /\ round' # round => pos(p)' = 1
  BY <1>1, Advance DEF ExchangeInv
<1>3. /\ PInv(p) /\ Typed /\ wk[p] \in 1 .. 9
      /\ IF p \in TaskFirst THEN puts(p) = 9 /\ leavesT(p) = 6 /\ leavesR(p) = 8
                            ELSE puts(p) = 7 /\ leavesT(p) = 8 /\ leavesR(p) = 6
  BY DEF ExchangeInv, Typed, puts, leavesT, leavesR
<1>4. /\ puts(p)' = puts(p) /\ leavesT(p)' = leavesT(p) /\ leavesR(p)' = leavesR(p)
  BY DEF puts, leavesT, leavesR
<1> DEFINE i == posterProgram[pk[2]]
           semaphore == Semaphore(p, i) /\ UNCHANGED <<task, got>>
<1>5. /\ i # use => semaphore
      /\ i = use => /\ sem' = sem
                     /\ IF pk[1] = "post" THEN task' = [task EXCEPT ![p] = round] /\ got' = got
                        ELSE got' = ret[p] /\ task' = task
  BY Instructions, PosterInstruction, <1>3
     DEF poster, PosterSemaphore, PosterUses, usesAt, Semaphore, wait, post, use
<1>6. ASSUME NEW lock \in Lock, NEW s \in Sem, NEW n \in Int, Only(p, lock, s, n),
             UNCHANGED <<task, got>>
      PROVE  /\ Typed'
             /\ Changed(p, lock, s, n)
  BY <1>1, <1>2, <1>3, <1>6 DEF Only, Changed, Count, Typed
<1>7. ASSUME sem' = sem PROVE \A l \in Lock, x \in Sem : Count(p, l, x)' = Count(p, l, x)
  BY <1>7 DEF Count
<1>11. CASE pos(p) = 1
  <2>1. i = wait("task", "empty") /\ semaphore
    BY <1>3, <1>5, <1>11, PosterInstruction, Instructions
  <2>2. Only(p, "task", "empty", -1) /\ Count(p, "task", "empty") > 0
    BY <1>3, <2>1, Waits DEF Lock, Sem
  <2>3. /\ Typed'
        /\ Changed(p, "task", "empty", -1)
    BY <1>6, <2>1, <2>2 DEF Lock, Sem
  <2>4. Phase(p)' /\ Counts(p)' /\ ResultTaken(p)
    BY <1>1, <1>2, <1>3, <1>4, <1>11, <2>2, <2>3 DEF PInv, ResultTaken, Phase, Counts, Changed, Lock, Sem
  <2>5. Buffers(p)'
    BY <1>1, <1>2, <1>3, <1>11, <2>1, <2>2, <2>3 DEF PInv, Phase, Counts, Buffers, Changed, Lock, Sem
  <2> QED BY <2>3, <2>4, <2>5 DEF PInv
<1>12. CASE pos(p) = 2
  <2>1. i = wait("task", "mutex") /\ semaphore
    BY <1>3, <1>5, <1>12, PosterInstruction, Instructions
  <2>2. Only(p, "task", "mutex", -1) /\ Count(p, "task", "mutex") > 0
    BY <1>3, <2>1, Waits DEF Lock, Sem
  <2>3. /\ Typed'
        /\ Changed(p, "task", "mutex", -1)
    BY <1>6, <2>1, <2>2 DEF Lock, Sem
  <2>4. Phase(p)' /\ Counts(p)' /\ ResultTaken(p)
    BY <1>1, <1>2, <1>3, <1>4, <1>12, <2>2, <2>3 DEF PInv, ResultTaken, Phase, Counts, Changed, Lock, Sem
  <2>5. Buffers(p)'
    BY <1>1, <1>2, <1>3, <1>12, <2>1, <2>2, <2>3 DEF PInv, Phase, Counts, Buffers, Changed, Lock, Sem
  <2> QED BY <2>3, <2>4, <2>5 DEF PInv
<1>13. CASE pos(p) = 3
  <2>1. i = use
    BY <1>3, <1>13, PosterInstruction
  <2>2. Typed'
    BY <1>1, <1>2, <1>3, <1>5, <2>1 DEF Typed
  <2>3. task'[p] = round /\ round' = round
    BY <1>2, <1>3, <1>5, <1>13, <2>1, PosterInstruction DEF Typed
  <2>4. Phase(p)' /\ Counts(p)' /\ ResultTaken(p)
    BY <1>1, <1>2, <1>3, <1>4, <1>5, <1>7, <1>13, <2>1 DEF PInv, ResultTaken, Phase, Counts, Lock, Sem
  <2>5. Buffers(p)'
    BY <1>1, <1>2, <1>3, <1>5, <1>7, <1>13, <2>1, <2>3 DEF PInv, Phase, Buffers, Lock, Sem
  <2> QED BY <2>2, <2>4, <2>5 DEF PInv
<1>14. CASE pos(p) = 4
  <2>1. i = post("task", "mutex") /\ semaphore
    BY <1>3, <1>5, <1>14, PosterInstruction, Instructions
  <2>2. Only(p, "task", "mutex", 1)
    BY <1>3, <2>1, Posts DEF Lock, Sem
  <2>3. /\ Typed'
        /\ Changed(p, "task", "mutex", 1)
    BY <1>6, <2>1, <2>2 DEF Lock, Sem
  <2>4. Phase(p)' /\ Counts(p)' /\ ResultTaken(p)
    BY <1>1, <1>2, <1>3, <1>4, <1>14, <2>2, <2>3 DEF PInv, ResultTaken, Phase, Counts, Changed, Lock, Sem
  <2>5. Buffers(p)'
    BY <1>1, <1>2, <1>3, <1>14, <2>1, <2>2, <2>3 DEF PInv, Phase, Counts, Buffers, Changed, Lock, Sem
  <2> QED BY <2>3, <2>4, <2>5 DEF PInv
<1>15. CASE pos(p) = 5
  <2>1. i = post("task", "full") /\ semaphore
    BY <1>3, <1>5, <1>15, PosterInstruction, Instructions
  <2>2. Only(p, "task", "full", 1)
    BY <1>3, <2>1, Posts DEF Lock, Sem
  <2>3. /\ Typed'
        /\ Changed(p, "task", "full", 1)
    BY <1>6, <2>1, <2>2 DEF Lock, Sem
  <2>4. Phase(p)' /\ Counts(p)' /\ ResultTaken(p)
    BY <1>1, <1>2, <1>3, <1>4, <1>15, <2>2, <2>3 DEF PInv, ResultTaken, Phase, Counts, Changed, Lock, Sem
  <2>5. Buffers(p)'
    BY <1>1, <1>2, <1>3, <1>15, <2>1, <2>2, <2>3 DEF PInv, Phase, Counts, Buffers, Changed, Lock, Sem
  <2> QED BY <2>3, <2>4, <2>5 DEF PInv
<1>16. CASE pos(p) = 6
  <2>1. i = wait("ret", "full") /\ semaphore
    BY <1>3, <1>5, <1>16, PosterInstruction, Instructions
  <2>2. Only(p, "ret", "full", -1) /\ Count(p, "ret", "full") > 0
    BY <1>3, <2>1, Waits DEF Lock, Sem
  <2>3. /\ Typed'
        /\ Changed(p, "ret", "full", -1)
    BY <1>6, <2>1, <2>2 DEF Lock, Sem
  <2>4. Phase(p)' /\ Counts(p)' /\ ResultTaken(p)
    BY <1>1, <1>2, <1>3, <1>4, <1>16, <2>2, <2>3 DEF PInv, ResultTaken, Phase, Counts, Changed, Lock, Sem
  <2>5. Buffers(p)'
    BY <1>1, <1>2, <1>3, <1>16, <2>1, <2>2, <2>3 DEF PInv, Phase, Counts, Buffers, Changed, Lock, Sem
  <2> QED BY <2>3, <2>4, <2>5 DEF PInv
<1>17. CASE pos(p) = 7
  <2>1. i = wait("ret", "mutex") /\ semaphore
    BY <1>3, <1>5, <1>17, PosterInstruction, Instructions
  <2>2. Only(p, "ret", "mutex", -1) /\ Count(p, "ret", "mutex") > 0
    BY <1>3, <2>1, Waits DEF Lock, Sem
  <2>3. /\ Typed'
        /\ Changed(p, "ret", "mutex", -1)
    BY <1>6, <2>1, <2>2 DEF Lock, Sem
  <2>4. Phase(p)' /\ Counts(p)' /\ ResultTaken(p)
    BY <1>1, <1>2, <1>3, <1>4, <1>17, <2>2, <2>3 DEF PInv, ResultTaken, Phase, Counts, Changed, Lock, Sem
  <2>5. Buffers(p)'
    BY <1>1, <1>2, <1>3, <1>17, <2>1, <2>2, <2>3 DEF PInv, Phase, Counts, Buffers, Changed, Lock, Sem
  <2> QED BY <2>3, <2>4, <2>5 DEF PInv
<1>18. CASE pos(p) = 8
  <2>1. i = use
    BY <1>3, <1>18, PosterInstruction
  <2>2. Typed'
    BY <1>1, <1>2, <1>3, <1>5, <2>1 DEF Typed
  <2>3. task'[p] = task[p] /\ round' = round
    BY <1>2, <1>3, <1>5, <1>18, <2>1, PosterInstruction DEF Typed
  <2>4. Phase(p)' /\ Counts(p)' /\ ResultTaken(p)
    BY <1>1, <1>2, <1>3, <1>4, <1>5, <1>7, <1>18, <2>1 DEF PInv, ResultTaken, Phase, Counts, Lock, Sem
  <2>5. Buffers(p)'
    BY <1>1, <1>2, <1>3, <1>5, <1>7, <1>18, <2>1, <2>3 DEF PInv, Phase, Buffers, Lock, Sem
  <2> QED BY <2>2, <2>4, <2>5 DEF PInv
<1>19. CASE pos(p) = 9
  <2>1. i = post("ret", "mutex") /\ semaphore
    BY <1>3, <1>5, <1>19, PosterInstruction, Instructions
  <2>2. Only(p, "ret", "mutex", 1)
    BY <1>3, <2>1, Posts DEF Lock, Sem
  <2>3. /\ Typed'
        /\ Changed(p, "ret", "mutex", 1)
    BY <1>6, <2>1, <2>2 DEF Lock, Sem
  <2>4. Phase(p)' /\ Counts(p)' /\ ResultTaken(p)
    BY <1>1, <1>2, <1>3, <1>4, <1>19, <2>2, <2>3 DEF PInv, ResultTaken, Phase, Counts, Changed, Lock, Sem
  <2>5. Buffers(p)'
    BY <1>1, <1>2, <1>3, <1>19, <2>1, <2>2, <2>3 DEF PInv, Phase, Counts, Buffers, Changed, Lock, Sem
  <2> QED BY <2>3, <2>4, <2>5 DEF PInv
<1>20. CASE pos(p) = 10
  <2>1. i = post("ret", "empty") /\ semaphore
    BY <1>3, <1>5, <1>20, PosterInstruction, Instructions
  <2>2. Only(p, "ret", "empty", 1)
    BY <1>3, <2>1, Posts DEF Lock, Sem
  <2>3. /\ Typed'
        /\ Changed(p, "ret", "empty", 1)
    BY <1>6, <2>1, <2>2 DEF Lock, Sem
  <2>4. Phase(p)' /\ Counts(p)' /\ ResultTaken(p)
    BY <1>1, <1>2, <1>3, <1>4, <1>20, <2>2, <2>3 DEF PInv, ResultTaken, Phase, Counts, Changed, Lock, Sem
  <2>5. Buffers(p)'
    BY <1>1, <1>2, <1>3, <1>20, <2>1, <2>2, <2>3 DEF PInv, Phase, Counts, Buffers, Changed, Lock, Sem
  <2> QED BY <2>3, <2>4, <2>5 DEF PInv
<1> QED BY <1>3, PosterInstruction, <1>11, <1>12, <1>13, <1>14, <1>15, <1>16, <1>17, <1>18, <1>19, <1>20

\* Where a step of the worker leads.
LEMMA WorkerOwn ==
  ASSUME ExchangeInv, NEW p \in PId, worker(p)
  PROVE  PInv(p)' /\ Typed' /\ ResultPut(p)
<1> DEFINE i == workerProgram(p)[wk[p]]
           semaphore == Semaphore(p, i) /\ ret' = ret
<1>1. /\ UNCHANGED <<task, got, round, turn, pk>>
      /\ wk' = [wk EXCEPT ![p] = IF @ = 9 THEN 1 ELSE @ + 1]
  <2>1. wk[p] \in 1 .. 9
    BY DEF ExchangeInv, Typed
  <2>2. wk' = [wk EXCEPT ![p] = (@ % 9) + 1]
    BY WorkerProgram DEF worker, WorkerSemaphore, WorkerUses, WorkerAdvance
  <2>3. (wk[p] % 9) + 1 = IF wk[p] = 9 THEN 1 ELSE wk[p] + 1
    BY <2>1
  <2> QED BY <2>2, <2>3 DEF worker, WorkerSemaphore, WorkerUses
<1>2. /\ PInv(p) /\ Typed
      /\ IF p \in TaskFirst THEN puts(p) = 9 /\ leavesT(p) = 6 /\ leavesR(p) = 8
                            ELSE puts(p) = 7 /\ leavesT(p) = 8 /\ leavesR(p) = 6
  BY DEF ExchangeInv, puts, leavesT, leavesR
<1>3. /\ pos(p)' = pos(p) /\ pos(p) \in 1 .. 10
      /\ puts(p)' = puts(p) /\ leavesT(p)' = leavesT(p) /\ leavesR(p)' = leavesR(p)
  BY <1>1, <1>2 DEF pos, puts, leavesT, leavesR, PInv, Phase
<1>4. /\ wk[p] \in 1 .. 9 /\ wk'[p] = IF wk[p] = 9 THEN 1 ELSE wk[p] + 1
      /\ wk' \in [PId -> 1 .. 9]
  BY <1>1, <1>2 DEF Typed
<1>5. /\ i # use => semaphore
      /\ i = use => sem' = sem /\ ret' = [ret EXCEPT ![p] = task[p]]
  BY Instructions DEF worker, WorkerSemaphore, WorkerUses, usesAt, Semaphore, use
<1>6. ASSUME NEW lock \in Lock, NEW s \in Sem, NEW n \in Int, Only(p, lock, s, n), ret' = ret
      PROVE  Typed' /\ Changed(p, lock, s, n)
  BY <1>1, <1>2, <1>4, <1>6 DEF Only, Changed, Count, Typed
<1>7. CASE wk[p] = 1
  <2>1. i = wait("task", "full") /\ semaphore
    BY <1>5, <1>7, WorkerProgram, Instructions
  <2>2. Only(p, "task", "full", -1) /\ Count(p, "task", "full") > 0
    BY <1>2, <2>1, Waits DEF Lock, Sem
  <2>3. Typed' /\ Changed(p, "task", "full", -1)
    BY <1>6, <2>1, <2>2 DEF Lock, Sem
  <2>4. Phase(p)' /\ Counts(p)' /\ ResultPut(p)
    BY <1>2, <1>3, <1>4, <1>7, <2>2, <2>3 DEF PInv, ResultPut, Phase, Counts, Changed, Lock, Sem
  <2>5. Buffers(p)'
    BY <1>1, <1>2, <1>3, <1>4, <1>7, <2>1, <2>3 DEF PInv, Phase, Buffers, Changed, Lock, Sem
  <2> QED BY <2>3, <2>4, <2>5 DEF PInv
<1>8. CASE wk[p] = 2
  <2>1. i = wait("task", "mutex") /\ semaphore
    BY <1>5, <1>8, WorkerProgram, Instructions
  <2>2. Only(p, "task", "mutex", -1) /\ Count(p, "task", "mutex") > 0
    BY <1>2, <2>1, Waits DEF Lock, Sem
  <2>3. Typed' /\ Changed(p, "task", "mutex", -1)
    BY <1>6, <2>1, <2>2 DEF Lock, Sem
  <2>4. Phase(p)' /\ Counts(p)' /\ ResultPut(p)
    BY <1>2, <1>3, <1>4, <1>8, <2>2, <2>3 DEF PInv, ResultPut, Phase, Counts, Changed, Lock, Sem
  <2>5. Buffers(p)'
    BY <1>1, <1>2, <1>3, <1>4, <1>8, <2>1, <2>3 DEF PInv, Phase, Buffers, Changed, Lock, Sem
  <2> QED BY <2>3, <2>4, <2>5 DEF PInv
<1>9. CASE wk[p] = 3
  <2>1. i = wait("ret", "empty") /\ semaphore
    BY <1>5, <1>9, WorkerProgram, Instructions
  <2>2. Only(p, "ret", "empty", -1) /\ Count(p, "ret", "empty") > 0
    BY <1>2, <2>1, Waits DEF Lock, Sem
  <2>3. Typed' /\ Changed(p, "ret", "empty", -1)
    BY <1>6, <2>1, <2>2 DEF Lock, Sem
  <2>4. Phase(p)' /\ Counts(p)' /\ ResultPut(p)
    BY <1>2, <1>3, <1>4, <1>9, <2>2, <2>3 DEF PInv, ResultPut, Phase, Counts, Changed, Lock, Sem
  <2>5. Buffers(p)'
    BY <1>1, <1>2, <1>3, <1>4, <1>9, <2>1, <2>3 DEF PInv, Phase, Buffers, Changed, Lock, Sem
  <2> QED BY <2>3, <2>4, <2>5 DEF PInv
<1>10. CASE wk[p] = 4
  <2>1. i = wait("ret", "mutex") /\ semaphore
    BY <1>5, <1>10, WorkerProgram, Instructions
  <2>2. Only(p, "ret", "mutex", -1) /\ Count(p, "ret", "mutex") > 0
    BY <1>2, <2>1, Waits DEF Lock, Sem
  <2>3. Typed' /\ Changed(p, "ret", "mutex", -1)
    BY <1>6, <2>1, <2>2 DEF Lock, Sem
  <2>4. Phase(p)' /\ Counts(p)' /\ ResultPut(p)
    BY <1>2, <1>3, <1>4, <1>10, <2>2, <2>3 DEF PInv, ResultPut, Phase, Counts, Changed, Lock, Sem
  <2>5. Buffers(p)'
    BY <1>1, <1>2, <1>3, <1>4, <1>10, <2>1, <2>3 DEF PInv, Phase, Buffers, Changed, Lock, Sem
  <2> QED BY <2>3, <2>4, <2>5 DEF PInv
<1>11. CASE wk[p] = 5
  <2>1. i = use
    BY <1>11, WorkerProgram
  <2>2. /\ ret'[p] = task[p] /\ \A l \in Lock, x \in Sem : Count(p, l, x)' = Count(p, l, x)
        /\ Typed'
    BY <1>1, <1>2, <1>4, <1>5, <2>1 DEF Count, Typed
  <2>3. Phase(p)' /\ Counts(p)' /\ ResultPut(p)
    BY <1>2, <1>3, <1>4, <1>11, <2>2 DEF PInv, ResultPut, Phase, Counts, Lock, Sem
  <2>4. Buffers(p)'
    BY <1>1, <1>2, <1>3, <1>4, <1>11, <2>2 DEF PInv, Phase, Buffers, Lock, Sem
  <2> QED BY <2>2, <2>3, <2>4 DEF PInv
<1>12. CASE wk[p] = 6 /\ p \in TaskFirst
  <2>1. i = post("task", "mutex") /\ semaphore
    BY <1>5, <1>12, WorkerProgram, Instructions
  <2>2. Only(p, "task", "mutex", 1)
    BY <1>2, <2>1, Posts DEF Lock, Sem
  <2>3. Typed' /\ Changed(p, "task", "mutex", 1)
    BY <1>6, <2>1, <2>2 DEF Lock, Sem
  <2>4. Phase(p)' /\ Counts(p)' /\ ResultPut(p)
    BY <1>2, <1>3, <1>4, <1>12, <2>2, <2>3 DEF PInv, ResultPut, Phase, Counts, Changed, Lock, Sem
  <2>5. Buffers(p)'
    BY <1>1, <1>2, <1>3, <1>4, <1>12, <2>1, <2>3 DEF PInv, Phase, Buffers, Changed, Lock, Sem
  <2> QED BY <2>3, <2>4, <2>5 DEF PInv
<1>13. CASE wk[p] = 7 /\ p \in TaskFirst
  <2>1. i = post("task", "empty") /\ semaphore
    BY <1>5, <1>13, WorkerProgram, Instructions
  <2>2. Only(p, "task", "empty", 1)
    BY <1>2, <2>1, Posts DEF Lock, Sem
  <2>3. Typed' /\ Changed(p, "task", "empty", 1)
    BY <1>6, <2>1, <2>2 DEF Lock, Sem
  <2>4. Phase(p)' /\ Counts(p)' /\ ResultPut(p)
    BY <1>2, <1>3, <1>4, <1>13, <2>2, <2>3 DEF PInv, ResultPut, Phase, Counts, Changed, Lock, Sem
  <2>5. Buffers(p)'
    BY <1>1, <1>2, <1>3, <1>4, <1>13, <2>1, <2>3 DEF PInv, Phase, Buffers, Changed, Lock, Sem
  <2> QED BY <2>3, <2>4, <2>5 DEF PInv
<1>14. CASE wk[p] = 8 /\ p \in TaskFirst
  <2>1. i = post("ret", "mutex") /\ semaphore
    BY <1>5, <1>14, WorkerProgram, Instructions
  <2>2. Only(p, "ret", "mutex", 1)
    BY <1>2, <2>1, Posts DEF Lock, Sem
  <2>3. Typed' /\ Changed(p, "ret", "mutex", 1)
    BY <1>6, <2>1, <2>2 DEF Lock, Sem
  <2>4. Phase(p)' /\ Counts(p)' /\ ResultPut(p)
    BY <1>2, <1>3, <1>4, <1>14, <2>2, <2>3 DEF PInv, ResultPut, Phase, Counts, Changed, Lock, Sem
  <2>5. Buffers(p)'
    BY <1>1, <1>2, <1>3, <1>4, <1>14, <2>1, <2>3 DEF PInv, Phase, Buffers, Changed, Lock, Sem
  <2> QED BY <2>3, <2>4, <2>5 DEF PInv
<1>15. CASE wk[p] = 9 /\ p \in TaskFirst
  <2>1. i = post("ret", "full") /\ semaphore
    BY <1>5, <1>15, WorkerProgram, Instructions
  <2>2. Only(p, "ret", "full", 1)
    BY <1>2, <2>1, Posts DEF Lock, Sem
  <2>3. Typed' /\ Changed(p, "ret", "full", 1)
    BY <1>6, <2>1, <2>2 DEF Lock, Sem
  <2>4. Phase(p)' /\ Counts(p)' /\ ResultPut(p)
    BY <1>2, <1>3, <1>4, <1>15, <2>2, <2>3 DEF PInv, ResultPut, Phase, Counts, Changed, Lock, Sem
  <2>5. Buffers(p)'
    BY <1>1, <1>2, <1>3, <1>4, <1>15, <2>1, <2>3 DEF PInv, Phase, Buffers, Changed, Lock, Sem
  <2> QED BY <2>3, <2>4, <2>5 DEF PInv
<1>16. CASE wk[p] = 6 /\ p \notin TaskFirst
  <2>1. i = post("ret", "mutex") /\ semaphore
    BY <1>5, <1>16, WorkerProgram, Instructions
  <2>2. Only(p, "ret", "mutex", 1)
    BY <1>2, <2>1, Posts DEF Lock, Sem
  <2>3. Typed' /\ Changed(p, "ret", "mutex", 1)
    BY <1>6, <2>1, <2>2 DEF Lock, Sem
  <2>4. Phase(p)' /\ Counts(p)' /\ ResultPut(p)
    BY <1>2, <1>3, <1>4, <1>16, <2>2, <2>3 DEF PInv, ResultPut, Phase, Counts, Changed, Lock, Sem
  <2>5. Buffers(p)'
    BY <1>1, <1>2, <1>3, <1>4, <1>16, <2>1, <2>3 DEF PInv, Phase, Buffers, Changed, Lock, Sem
  <2> QED BY <2>3, <2>4, <2>5 DEF PInv
<1>17. CASE wk[p] = 7 /\ p \notin TaskFirst
  <2>1. i = post("ret", "full") /\ semaphore
    BY <1>5, <1>17, WorkerProgram, Instructions
  <2>2. Only(p, "ret", "full", 1)
    BY <1>2, <2>1, Posts DEF Lock, Sem
  <2>3. Typed' /\ Changed(p, "ret", "full", 1)
    BY <1>6, <2>1, <2>2 DEF Lock, Sem
  <2>4. Phase(p)' /\ Counts(p)' /\ ResultPut(p)
    BY <1>2, <1>3, <1>4, <1>17, <2>2, <2>3 DEF PInv, ResultPut, Phase, Counts, Changed, Lock, Sem
  <2>5. Buffers(p)'
    BY <1>1, <1>2, <1>3, <1>4, <1>17, <2>1, <2>3 DEF PInv, Phase, Buffers, Changed, Lock, Sem
  <2> QED BY <2>3, <2>4, <2>5 DEF PInv
<1>18. CASE wk[p] = 8 /\ p \notin TaskFirst
  <2>1. i = post("task", "mutex") /\ semaphore
    BY <1>5, <1>18, WorkerProgram, Instructions
  <2>2. Only(p, "task", "mutex", 1)
    BY <1>2, <2>1, Posts DEF Lock, Sem
  <2>3. Typed' /\ Changed(p, "task", "mutex", 1)
    BY <1>6, <2>1, <2>2 DEF Lock, Sem
  <2>4. Phase(p)' /\ Counts(p)' /\ ResultPut(p)
    BY <1>2, <1>3, <1>4, <1>18, <2>2, <2>3 DEF PInv, ResultPut, Phase, Counts, Changed, Lock, Sem
  <2>5. Buffers(p)'
    BY <1>1, <1>2, <1>3, <1>4, <1>18, <2>1, <2>3 DEF PInv, Phase, Buffers, Changed, Lock, Sem
  <2> QED BY <2>3, <2>4, <2>5 DEF PInv
<1>19. CASE wk[p] = 9 /\ p \notin TaskFirst
  <2>1. i = post("task", "empty") /\ semaphore
    BY <1>5, <1>19, WorkerProgram, Instructions
  <2>2. Only(p, "task", "empty", 1)
    BY <1>2, <2>1, Posts DEF Lock, Sem
  <2>3. Typed' /\ Changed(p, "task", "empty", 1)
    BY <1>6, <2>1, <2>2 DEF Lock, Sem
  <2>4. Phase(p)' /\ Counts(p)' /\ ResultPut(p)
    BY <1>2, <1>3, <1>4, <1>19, <2>2, <2>3 DEF PInv, ResultPut, Phase, Counts, Changed, Lock, Sem
  <2>5. Buffers(p)'
    BY <1>1, <1>2, <1>3, <1>4, <1>19, <2>1, <2>3 DEF PInv, Phase, Buffers, Changed, Lock, Sem
  <2> QED BY <2>3, <2>4, <2>5 DEF PInv
<1> QED BY <1>4, <1>7, <1>8, <1>9, <1>10, <1>11, <1>12, <1>13, <1>14, <1>15, <1>16, <1>17, <1>18, <1>19

LEMMA WorkerOther ==
  ASSUME ExchangeInv, NEW p \in PId, worker(p), NEW q \in PId, q # p
  PROVE  PInv(q)'
<1>1. UNCHANGED <<task, round, turn, pk>> /\ wk'[q] = wk[q] /\ ret'[q] = ret[q] /\ sem'[q] = sem[q]
  BY DEF worker, WorkerSemaphore, WorkerUses, WorkerAdvance, Semaphore, ExchangeInv, Typed
<1> QED BY <1>1 DEF ExchangeInv, PInv, Phase, Counts, Buffers, Count, pos, puts, leavesT, leavesR

LEMMA InitExchange == Init => ExchangeInv
<1> SUFFICES ASSUME Init PROVE ExchangeInv
  OBVIOUS
<1>1. Typed
  BY ExchangeAssumption DEF Init, Typed, cpLock, Lock, Sem, PId
<1>2. ASSUME NEW p \in PId PROVE PInv(p)
  <2>1. pos(p) = 1 /\ wk[p] = 1
    BY DEF Init, pos, PId
  <2>2. /\ Count(p, "task", "full") = 0 /\ Count(p, "ret", "full") = 0
        /\ Count(p, "task", "empty") = 1 /\ Count(p, "ret", "empty") = 1
        /\ Count(p, "task", "mutex") = 1 /\ Count(p, "ret", "mutex") = 1
    BY DEF Init, Count, cpLock
  <2> QED BY <2>1, <2>2 DEF PInv, Phase, Counts, Buffers, leavesT, leavesR
<1> QED BY <1>1, <1>2 DEF ExchangeInv

LEMMA ExchangeInvariant == Spec => []ExchangeInv
<1>1. ExchangeInv /\ [Next]_vars => ExchangeInv'
  <2> SUFFICES ASSUME ExchangeInv, [Next]_vars PROVE ExchangeInv'
    OBVIOUS
  <2>1. CASE poster
    <3>1. turn \in PId
      BY DEF ExchangeInv, Typed
    <3> QED BY <2>1, <3>1, PosterOwn, PosterOther DEF ExchangeInv
  <2>2. CASE \E p \in PId : worker(p)
    BY <2>2, WorkerOwn, WorkerOther DEF ExchangeInv
  <2>3. CASE UNCHANGED vars
    BY <2>3 DEF vars, ExchangeInv, Typed, PInv, Phase, Counts, Buffers, Count, pos,
                puts, leavesT, leavesR
  <2> QED BY <2>1, <2>2, <2>3 DEF Next
<1> QED BY <1>1, InitExchange, PTL DEF Spec

-----------------------------------------------------------------------------
\* Every variable of the exchange keeps its type; above all no semaphore ever
\* counts more than one, so a lock is never released by who does not hold it
\* (lock.hpp:38-77).
THEOREM ExchangeTyped == Spec => []TypeOK
<1>1. ExchangeInv => TypeOK
  <2> SUFFICES ASSUME ExchangeInv PROVE TypeOK
    OBVIOUS
  <2>1. ASSUME NEW p \in PId
        PROVE  \A l \in Lock, x \in Sem : sem[p][l][x] \in 0 .. 1
    BY DEF ExchangeInv, PInv, Phase, Counts, Count, Lock, Sem
  <2>2. sem \in [PId -> [task : Semaphores, ret : Semaphores]]
    BY <2>1 DEF ExchangeInv, Typed, Lock, Sem, Semaphores
  <2> QED BY <2>2 DEF ExchangeInv, Typed, TypeOK
<1> QED BY <1>1, ExchangeInvariant, PTL

\* For any number of participants and whatever the order in which a worker
\* gives back its locks: the poster and the worker of a participant never use
\* their common buffers at once (coordinator.cc:54-80, 239-255).
THEOREM BufferSafety == Spec => []BuffersExclusive
<1>1. ExchangeInv => BuffersExclusive
  <2> SUFFICES ASSUME ExchangeInv, NEW p \in PId, turn = p, usesAt(posterProgram, pk[2]),
                      usesAt(workerProgram(p), wk[p])
               PROVE  FALSE
    BY DEF BuffersExclusive
  <2>1. pos(p) \in {3, 8}
    BY PosterInstruction, Instructions DEF ExchangeInv, usesAt
  <2>2. wk[p] = 5
    <3>1. wk[p] \in 1 .. 9 /\ workerProgram(p)[wk[p]] = use
      BY DEF ExchangeInv, Typed, usesAt
    <3>2. \A k \in {1, 2, 3, 4, 6, 7, 8, 9} : workerProgram(p)[k] # use
      BY WorkerProgram, Instructions
    <3> QED BY <3>1, <3>2
  <2>3. Phase(p) /\ puts(p) \in {7, 9}
    BY DEF ExchangeInv, PInv, puts
  <2> QED BY <2>1, <2>2, <2>3 DEF Phase
<1> QED BY <1>1, ExchangeInvariant, PTL

\* A result that the poster reads is always that of its own round, never one
\* that the worker left in the buffer before (coordinator.cc:246-255, 284-293).
THEOREM ResultsFresh == Spec => []FreshResult
<1>1. ExchangeInv => FreshResult
  <2> SUFFICES ASSUME ExchangeInv, pk[1] = "collect", usesAt(posterProgram, pk[2])
               PROVE  ret[turn] = round
    BY DEF FreshResult
  <2>1. turn \in PId /\ pos(turn) \in 7 .. 10
    BY PosterInstruction, Instructions DEF ExchangeInv, Typed, usesAt, pos
  <2> QED BY <2>1 DEF ExchangeInv, PInv, Buffers
<1> QED BY <1>1, ExchangeInvariant, PTL

-----------------------------------------------------------------------------
\* The phases of Rendezvous by where the threads are.
collecting(p) == pk[1] = "collect" /\ p < turn
resultIsOut(p) == Count(p, "ret", "full") = 1 \/ pos(p) \in 7 .. 10

InPhase ==
    \A p \in PId :
      phaseOf(p) = IF pos(p) \in 1 .. 5 THEN IF collecting(p) THEN "collected" ELSE "idle"
                   ELSE IF resultIsOut(p) THEN "done" ELSE "posted"

LEMMA Phases == ExchangeInv => InPhase
<1> SUFFICES ASSUME ExchangeInv, NEW p \in PId
             PROVE  phaseOf(p) = IF pos(p) \in 1 .. 5
                                 THEN IF collecting(p) THEN "collected" ELSE "idle"
                                 ELSE IF resultIsOut(p) THEN "done" ELSE "posted"
  BY DEF InPhase
<1>1. /\ pk[1] \in {"post", "collect"} /\ pk[2] \in 1 .. 5 /\ turn \in Int /\ p \in Int
      /\ sem[p]["ret"]["full"] = Count(p, "ret", "full")
  BY DEF ExchangeInv, Typed, PId, Count
<1>2. resultOut(p) <=> Count(p, "ret", "full") = 1 \/ (pk[1] = "collect" /\ turn = p /\ pk[2] > 1)
  BY <1>1 DEF resultOut
<1> QED BY <1>1, <1>2 DEF phaseOf, pos, collecting, resultIsOut

LEMMA PhasesNext == ExchangeInv' => InPhase'
BY Phases, PTL

phases == [p \in PId |-> phaseOf(p)]

\* A step of a worker is Finish where it puts the result out, and nothing
\* elsewhere.
LEMMA WorkerRefines ==
  ASSUME ExchangeInv, ExchangeInv', NEW p \in PId, worker(p)
  PROVE  [R!RNext]_<<round, phases>>
<1>1. /\ UNCHANGED <<round, turn, pk>>
      /\ \A q \in PId : pos(q)' = pos(q) /\ collecting(q)' = collecting(q)
      /\ \A q \in PId : q # p => Count(q, "ret", "full")' = Count(q, "ret", "full")
  BY DEF worker, WorkerSemaphore, WorkerUses, Semaphore, pos, collecting, Count, ExchangeInv, Typed
<1>2. \A q \in PId : q # p => phaseOf(q)' = phaseOf(q)
  BY <1>1, Phases, PhasesNext DEF InPhase, resultIsOut
<1>3. ResultPut(p)
  BY WorkerOwn
<1>4. CASE wk[p] = puts(p)
  <2>1. phaseOf(p) = "posted" /\ phaseOf(p)' = "done"
    BY <1>1, <1>3, <1>4, Phases, PhasesNext DEF ResultPut, InPhase, resultIsOut
  <2>2. R!Finish(p)
    BY <1>1, <1>2, <2>1 DEF R!Finish, R!Move, PId
  <2> QED BY <2>2 DEF R!RNext, PId
<1>5. CASE wk[p] # puts(p)
  <2>1. phaseOf(p)' = phaseOf(p)
    BY <1>1, <1>3, <1>5, Phases, PhasesNext DEF ResultPut, InPhase, resultIsOut
  <2> QED BY <1>1, <1>2, <2>1 DEF phases
<1> QED BY <1>4, <1>5

\* A step of the poster is PostTask or Collect where it gives a lock back for
\* the second time, and nothing elsewhere.
LEMMA PosterRefines ==
  ASSUME ExchangeInv, ExchangeInv', poster, NEW p \in PId, p = turn
  PROVE  [R!RNext]_<<round, phases>>
<1>1. /\ PNum \in Nat /\ PId = 1 .. PNum /\ pk[1] \in {"post", "collect"} /\ pk[2] \in 1 .. 5
      /\ Phase(p) /\ pos(p) = IF pk[1] = "post" THEN pk[2] ELSE 5 + pk[2]
  BY ExchangeAssumption DEF ExchangeInv, Typed, PId, PInv, pos
<1>2. PosterAdvance /\ Len(posterProgram) = 5
  BY PostProgram, CollectProgram DEF posterProgram, poster, PosterSemaphore, PosterUses
<1>3. /\ ResultTaken(p)
      /\ \A q \in PId : q # p => /\ pos(q)' = pos(q)
                                /\ Count(q, "ret", "full")' = Count(q, "ret", "full")
      /\ pos(p)' = IF pos(p) = 10 THEN 1 ELSE pos(p) + 1
  <2>1. \A q \in PId : q # p => sem'[q] = sem[q]
    BY DEF poster, PosterSemaphore, PosterUses, Semaphore, ExchangeInv, Typed
  <2> QED BY <1>2, <2>1, PosterOwn, Advance DEF Count, ExchangeInv
<1>4. CASE pk[2] < 5
  <2>1. pk' = <<pk[1], pk[2] + 1>> /\ turn' = turn /\ round' = round
    BY <1>1, <1>2, <1>4 DEF PosterAdvance
  <2>2. \A q \in PId : collecting(q)' = collecting(q)
    BY <2>1 DEF collecting
  <2>3. \A q \in PId : q # p => phaseOf(q)' = phaseOf(q)
    BY <1>3, <2>2, Phases, PhasesNext DEF InPhase, resultIsOut
  <2>4. phaseOf(p)' = phaseOf(p)
    BY <1>1, <1>3, <1>4, <2>2, Phases, PhasesNext
       DEF InPhase, resultIsOut, ResultTaken, Phase
  <2> QED BY <2>1, <2>3, <2>4 DEF phases
<1>5. CASE pk[2] = 5 /\ pk[1] = "post"
  <2>1. /\ round' = round
        /\ \A q \in PId : ~collecting(q) /\ ~collecting(q)'
    BY <1>1, <1>2, <1>5 DEF PosterAdvance, collecting
  <2>2. \A q \in PId : q # p => phaseOf(q)' = phaseOf(q)
    BY <1>3, <2>1, Phases, PhasesNext DEF InPhase, resultIsOut
  <2>3. phaseOf(p) = "idle" /\ phaseOf(p)' = "posted"
    BY <1>1, <1>3, <1>5, <2>1, Phases, PhasesNext
       DEF InPhase, resultIsOut, ResultTaken, Phase
  <2>4. \A q \in PId : IF q < p THEN phaseOf(q) \in {"posted", "done"}
                      ELSE phaseOf(q) = "idle"
    BY <1>1, <1>5, <2>1, Phases DEF InPhase, pos
  <2>5. phases' = [phases EXCEPT ![p] = "posted"]
    BY <2>2, <2>3 DEF phases
  <2>6. /\ \A q \in 1 .. p - 1 : phases[q] \in {"posted", "done"}
        /\ \A q \in p + 1 .. PNum : phases[q] = "idle"
    BY <1>1, <2>4 DEF phases
  <2>7. R!PostTask(p)
    BY <2>1, <2>3, <2>5, <2>6 DEF R!PostTask, R!Move, phases
  <2> QED BY <1>1, <2>7 DEF R!RNext
<1>6. CASE pk[2] = 5 /\ pk[1] = "collect"
  <2>1. phaseOf(p) = "done"
    BY <1>1, <1>6, Phases DEF InPhase, resultIsOut
  <2>2. \A q \in PId : phaseOf(q) = IF q < p THEN "collected"
                                   ELSE IF q = p THEN "done"
                                   ELSE IF Count(q, "ret", "full") = 1 THEN "done" ELSE "posted"
    BY <1>1, <1>6, <2>1, Phases DEF InPhase, resultIsOut, pos, collecting
  <2>3. /\ phases[p] = "done"
        /\ \A q \in 1 .. p - 1 : phases[q] = "collected"
        /\ \A q \in p + 1 .. PNum : phases[q] \in {"posted", "done"}
    BY <1>1, <2>2 DEF phases
  <2>4. CASE p < PNum
    <3>1. pk' = <<"collect", 1>> /\ turn' = p + 1 /\ round' = round
      BY <1>1, <1>2, <1>6, <2>4 DEF PosterAdvance
    <3>2. \A q \in PId : q # p => phaseOf(q)' = phaseOf(q)
      BY <1>1, <1>3, <1>6, <3>1, Phases, PhasesNext DEF InPhase, resultIsOut, collecting
    <3>3. phaseOf(p)' = "collected"
      BY <1>1, <1>3, <1>6, <3>1, PhasesNext DEF InPhase, collecting
    <3>4. phases' = [phases EXCEPT ![p] = "collected"]
      BY <3>2, <3>3 DEF phases
    <3>5. R!Collect(p)
      BY <2>4, <2>3, <3>1, <3>4 DEF R!Collect, phases
    <3> QED BY <1>1, <3>5 DEF R!RNext
  <2>5. CASE p = PNum
    <3>1. pk' = <<"post", 1>> /\ turn' = 1 /\ round' = (round + 1) % Rounds
      BY <1>1, <1>2, <1>6, <2>5 DEF PosterAdvance
    <3>2. \A q \in PId : phaseOf(q)' = "idle"
      BY <1>1, <3>1, PhasesNext DEF InPhase, collecting, pos
    <3>3. phases' = [q \in 1 .. PNum |-> "idle"]
      BY <1>1, <3>2 DEF phases
    <3>4. ~(p < PNum)
      BY <1>1, <2>5
    <3>5. R!Collect(p)
      BY <2>3, <3>1, <3>3, <3>4 DEF R!Collect, phases
    <3> QED BY <1>1, <3>5 DEF R!RNext
  <2> QED BY <1>1, <2>4, <2>5
<1> QED BY <1>1, <1>4, <1>5, <1>6

\* The semaphores implement the rendezvous that Coordinator is built on: each
\* participant gets its task once a round and its result is collected once, in
\* the order of the code (coordinator.cc:54-80, 237-256).
THEOREM ExchangeImplements == Spec => ImplementsRendezvous
<1>1. Init => R!RInit
  <2> SUFFICES ASSUME Init PROVE R!RInit
    OBVIOUS
  <2>1. \A p \in PId : phaseOf(p) = "idle"
    BY ExchangeAssumption DEF Init, phaseOf, PId
  <2> QED BY <2>1 DEF Init, R!RInit, PId
<1>2. ExchangeInv /\ ExchangeInv' /\ [Next]_vars => [R!RNext]_<<round, phases>>
  <2> SUFFICES ASSUME ExchangeInv, ExchangeInv', [Next]_vars
               PROVE  [R!RNext]_<<round, phases>>
    OBVIOUS
  <2>1. CASE poster
    BY <2>1, PosterRefines DEF ExchangeInv, Typed
  <2>2. CASE \E p \in PId : worker(p)
    BY <2>2, WorkerRefines
  <2>3. CASE UNCHANGED vars
    BY <2>3 DEF vars, phases, phaseOf, resultOut
  <2> QED BY <2>1, <2>2, <2>3 DEF Next
<1> QED BY <1>1, <1>2, ExchangeInvariant, PTL DEF Spec, ImplementsRendezvous, R!RSpec, phases
=============================================================================
