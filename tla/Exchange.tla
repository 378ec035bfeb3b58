------------------------------- MODULE Exchange -------------------------------
(***************************************************************************)
(* How the coordinator hands tasks to the threads of its participants and  *)
(* collects the results: two cpLocks per participant, each made of three   *)
(* semaphores.  Every sem_wait and sem_post is a step of its own.          *)
(*                                                                         *)
(* The poster is the thread that holds _workingMutex: it posts a task to   *)
(* every participant and then collects every result.  The worker of p is   *)
(* pWorking or pRecovery; they release their two locks in opposite order.  *)
(* Tasks and results are numbered by the round they belong to, counted     *)
(* modulo Rounds.                                                          *)
(***************************************************************************)
EXTENDS Integers, Sequences

CONSTANTS
    PNum,       \* number of participants
    Rounds,     \* bound: rounds are counted modulo this number
    TaskFirst   \* whose thread releases the task's lock first, as pWorking
                \* does; the others release the result's first, as pRecovery

ASSUME ExchangeAssumption ==
    PNum \in Nat \ {0} /\ Rounds \in Nat \ {0, 1} /\ TaskFirst \subseteq 1 .. PNum

PId == 1 .. PNum

VARIABLES
    sem,      \* sem[p][lock][s]: the semaphores of both locks
    task,     \* _ptask or _pRtask
    ret,      \* _pworkingRet and _pworkingDataRet, or those of recovery
    got,      \* the result the poster read last
    round,    \* the poster's round
    turn,     \* the participant the poster deals with
    pk,       \* the poster's next instruction
    wk        \* wk[p]: the worker's next instruction

vars == <<sem, task, ret, got, round, turn, pk, wk>>

(***************************************************************************)
(* cpLock: an instruction waits on or posts one semaphore of one lock.     *)
(***************************************************************************)
cpLock(len) == [empty |-> len, full |-> 0, mutex |-> 1]

wait(lock, s) == [op |-> "wait", lock |-> lock, sem |-> s]
post(lock, s) == [op |-> "post", lock |-> lock, sem |-> s]
use == [op |-> "use"]

pGet(lock)     == <<wait(lock, "empty"), wait(lock, "mutex")>>
\* Mutant: a lock is released that was not taken.
cGetWithoutMutex(lock) == <<wait(lock, "full")>>
cGet(lock)     == <<wait(lock, "full"), wait(lock, "mutex")>>
pRelease(lock) == <<post(lock, "mutex"), post(lock, "full")>>
cRelease(lock) == <<post(lock, "mutex"), post(lock, "empty")>>

postProgram == pGet("task") \o <<use>> \o pRelease("task")

\* Mutant: the result is read without waiting for it.
collectAtOnce == <<use>>
collectProgram == cGet("ret") \o <<use>> \o cRelease("ret")

\* Mutant: the worker keeps the task's lock.
workerForgetsTask(p) == cGet("task") \o pGet("ret") \o <<use>> \o pRelease("ret")
workerProgram(p) ==
    cGet("task") \o pGet("ret") \o <<use>> \o
        (IF p \in TaskFirst THEN cRelease("task") \o pRelease("ret")
                            ELSE pRelease("ret") \o cRelease("task"))

\* Where each program uses the buffers.
usesAt(program, k) == k <= Len(program) /\ program[k] = use

Init ==
    /\ sem = [p \in PId |-> [task |-> cpLock(1), ret |-> cpLock(1)]]
    /\ task = [p \in PId |-> 0]
    /\ ret = [p \in PId |-> 0]
    /\ got = 0
    /\ round = 0
    /\ turn = 1
    /\ pk = <<"post", 1>>
    /\ wk = [p \in PId |-> 1]

Semaphore(p, i) ==
    \/ /\ i.op = "wait"
       /\ sem[p][i.lock][i.sem] > 0
       /\ sem' = [sem EXCEPT ![p][i.lock][i.sem] = @ - 1]
    \/ /\ i.op = "post"
       /\ sem' = [sem EXCEPT ![p][i.lock][i.sem] = @ + 1]

(***************************************************************************)
(* The poster.                                                             *)
(***************************************************************************)
posterProgram == IF pk[1] = "post" THEN postProgram ELSE collectProgram

PosterAdvance ==
    IF pk[2] < Len(posterProgram)
    THEN pk' = <<pk[1], pk[2] + 1>> /\ UNCHANGED <<turn, round>>
    ELSE IF turn < PNum
    THEN pk' = <<pk[1], 1>> /\ turn' = turn + 1 /\ UNCHANGED round
    ELSE /\ pk' = IF pk[1] = "post" THEN <<"collect", 1>> ELSE <<"post", 1>>
         /\ turn' = 1
         /\ round' = IF pk[1] = "post" THEN round ELSE (round + 1) % Rounds

PosterSemaphore ==
    /\ Semaphore(turn, posterProgram[pk[2]])
    /\ PosterAdvance
    /\ UNCHANGED <<task, ret, got, wk>>

PosterUses ==
    /\ usesAt(posterProgram, pk[2])
    /\ IF pk[1] = "post"
       THEN task' = [task EXCEPT ![turn] = round] /\ UNCHANGED got
       ELSE got' = ret[turn] /\ UNCHANGED task
    /\ PosterAdvance
    /\ UNCHANGED <<sem, ret, wk>>

(***************************************************************************)
(* The worker of p.                                                        *)
(***************************************************************************)
WorkerAdvance(p) == wk' = [wk EXCEPT ![p] = (@ % Len(workerProgram(p))) + 1]

WorkerSemaphore(p) ==
    /\ Semaphore(p, workerProgram(p)[wk[p]])
    /\ WorkerAdvance(p)
    /\ UNCHANGED <<task, ret, got, round, turn, pk>>

WorkerUses(p) ==
    /\ usesAt(workerProgram(p), wk[p])
    /\ ret' = [ret EXCEPT ![p] = task[p]]
    /\ WorkerAdvance(p)
    /\ UNCHANGED <<sem, task, got, round, turn, pk>>

poster == PosterSemaphore \/ PosterUses
worker(p) == WorkerSemaphore(p) \/ WorkerUses(p)

Next == poster \/ \E p \in PId : worker(p)

Spec == Init /\ [][Next]_vars /\ WF_vars(poster) /\ \A p \in PId : WF_vars(worker(p))

-----------------------------------------------------------------------------
Semaphores == [empty : 0 .. 1, full : 0 .. 1, mutex : 0 .. 1]

\* No semaphore ever counts more than one, and the programs stay in step.
TypeOK ==
    /\ sem \in [PId -> [task : Semaphores, ret : Semaphores]]
    /\ task \in [PId -> 0 .. Rounds - 1]
    /\ ret \in [PId -> 0 .. Rounds - 1]
    /\ got \in 0 .. Rounds - 1
    /\ round \in 0 .. Rounds - 1
    /\ turn \in PId
    /\ pk \in {"post", "collect"} \X (1 .. 5)
    /\ wk \in [PId -> 1 .. 9]

\* The poster and a worker never use that worker's buffers at the same time,
\* although neither holds a lock that the other one needs for both of them
\* (coordinator.cc:54-80, 239-255).
BuffersExclusive ==
    \A p \in PId : ~(turn = p /\ usesAt(posterProgram, pk[2])
                             /\ usesAt(workerProgram(p), wk[p]))

\* A result is that of the task posted in the same round, never one that a
\* participant left in its buffer before.
FreshResult ==
    pk[1] = "collect" /\ usesAt(posterProgram, pk[2]) => ret[turn] = round

\* Every round comes to its end: no thread waits for a semaphore for ever.
RoundsGoOn == \A r \in 0 .. Rounds - 1 : round = r ~> round # r

(***************************************************************************)
(* The exchange as Coordinator sees it.                                    *)
(***************************************************************************)
resultOut(p) == \/ sem[p]["ret"]["full"] = 1
                \/ pk[1] = "collect" /\ turn = p /\ pk[2] > 1

phaseOf(p) ==
    CASE pk[1] = "post" /\ p >= turn   -> "idle"
      [] pk[1] = "collect" /\ p < turn -> "collected"
      [] OTHER -> IF resultOut(p) THEN "done" ELSE "posted"

R == INSTANCE Rendezvous WITH phase <- [p \in PId |-> phaseOf(p)]

\* The semaphores implement the rendezvous that Coordinator is built on.
ImplementsRendezvous == R!RSpec
=============================================================================
