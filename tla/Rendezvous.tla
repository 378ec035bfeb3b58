------------------------------ MODULE Rendezvous ------------------------------
(***************************************************************************)
(* What the coordinator's semaphores promise to the thread that hands out  *)
(* work: every participant's thread gets the task of the round once, and   *)
(* its result is collected once, before the next round starts.  This is    *)
(* the level at which Coordinator describes the exchange.                  *)
(***************************************************************************)
EXTENDS Integers

CONSTANTS PNum, Rounds

VARIABLES round, phase

RInit == round = 0 /\ phase = [p \in 1 .. PNum |-> "idle"]

Move(p, from, to) ==
    /\ phase[p] = from
    /\ phase' = [phase EXCEPT ![p] = to]
    /\ UNCHANGED round

\* A participant is given its task only when the ones before it have theirs.
PostTask(p) == /\ \A q \in 1 .. p - 1 : phase[q] \in {"posted", "done"}
               /\ \A q \in p + 1 .. PNum : phase[q] = "idle"
               /\ Move(p, "idle", "posted")
Finish(p) == Move(p, "posted", "done")
\* Results are collected in the same order, after the last task is out; with
\* the last result the round is over.
Collect(p) ==
    /\ phase[p] = "done"
    /\ \A q \in 1 .. p - 1 : phase[q] = "collected"
    /\ \A q \in p + 1 .. PNum : phase[q] \in {"posted", "done"}
    /\ IF p < PNum
       THEN phase' = [phase EXCEPT ![p] = "collected"] /\ UNCHANGED round
       ELSE /\ phase' = [q \in 1 .. PNum |-> "idle"]
            /\ round' = (round + 1) % Rounds

RNext == \E p \in 1 .. PNum : PostTask(p) \/ Finish(p) \/ Collect(p)

RSpec == RInit /\ [][RNext]_<<round, phase>>
=============================================================================
