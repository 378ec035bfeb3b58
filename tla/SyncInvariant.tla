---------------------------- MODULE SyncInvariant ----------------------------
(***************************************************************************)
(* What TempCounted, WorkingInSync and NoneLeftBehind rest on: how the     *)
(* number of a participant, its place in the coordinator's tables, and the *)
(* point where a commit or a recovery stands go together.                  *)
(***************************************************************************)
EXTENDS CoordinatorInvariant

\* What no database executes, and what every database does.
WellFormed(c) == \/ Verb(c) \in {"DEL", "PRE"}
                 \/ Verb(c) = "SET" /\ Len(c) = 3
                 \/ Verb(c) = "GET" /\ Len(c) = 2

\* A log entry that was counted can be executed again.
Executable(t) == {l \in CommittedEntry(t) : WellFormed(l.event)}

ValidLog(p) == \A t \in Txid : t < ptxid[p] => plog[p][t] \in Executable(t)

ValidCoordinatorLog ==
    /\ \A t \in Txid : t < txid => clog[t] \in Executable(t)
    /\ wpc \in {"votes", "commits"} => clog[txid].event = cmd

\* _tmpNum counts the reconnected participants until a round begins; in a round
\* there are none.
Counted ==
    IF rpc \in InRound THEN \A p \in PId : pstate[p] # "TEMP"
    ELSE tmpNum = Cardinality({p \in PId : pstate[p] = "TEMP"})

\* Recovery never skips an entry the coordinator lacks, nor goes beyond the
\* leader's last one.
Distribution ==
    /\ rpc \in {"wait", "lockRecovery", "lockWorking", "query"} => minID < txid
    /\ rpc \in {"elect", "ask"} => minID <= txid
    /\ rpc = "push" => minID < txid /\ entry \in Executable(minID)
    /\ rpc \in {"ask", "push"} => txid <= maxID + 1

\* What the exchange of a task shows.
SlotSync(p) ==
    /\ wslot[p].phase = "closing" \/ rslot[p].phase = "closing" => link[p] # "up"
    /\ (wslot[p].phase = "sent" \/ rslot[p].phase = "sent") /\ link[p] = "up" =>
         req[p] # None \/ resp[p] # None
    /\ wslot[p].phase = "done" /\ wslot[p].ret # "OK" => pstate[p] # "WORKING"
    /\ rpc = "push" /\ rslot[p].phase \in {"posted", "sent"} => rslot[p].task = entry
    /\ rpc = "replay" /\ rslot[p].phase \in {"posted", "sent"} => rslot[p].task = clog[tid]

\* In a commit everybody has a task, and whether it can be executed depends on
\* the command alone.
CommitSync(p) ==
    wpc = "commits" =>
        /\ wslot[p].phase # "idle"
        /\ wslot[p].phase = "sent" /\ resp[p] # None =>
             (resp[p] # ErrorReply <=> WellFormed(cmd))
        /\ wslot[p].phase = "done" /\ wslot[p].ret = "OK" =>
             (wslot[p].data # ErrorReply <=> WellFormed(cmd))

\* The leader's answer is the entry it was asked for.
LeaderSync(p) ==
    rpc = "ask" =>
        /\ wslot[p].phase = "sent" /\ resp[p] # None =>
             resp[p].kind = "LOG" /\ resp[p].log \in Executable(minID)
        /\ wslot[p].phase = "done" /\ wslot[p].ret = "OK" =>
             wslot[p].data.kind = "LOG" /\ wslot[p].data.log \in Executable(minID)

\* The number of a participant in work.
executed(p) == /\ wpc = "commits" /\ WellFormed(cmd)
               /\ \/ wslot[p].phase = "done"
                  \/ wslot[p].phase = "sent" /\ resp[p] # None

WorkNumber(p) ==
    IF rpc \in {"ask", "push"} THEN maxID + 1
    ELSE IF executed(p) THEN txid + 1 ELSE txid

WorkSync(p) ==
    pstate[p] = "WORKING" /\ link[p] = "up" =>
        /\ ptxid[p] = WorkNumber(p)
        /\ rpc # "query"
        /\ rpc \in {"ask", "push"} => p = leader
        /\ rpc = "elect" => ahead = {}

\* The number of a participant in recovery is the one in the table.
TableNumber(p) == IF rslot[p].phase = "sent" /\ resp[p] # None
                  THEN maxTxidTB[p] + 1 ELSE maxTxidTB[p]

TableSync(p) ==
    /\ rpc = "query" /\ link[p] = "up" =>
         /\ rslot[p].phase = "sent" /\ resp[p] # None => resp[p].txid = ptxid[p] - 1
         /\ rslot[p].phase = "done" /\ rslot[p].ret = "OK" =>
              rslot[p].data.txid = ptxid[p] - 1
    /\ rpc \in InRound \ {"query"} /\ maxTxidTB[p] # 0 /\ link[p] = "up" =>
         ptxid[p] - 1 = TableNumber(p)
    /\ rpc \in {"push", "replay"} /\ rslot[p].phase = "sent" /\ resp[p] # None =>
         resp[p] # ErrorReply
    /\ rpc \in {"ask", "push"} => maxTxidTB[p] <= maxID

\* Who is in P_RECOVERY is in the table, and gets what he lacks.
fedUpTo(p) == IF p < fed \/ (p = fed /\ rslot[p].phase = "done") THEN tid ELSE tid - 1

RecoverySync(p) ==
    pstate[p] = "RECOVERY" =>
        /\ rpc \in InRound
        /\ rpc = "query" => (rslot[p].phase = "done" => rslot[p].ret = "OK")
        /\ rpc # "query" => maxTxidTB[p] # 0
        /\ rpc = "replay" => maxTxidTB[p] \in fedUpTo(p) .. txid - 1
        /\ rpc = "mark" => maxTxidTB[p] = txid - 1

PSync(p) == /\ ValidLog(p) /\ SlotSync(p) /\ CommitSync(p) /\ LeaderSync(p)
            /\ WorkSync(p) /\ TableSync(p) /\ RecoverySync(p)

SyncInv == ValidCoordinatorLog /\ Counted /\ Distribution /\ \A p \in PId : PSync(p)
=============================================================================
