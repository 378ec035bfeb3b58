------------------------- MODULE CoordinatorInvariant -------------------------
(***************************************************************************)
(* The inductive invariant of Coordinator: what its properties rest on.    *)
(***************************************************************************)
EXTENDS Coordinator

InRound == {"query", "elect", "ask", "push", "replay", "mark"}

\* The mutexes are held exactly where the program is between get and release.
Locks ==
    /\ workingMutex = "work" <=> wpc \in {"votes", "commits", "get"}
    /\ workingMutex = "recovery" <=> rpc \in InRound
    /\ recoveryMutex = "recovery" <=> rpc \in InRound \cup {"lockWorking"}

\* A slot is in use only while the thread that filled it waits for its result.
SlotUse(p) ==
    /\ wslot[p].phase # "idle" => \/ wpc \in {"votes", "commits"}
                                  \/ wpc = "get" /\ asked = p
                                  \/ rpc = "ask" /\ leader = p
    /\ rslot[p].phase # "idle" => \/ rpc = "query"
                                  \/ rpc \in {"push", "replay"} /\ fed = p

\* A thread that uses the socket has found its state in the table, and nobody
\* takes it away.
ActiveState(p) ==
    /\ wslot[p].phase \in {"sent", "closing"} => pstate[p] = "WORKING"
    /\ rslot[p].phase \in {"sent", "closing"} => pstate[p] = "RECOVERY"
    /\ ka[p] = "connected" => pstate[p] = "WAITING"

\* The logs hold a committed entry for every transaction that was counted.
CommittedEntry(t) == {l \in LogEntry : l.ID = t /\ l.state = "COMMIT"}

ParticipantLog(p) == \A t \in Txid : t < ptxid[p] => plog[p][t] \in CommittedEntry(t)

CoordinatorLog ==
    /\ \A t \in Txid : t < txid => clog[t] \in CommittedEntry(t)
    /\ wpc \in {"votes", "commits"} =>
         txid <= MaxTxid /\ clog[txid] \in LogEntry /\ clog[txid].ID = txid

\* What is posted at which point of the program.
WorkTask(p) ==
    wslot[p].phase \in {"posted", "sent"} =>
        /\ wslot[p].task \in Task
        /\ wpc = "votes" => wslot[p].task = Log(txid, "PRE", <<>>)
        /\ wpc = "commits" => wslot[p].task = Log(txid, "COMMIT", cmd)
        /\ wpc = "get" => wslot[p].task = Log(SUPER_TXID, "COMMIT", cmd)
        /\ rpc = "ask" => wslot[p].task = AskLog(minID)

RecoveryTask(p) ==
    rslot[p].phase \in {"posted", "sent"} =>
        /\ rslot[p].task \in Task
        /\ rpc = "query" => /\ rslot[p].task = Log(RECOVERY_TXID, "PRE", <<>>)
                            /\ maxTxidTB[p] = 0
        /\ rpc \in {"push", "replay"} =>
             /\ rslot[p].task \in LogEntry
             /\ rslot[p].phase = "sent" => rslot[p].task.ID = maxTxidTB[p] + 1

\* A connection carries the task of the slot that is sent, or its reply, and
\* nothing otherwise.
Matches(task, r) ==
    /\ task.ID = RECOVERY_TXID => r.kind = "TXID"
    /\ task.ID = ASK_DATA_TXID =>
         \/ r = EmptyReply
         \/ r.kind = "LOG" /\ \E t \in Txid : r.log \in CommittedEntry(t)

Carries(p, task) ==
    /\ link[p] # "half"
    /\ req[p] # None => req[p] = task /\ resp[p] = None
    /\ resp[p] # None => Matches(task, resp[p])

Channel(p) ==
    /\ wslot[p].phase = "sent" => Carries(p, wslot[p].task)
    /\ rslot[p].phase = "sent" => Carries(p, rslot[p].task)
    /\ link[p] \in {"down", "listen"} => req[p] = None
    /\ wslot[p].phase # "sent" /\ rslot[p].phase # "sent" =>
         resp[p] = None /\ (link[p] = "up" => req[p] = None)

\* A result is that of the task that was posted.
Result(p) ==
    /\ wslot[p].ret = "OK" => wslot[p].data \in Reply
    /\ rslot[p].ret = "OK" => rslot[p].data \in Reply
    /\ rpc = "query" /\ rslot[p].phase = "done" /\ rslot[p].ret = "OK" =>
         rslot[p].data.kind = "TXID"
    /\ rpc = "ask" /\ wslot[p].phase = "done" /\ wslot[p].ret = "OK" =>
         Matches(AskLog(minID), wslot[p].data)

\* Where recovery is.
Progress ==
    /\ rpc \in {"wait", "lockRecovery", "lockWorking"} =>
         \A p \in PId : maxTxidTB[p] = 0
    /\ rpc \in InRound \ {"query"} =>
         \A p \in PId : maxTxidTB[p] # 0 => maxTxidTB[p] >= TXID_START - 1
    /\ rpc \in {"wait", "lockRecovery", "lockWorking", "query"} => minID <= MaxTxid
    /\ rpc \in {"elect", "ask", "push"} => minID >= TXID_START
    /\ rpc \in {"ask", "push"} => leader \in PId /\ minID <= maxID
    /\ rpc = "push" => entry \in LogEntry
    /\ rpc = "replay" => tid < txid

\* Who is in the table is in P_RECOVERY: a leader, and whoever was lost, are
\* taken out of it.
Table(p) ==
    /\ rpc \in InRound => (maxTxidTB[p] # 0 => pstate[p] = "RECOVERY")
    /\ rpc = "query" /\ rslot[p].phase = "done" =>
         IF rslot[p].ret = "OK" THEN pstate[p] = "RECOVERY" ELSE maxTxidTB[p] = 0

PInv(p) == /\ SlotUse(p) /\ ActiveState(p) /\ ParticipantLog(p)
           /\ WorkTask(p) /\ RecoveryTask(p) /\ Channel(p) /\ Result(p) /\ Table(p)

IInv == TypeOK /\ Locks /\ CoordinatorLog /\ Progress /\ \A p \in PId : PInv(p)
===============================================================================
