----------------------------- MODULE Coordinator -----------------------------
(***************************************************************************)
(* The coordinator of the replicated store, together with its participants *)
(* and its client.                                                         *)
(*                                                                         *)
(* Threads: `work' serves one client at a time and runs two-phase commit;  *)
(* `recovery' brings participants up to date; and every participant p has  *)
(* a pWorking and a pRecovery thread, which exchange one task for one      *)
(* result with the thread above through semaphores, and a keepAlive thread *)
(* that reconnects.  Two mutexes keep work, recovery and keepAlive apart.  *)
(*                                                                         *)
(* A step that a thread takes while it alone can see what it changes is    *)
(* folded into the step that publishes it: all tasks of a round are handed *)
(* out in one step, and their results are collected in one step once the   *)
(* last of them is there.                                                  *)
(***************************************************************************)
EXTENDS Participant

CONSTANTS
    Timeouts,          \* may an answer arrive too late, or get lost?
    CoordinatorCrash,  \* may the coordinator be killed and started again?
    ParticipantCrash   \* may participants be?

ASSUME SwitchAssumption ==
    {Timeouts, CoordinatorCrash, ParticipantCrash} \subseteq BOOLEAN

VARIABLES
    txid,          \* _TXID, the next transaction to be committed
    clog,          \* _lg, None where the map has no entry
    cstate,        \* _cstate
    pstate,        \* _pstate
    tmpNum,        \* _tmpNum, the participants waiting to be recovered
    maxTxidTB,     \* maxTxidTB, 0 where the map has no entry
    workingMutex,  \* who holds _workingMutex: "free", "work" or "recovery"
    recoveryMutex, \* who holds _recoveryMutex: "free" or "recovery"
    wpc,           \* where work is
    cmd,           \* the client's command
    asked,         \* the participant Request has asked
    reply,         \* what the last client was told
    rpc,           \* where recovery is
    minID, maxID,  \* recovery: the entry to distribute, and the last one
    leader,        \* recovery: the participant with the newest log, or 0
    entry,         \* recovery: the log entry the leader handed out
    fed,           \* recovery: the participant an entry is pushed to
    tid,           \* recovery: the entry of the coordinator's log to push
    ka,            \* ka[p]: where keepAlive is
    wslot,         \* wslot[p]: the exchange with pWorking
    rslot          \* rslot[p]: the exchange with pRecovery

workVars == <<wpc, cmd, asked, reply>>
recoveryVars == <<rpc, minID, maxID, leader, entry, fed, tid>>
lockVars == <<workingMutex, recoveryMutex>>
stateVars == <<txid, clog, cstate, pstate, tmpNum, maxTxidTB>>
vars == <<participantVars, workVars, recoveryVars, lockVars, stateVars,
          ka, wslot, rslot>>

(***************************************************************************)
(* The semaphore pairs _ptaskSem/_pRetSem and _pRtaskSem/_pRRetSem: a task *)
(* is posted, taken (sent), and its result is done; a thread that found    *)
(* the connection broken closes it (closing) before it tells the others.   *)
(* What the buffers hold after a result was collected is forgotten, since  *)
(* both are written before they are read again.                            *)
(***************************************************************************)
Phase == {"idle", "posted", "sent", "closing", "done"}
Ret == {"SKIP", "OK", "FAIL"}
Slot == [phase : Phase, task : Task \cup {None}, ret : Ret, data : Reply \cup {None}]

IdleSlot == [phase |-> "idle", task |-> None, ret |-> "SKIP", data |-> None]
PostedSlot(task) == [IdleSlot EXCEPT !.phase = "posted", !.task = task]
DoneSlot(ret, data) == [IdleSlot EXCEPT !.phase = "done", !.ret = ret, !.data = data]

PostAll(slots, task) == [p \in PId |-> PostedSlot(task)]
AllIdle(slots) == \A p \in PId : slots[p].phase = "idle"
AllDone(slots) == \A p \in PId : slots[p].phase = "done"
CollectAll(slots) == [p \in PId |-> IdleSlot]

CoordinatorInit ==
    /\ txid = TXID_START
    /\ clog = [t \in Txid |-> None]
    /\ cstate = "RECOVERY"
    /\ pstate = [p \in PId |-> "WAITING"]
    /\ tmpNum = 0
    /\ maxTxidTB = [p \in PId |-> 0]
    /\ workingMutex = "free"
    /\ recoveryMutex = "free"
    /\ wpc = "accept"
    /\ cmd = <<>>
    /\ asked = 1
    /\ reply = ErrorReply
    /\ rpc = "start"
    /\ minID = TXID_START - 1 /\ maxID = 0 /\ leader = 0
    /\ entry = None /\ fed = 1 /\ tid = TXID_START
    /\ ka = [p \in PId |-> "poll"]
    /\ wslot = [p \in PId |-> IdleSlot]
    /\ rslot = [p \in PId |-> IdleSlot]

Init == ParticipantInit /\ CoordinatorInit

-----------------------------------------------------------------------------
(***************************************************************************)
(* keepAlive(p).  Polling _pstate and connecting are one step: nobody else *)
(* changes the state or the connection of a waiting participant.           *)
(***************************************************************************)
Reconnect(p) ==
    /\ ka[p] = "poll"
    /\ pstate[p] = "WAITING"
    /\ Connect(p)
    /\ ka' = [ka EXCEPT ![p] = "connected"]
    /\ UNCHANGED <<workVars, recoveryVars, lockVars, stateVars, wslot, rslot>>

\* Mutant: without _recoveryMutex.
MarkTempUnlocked(p) ==
    /\ ka[p] = "connected"
    /\ pstate' = [pstate EXCEPT ![p] = "TEMP"]
    /\ tmpNum' = tmpNum + 1
    /\ ka' = [ka EXCEPT ![p] = "poll"]
    /\ UNCHANGED <<participantVars, workVars, recoveryVars, lockVars,
                   txid, clog, cstate, maxTxidTB, wslot, rslot>>

\* The state changes under _recoveryMutex, which is taken and released here.
MarkTemp(p) ==
    /\ ka[p] = "connected"
    /\ recoveryMutex = "free"
    /\ pstate' = [pstate EXCEPT ![p] = "TEMP"]
    /\ tmpNum' = tmpNum + 1
    /\ ka' = [ka EXCEPT ![p] = "poll"]
    /\ UNCHANGED <<participantVars, workVars, recoveryVars, lockVars,
                   txid, clog, cstate, maxTxidTB, wslot, rslot>>

(***************************************************************************)
(* sendAndRecv, as far as both threads share it: the connection works at   *)
(* the moment of sending, the reply arrives, or neither does.              *)
(***************************************************************************)
SendFails(p) == link[p] # "up"
RecvFails(p) == Timeouts \/ link[p] # "up"

(***************************************************************************)
(* pWorking(p)                                                             *)
(***************************************************************************)
pwUnchanged == <<workVars, recoveryVars, lockVars, txid, clog, cstate, tmpNum,
                 maxTxidTB, ka, rslot>>

\* Mutant: a participant that does not work gives no result at all.
PWSkipSilently(p) == FALSE

PWSkip(p) ==
    /\ wslot[p].phase = "posted"
    /\ pstate[p] # "WORKING"
    /\ wslot' = [wslot EXCEPT ![p] = DoneSlot("SKIP", None)]
    /\ UNCHANGED <<participantVars, pstate, pwUnchanged>>

PWSend(p) ==
    /\ wslot[p].phase = "posted"
    /\ pstate[p] = "WORKING"
    /\ ~SendFails(p)
    /\ Deliver(p, wslot[p].task)
    /\ wslot' = [wslot EXCEPT ![p].phase = "sent"]
    /\ UNCHANGED <<pstate, pwUnchanged>>

PWReceive(p) ==
    /\ wslot[p].phase = "sent"
    /\ resp[p] # None
    /\ TakeReply(p)
    /\ wslot' = [wslot EXCEPT ![p] = DoneSlot("OK", resp[p])]
    /\ UNCHANGED <<pstate, pwUnchanged>>

\* Mutant: keepAlive may reconnect before the socket is closed.
PWFailHandsOverFirst(p) ==
    /\ wslot[p].phase = "sent" /\ RecvFails(p)
    /\ pstate' = [pstate EXCEPT ![p] = "WAITING"]
    /\ wslot' = [wslot EXCEPT ![p] = [IdleSlot EXCEPT !.phase = "closing"]]
    /\ UNCHANGED <<participantVars, pwUnchanged>>

\* Any error: the socket is closed first ...
PWFail(p) ==
    /\ \/ wslot[p].phase = "posted" /\ pstate[p] = "WORKING" /\ SendFails(p)
       \/ wslot[p].phase = "sent" /\ RecvFails(p)
    /\ CloseLink(p)
    /\ wslot' = [wslot EXCEPT ![p] = [IdleSlot EXCEPT !.phase = "closing"]]
    /\ UNCHANGED <<pstate, pwUnchanged>>

\* ... and then handed to keepAlive.
PWGiveUp(p) ==
    /\ wslot[p].phase = "closing"
    /\ pstate' = [pstate EXCEPT ![p] = "WAITING"]
    /\ wslot' = [wslot EXCEPT ![p] = DoneSlot("FAIL", None)]
    /\ UNCHANGED <<participantVars, pwUnchanged>>

(***************************************************************************)
(* pRecovery(p).  A log entry is sent only to a participant that lacks     *)
(* exactly this one; the number query is below TXID_START and always sent. *)
(***************************************************************************)
prUnchanged == <<workVars, recoveryVars, lockVars, txid, clog, cstate, tmpNum,
                 ka, wslot>>

inSequence(p) == \/ rslot[p].task.ID < TXID_START
                 \/ rslot[p].task.ID = maxTxidTB[p] + 1

PRSkip(p) ==
    /\ rslot[p].phase = "posted"
    /\ ~(pstate[p] = "RECOVERY" /\ inSequence(p))
    /\ rslot' = [rslot EXCEPT ![p] = DoneSlot("SKIP", None)]
    /\ UNCHANGED <<participantVars, pstate, maxTxidTB, prUnchanged>>

PRSend(p) ==
    /\ rslot[p].phase = "posted"
    /\ pstate[p] = "RECOVERY" /\ inSequence(p)
    /\ ~SendFails(p)
    /\ Deliver(p, rslot[p].task)
    /\ rslot' = [rslot EXCEPT ![p].phase = "sent"]
    /\ UNCHANGED <<pstate, maxTxidTB, prUnchanged>>

\* The table counts every answer that is not an error, that to the number
\* query as well.
PRReceive(p) ==
    /\ rslot[p].phase = "sent"
    /\ resp[p] # None
    /\ TakeReply(p)
    /\ rslot' = [rslot EXCEPT ![p] = DoneSlot("OK", resp[p])]
    /\ maxTxidTB' = IF resp[p] = ErrorReply THEN maxTxidTB
                    ELSE [maxTxidTB EXCEPT ![p] = @ + 1]
    /\ UNCHANGED <<pstate, prUnchanged>>

PRFail(p) ==
    /\ \/ /\ rslot[p].phase = "posted"
          /\ pstate[p] = "RECOVERY" /\ inSequence(p)
          /\ SendFails(p)
       \/ rslot[p].phase = "sent" /\ RecvFails(p)
    /\ CloseLink(p)
    /\ rslot' = [rslot EXCEPT ![p] = [IdleSlot EXCEPT !.phase = "closing"]]
    /\ UNCHANGED <<pstate, maxTxidTB, prUnchanged>>

PRGiveUp(p) ==
    /\ rslot[p].phase = "closing"
    /\ pstate' = [pstate EXCEPT ![p] = "WAITING"]
    /\ maxTxidTB' = [maxTxidTB EXCEPT ![p] = 0]
    /\ rslot' = [rslot EXCEPT ![p] = DoneSlot("FAIL", None)]
    /\ UNCHANGED <<participantVars, prUnchanged>>

-----------------------------------------------------------------------------
(***************************************************************************)
(* work: Working, UpdateDB and Request                                     *)
(***************************************************************************)
isUpdate(c) == Verb(c) \in {"SET", "DEL"}
isRequest(c) == Verb(c) = "GET"

workUnchanged == <<participantVars, recoveryVars, recoveryMutex, cstate,
                   pstate, tmpNum, maxTxidTB, ka, rslot>>

\* A client connects and sends its command.  The end of a command that
\* arrives too late is taken for the end of the command, so the words that
\* are there, maybe none, are all there is.
AcceptClient(c) ==
    /\ wpc = "accept"
    /\ isUpdate(c) => txid <= MaxTxid
    /\ cmd' = c
    /\ reply' = ErrorReply
    /\ wpc' = "check"
    /\ UNCHANGED <<asked, workingMutex, txid, clog, wslot, workUnchanged>>

\* The reply is sent, the connection closed and the command forgotten.
Answer(r) ==
    /\ reply' = r
    /\ wpc' = "accept"
    /\ cmd' = <<>>
    /\ asked' = 1

Refuse ==
    /\ wpc = "check"
    /\ cmd = <<>> \/ cstate # "WORKING"
    /\ Answer(ErrorReply)
    /\ UNCHANGED <<workingMutex, txid, clog, wslot, workUnchanged>>

Admit ==
    /\ wpc = "check"
    /\ cmd # <<>> /\ cstate = "WORKING"
    /\ wpc' = "lock"
    /\ UNCHANGED <<cmd, asked, reply, workingMutex, txid, clog, wslot, workUnchanged>>

\* Mutant: the vote overwrites the last committed transaction.
voteSlotBefore == IF txid > TXID_START THEN txid - 1 ELSE txid
\* The log entry a vote goes to.
voteSlot == txid

\* UpdateDB, first part: log the transaction and ask everybody for a vote.
StartUpdate ==
    /\ wpc = "lock" /\ isUpdate(cmd)
    /\ workingMutex = "free"
    /\ AllIdle(wslot)
    /\ txid <= MaxTxid
    /\ workingMutex' = "work"
    /\ clog' = [clog EXCEPT ![voteSlot] = Log(txid, "PRE", cmd)]
    /\ wslot' = PostAll(wslot, Log(txid, "PRE", <<>>))
    /\ wpc' = "votes"
    /\ UNCHANGED <<cmd, asked, reply, txid, workUnchanged>>

voted == \E p \in PId : wslot[p].ret = "OK" /\ wslot[p].data = PreReply

\* One vote is enough to go on; without any the transaction is given up.
CollectVotes ==
    /\ wpc = "votes"
    /\ AllDone(wslot)
    /\ IF voted
       THEN /\ wslot' = PostAll(wslot, Log(txid, "COMMIT", cmd))
            /\ wpc' = "commits"
            /\ UNCHANGED <<cmd, asked, reply, workingMutex>>
       ELSE /\ wslot' = CollectAll(wslot)
            /\ workingMutex' = "free"
            /\ Answer(ErrorReply)
    /\ UNCHANGED <<txid, clog, workUnchanged>>

\* Mutant: a transaction is counted only if everybody committed it.
unanimousCommitters ==
    {p \in PId : \A q \in PId : wslot[q].ret = "OK" /\ wslot[q].data # ErrorReply}
committers == {p \in PId : wslot[p].ret = "OK" /\ wslot[p].data # ErrorReply}

\* One participant that committed is enough as well.  The reply is that of
\* the last of them.
CollectCommits ==
    /\ wpc = "commits"
    /\ AllDone(wslot)
    /\ IF committers # {}
       THEN /\ clog' = [clog EXCEPT ![txid].state = "COMMIT"]
            /\ txid' = txid + 1
            /\ \E last \in committers : /\ \A p \in committers : p <= last
                                        /\ Answer(wslot[last].data)
       ELSE /\ Answer(ErrorReply)
            /\ UNCHANGED <<txid, clog>>
    /\ wslot' = CollectAll(wslot)
    /\ workingMutex' = "free"
    /\ UNCHANGED workUnchanged

\* Request: ask one participant after the other until one answers.
StartRequest ==
    /\ wpc = "lock" /\ isRequest(cmd)
    /\ workingMutex = "free"
    /\ wslot[1].phase = "idle"
    /\ workingMutex' = "work"
    /\ wslot' = [wslot EXCEPT ![1] = PostedSlot(Log(SUPER_TXID, "COMMIT", cmd))]
    /\ asked' = 1
    /\ wpc' = "get"
    /\ UNCHANGED <<cmd, reply, txid, clog, workUnchanged>>

answered(p) == wslot[p].ret = "OK" /\ wslot[p].data # EmptyReply

RequestAnswered ==
    /\ wpc = "get"
    /\ wslot[asked].phase = "done"
    /\ answered(asked)
    /\ wslot' = [wslot EXCEPT ![asked] = IdleSlot]
    /\ workingMutex' = "free"
    /\ Answer(wslot[asked].data)
    /\ UNCHANGED <<txid, clog, workUnchanged>>

RequestNext ==
    /\ wpc = "get"
    /\ wslot[asked].phase = "done"
    /\ ~answered(asked)
    /\ asked < PNum
    /\ wslot[asked + 1].phase = "idle"
    /\ wslot' = [wslot EXCEPT ![asked] = IdleSlot,
                              ![asked + 1] = PostedSlot(Log(SUPER_TXID, "COMMIT", cmd))]
    /\ asked' = asked + 1
    /\ UNCHANGED <<wpc, cmd, reply, workingMutex, txid, clog, workUnchanged>>

RequestFails ==
    /\ wpc = "get"
    /\ wslot[asked].phase = "done"
    /\ ~answered(asked)
    /\ asked = PNum
    /\ wslot' = [wslot EXCEPT ![asked] = IdleSlot]
    /\ workingMutex' = "free"
    /\ Answer(ErrorReply)
    /\ UNCHANGED <<txid, clog, workUnchanged>>

\* Neither SET nor DEL nor GET: refused, but only under the lock.
BadCommand ==
    /\ wpc = "lock" /\ ~isUpdate(cmd) /\ ~isRequest(cmd)
    /\ workingMutex = "free"
    /\ Answer(ErrorReply)
    /\ UNCHANGED <<workingMutex, txid, clog, wslot, workUnchanged>>

-----------------------------------------------------------------------------
(***************************************************************************)
(* recovery: Recovery, recoveryFromP and recoveryFromC                     *)
(***************************************************************************)
recoveryUnchanged == <<workVars, ka>>

Known == {p \in PId : maxTxidTB[p] # 0}

Post(p, task) == [rslot EXCEPT ![p] = PostedSlot(task)]

\* Before any lock is taken.
StartRecovery ==
    /\ rpc = "start"
    /\ minID' = txid - 1
    /\ maxTxidTB' = [p \in PId |-> 0]
    /\ rpc' = "wait"
    /\ UNCHANGED <<participantVars, lockVars, txid, clog, cstate, pstate, tmpNum,
                   maxID, leader, entry, fed, tid, wslot, rslot, recoveryUnchanged>>

\* Mutant: clients are not turned away.
SuspendWorkQuietly ==
    /\ rpc = "wait"
    /\ tmpNum # 0
    /\ rpc' = "lockRecovery"
    /\ UNCHANGED <<participantVars, lockVars, stateVars,
                   minID, maxID, leader, entry, fed, tid, wslot, rslot,
                   recoveryUnchanged>>

\* New clients are refused from here on.
SuspendWork ==
    /\ rpc = "wait"
    /\ tmpNum # 0
    /\ cstate' = "RECOVERY"
    /\ rpc' = "lockRecovery"
    /\ UNCHANGED <<participantVars, lockVars, txid, clog, pstate, tmpNum, maxTxidTB,
                   minID, maxID, leader, entry, fed, tid, wslot, rslot,
                   recoveryUnchanged>>

LockRecovery ==
    /\ rpc = "lockRecovery"
    /\ recoveryMutex = "free"
    /\ recoveryMutex' = "recovery"
    /\ rpc' = "lockWorking"
    /\ UNCHANGED <<participantVars, workingMutex, stateVars, minID, maxID, leader,
                   entry, fed, tid, wslot, rslot, recoveryUnchanged>>

\* Everybody who is connected is put into recovery and asked for a number.
QueryAll ==
    /\ rpc = "lockWorking"
    /\ workingMutex = "free"
    /\ AllIdle(rslot)
    /\ workingMutex' = "recovery"
    /\ pstate' = [p \in PId |-> IF pstate[p] \in {"TEMP", "WORKING"}
                                THEN "RECOVERY" ELSE pstate[p]]
    /\ rslot' = PostAll(rslot, Log(RECOVERY_TXID, "PRE", <<>>))
    /\ rpc' = "query"
    /\ UNCHANGED <<participantVars, recoveryMutex, txid, clog, cstate, tmpNum,
                   maxTxidTB, minID, maxID, leader, entry, fed, tid, wslot,
                   recoveryUnchanged>>

reported(p) == rslot[p].ret = "OK" /\ rslot[p].data # EmptyReply
tableFrom(slots) == [p \in PId |-> IF reported(p) THEN slots[p].data.txid
                                  ELSE maxTxidTB[p]]

\* Mutant: nobody is ever behind.
alwaysConsistent == TRUE
consistent == \A p \in PId : reported(p) => rslot[p].data.txid = txid - 1

\* When everybody agrees with the coordinator there is nothing to do;
\* otherwise minID becomes the first entry somebody lacks.
BuildTable ==
    /\ rpc = "query"
    /\ AllDone(rslot)
    /\ LET table == tableFrom(rslot)
           numbers == {minID} \cup {table[p] : p \in {q \in PId : table[q] # 0}}
       IN /\ maxTxidTB' = table
          /\ IF consistent
             THEN rpc' = "mark" /\ UNCHANGED minID
             ELSE /\ rpc' = "elect"
                  /\ \E least \in numbers : /\ \A n \in numbers : least <= n
                                            /\ minID' = least + 1
    /\ rslot' = CollectAll(rslot)
    /\ UNCHANGED <<participantVars, lockVars, txid, clog, cstate, pstate, tmpNum,
                   maxID, leader, entry, fed, tid, wslot, recoveryUnchanged>>

\* Who knows more than the coordinator: the newest log, the smallest id.
ahead == {p \in PId : maxTxidTB[p] > txid - 1}
isLeader(p) == /\ p \in ahead
               /\ \A q \in ahead : \/ maxTxidTB[q] < maxTxidTB[p]
                                   \/ maxTxidTB[q] = maxTxidTB[p] /\ p <= q

ElectLeader ==
    /\ rpc = "elect"
    /\ \E p \in PId :
         /\ isLeader(p)
         /\ leader' = p
         /\ maxID' = maxTxidTB[p]
         /\ pstate' = [pstate EXCEPT ![p] = "WORKING"]
         /\ maxTxidTB' = [maxTxidTB EXCEPT ![p] = 0]
         /\ IF minID <= maxTxidTB[p]
            THEN /\ wslot' = [wslot EXCEPT ![p] = PostedSlot(AskLog(minID))]
                 /\ rpc' = "ask"
            ELSE UNCHANGED <<wslot, rpc>>
    /\ UNCHANGED <<participantVars, lockVars, txid, clog, cstate, tmpNum, minID,
                   entry, fed, tid, rslot, recoveryUnchanged>>

\* Mutant: whatever the leader hands out is taken for the next entry.
extendsLogUnchecked(l) == TRUE
extendsLog(l) == l.ID = txid

\* The leader's entry completes the coordinator's log when it is the next
\* one, and is pushed to the participants one by one.
TakeEntry ==
    /\ rpc = "ask"
    /\ wslot[leader].phase = "done"
    /\ answered(leader)
    /\ LET l == wslot[leader].data.log IN
         /\ entry' = l
         /\ rslot' = Post(1, l)
         /\ IF extendsLog(l)
            THEN clog' = [clog EXCEPT ![l.ID] = l] /\ txid' = txid + 1
            ELSE UNCHANGED <<clog, txid>>
    /\ fed' = 1
    /\ wslot' = [wslot EXCEPT ![leader] = IdleSlot]
    /\ rpc' = "push"
    /\ UNCHANGED <<participantVars, lockVars, cstate, pstate, tmpNum, maxTxidTB,
                   minID, maxID, leader, tid, recoveryUnchanged>>

\* The leader did not answer: somebody else has to go on from minID.
LeaderLost ==
    /\ rpc = "ask"
    /\ wslot[leader].phase = "done"
    /\ ~answered(leader)
    /\ wslot' = [wslot EXCEPT ![leader] = IdleSlot]
    /\ rpc' = "elect"
    /\ UNCHANGED <<participantVars, lockVars, stateVars, minID, maxID, leader,
                   entry, fed, tid, rslot, recoveryUnchanged>>

PushNext ==
    /\ rpc = "push"
    /\ rslot[fed].phase = "done"
    /\ fed < PNum
    /\ rslot' = [rslot EXCEPT ![fed] = IdleSlot, ![fed + 1] = PostedSlot(entry)]
    /\ fed' = fed + 1
    /\ UNCHANGED <<participantVars, lockVars, stateVars, rpc, minID, maxID, leader,
                   entry, tid, wslot, recoveryUnchanged>>

\* An entry has been pushed to all: ask for the next one, or look for
\* somebody who is even further.
AskNext ==
    /\ rpc = "push"
    /\ rslot[fed].phase = "done"
    /\ fed = PNum
    /\ rslot' = [rslot EXCEPT ![fed] = IdleSlot]
    /\ minID' = minID + 1
    /\ IF minID + 1 <= maxID
       THEN /\ wslot' = [wslot EXCEPT ![leader] = PostedSlot(AskLog(minID + 1))]
            /\ rpc' = "ask"
       ELSE /\ rpc' = "elect"
            /\ UNCHANGED wslot
    /\ fed' = 1
    /\ entry' = None
    /\ UNCHANGED <<participantVars, lockVars, stateVars, maxID, leader, tid,
                   recoveryUnchanged>>

\* Nobody is ahead of the coordinator: it replays its own log from the
\* first transaction, to one participant after the other.
ReplayLog ==
    /\ rpc = "elect"
    /\ ahead = {}
    /\ leader' = 0 /\ maxID' = 0 /\ minID' = TXID_START - 1
    /\ tid' = TXID_START
    /\ fed' = 1
    /\ IF TXID_START < txid
       THEN /\ rslot' = Post(1, clog[TXID_START])
            /\ rpc' = "replay"
       ELSE /\ rpc' = "mark"
            /\ UNCHANGED rslot
    /\ UNCHANGED <<participantVars, lockVars, stateVars, entry, wslot,
                   recoveryUnchanged>>

ReplayNext ==
    /\ rpc = "replay"
    /\ rslot[fed].phase = "done"
    /\ \/ /\ fed < PNum
          /\ rslot' = [rslot EXCEPT ![fed] = IdleSlot, ![fed + 1] = PostedSlot(clog[tid])]
          /\ fed' = fed + 1
          /\ UNCHANGED <<tid, rpc>>
       \/ /\ fed = PNum /\ tid + 1 < txid
          /\ rslot' = [p \in PId |-> IF p = 1 THEN PostedSlot(clog[tid + 1]) ELSE IdleSlot]
          /\ tid' = tid + 1
          /\ fed' = 1
          /\ UNCHANGED rpc
       \/ /\ fed = PNum /\ tid + 1 = txid
          /\ rslot' = [rslot EXCEPT ![fed] = IdleSlot]
          /\ rpc' = "mark"
          /\ tid' = TXID_START
          /\ fed' = 1
    /\ UNCHANGED <<participantVars, lockVars, stateVars, minID, maxID, leader,
                   entry, wslot, recoveryUnchanged>>

\* Whoever the table says is up to date works again.
MarkWorking ==
    /\ rpc = "mark"
    /\ pstate' = [p \in PId |-> IF p \in Known /\ maxTxidTB[p] = txid - 1
                                THEN "WORKING" ELSE pstate[p]]
    /\ tmpNum' = 0
    /\ workingMutex' = "free" /\ recoveryMutex' = "free"
    /\ rpc' = "finish"
    /\ UNCHANGED <<participantVars, txid, clog, cstate, maxTxidTB, minID, maxID,
                   leader, entry, fed, tid, wslot, rslot, recoveryUnchanged>>

ResumeWork ==
    /\ rpc = "finish"
    /\ cstate' = "WORKING"
    /\ rpc' = "start"
    /\ UNCHANGED <<participantVars, lockVars, txid, clog, pstate, tmpNum, maxTxidTB,
                   minID, maxID, leader, entry, fed, tid, wslot, rslot,
                   recoveryUnchanged>>

-----------------------------------------------------------------------------
\* The coordinator is killed and started again with empty memory; the
\* participants go on with what they have.
CrashCoordinator ==
    /\ txid' = TXID_START
    /\ clog' = [t \in Txid |-> None]
    /\ cstate' = "RECOVERY"
    /\ pstate' = [p \in PId |-> "WAITING"]
    /\ tmpNum' = 0
    /\ maxTxidTB' = [p \in PId |-> 0]
    /\ workingMutex' = "free"
    /\ recoveryMutex' = "free"
    /\ wpc' = "accept"
    /\ cmd' = <<>>
    /\ asked' = 1
    /\ reply' = ErrorReply
    /\ rpc' = "start"
    /\ minID' = TXID_START - 1 /\ maxID' = 0 /\ leader' = 0
    /\ entry' = None /\ fed' = 1 /\ tid' = TXID_START
    /\ ka' = [p \in PId |-> "poll"]
    /\ wslot' = [p \in PId |-> IdleSlot]
    /\ rslot' = [p \in PId |-> IdleSlot]
    /\ link' = [p \in PId |-> IF link[p] = "up" THEN "half" ELSE link[p]]
    /\ resp' = [p \in PId |-> None]
    /\ UNCHANGED <<ptxid, plog, kv, req>>

-----------------------------------------------------------------------------
work == \/ \E c \in Command : AcceptClient(c)
        \/ Refuse \/ Admit \/ BadCommand
        \/ StartUpdate \/ CollectVotes \/ CollectCommits
        \/ StartRequest \/ RequestAnswered \/ RequestNext \/ RequestFails

recovery == \/ StartRecovery \/ SuspendWork \/ LockRecovery \/ QueryAll \/ BuildTable
            \/ ElectLeader \/ TakeEntry \/ LeaderLost \/ PushNext \/ AskNext
            \/ ReplayLog \/ ReplayNext \/ MarkWorking \/ ResumeWork

keepAlive(p) == Reconnect(p) \/ MarkTemp(p)
pWorking(p) == PWSkip(p) \/ PWSend(p) \/ PWReceive(p) \/ PWFail(p) \/ PWGiveUp(p)
pRecovery(p) == PRSkip(p) \/ PRSend(p) \/ PRReceive(p) \/ PRFail(p) \/ PRGiveUp(p)

coordinatorVars == <<workVars, recoveryVars, lockVars, stateVars, ka, wslot, rslot>>

participant(p) == (PWorking(p) \/ PKeepAlive(p)) /\ UNCHANGED coordinatorVars
crash(p) == ParticipantCrash /\ PCrash(p) /\ UNCHANGED coordinatorVars
restart(p) == PRestart(p) /\ UNCHANGED coordinatorVars

Next ==
    \/ work
    \/ recovery
    \/ \E p \in PId : \/ keepAlive(p) \/ pWorking(p) \/ pRecovery(p)
                       \/ participant(p) \/ crash(p) \/ restart(p)
    \/ CoordinatorCrash /\ CrashCoordinator

Spec == Init /\ [][Next]_vars

-----------------------------------------------------------------------------
(***************************************************************************)
(* Properties                                                              *)
(***************************************************************************)
PState == {"WORKING", "RECOVERY", "WAITING", "TEMP"}
WorkPC == {"accept", "check", "lock", "votes", "commits", "get"}
RecoveryPC == {"start", "wait", "lockRecovery", "lockWorking", "query", "elect",
               "ask", "push", "replay", "mark", "finish"}

ParticipantTypeOK ==
    /\ ptxid \in [PId -> TXID_START .. MaxTxid + 1]
    /\ plog \in [PId -> [Txid -> LogEntry \cup {None}]]
    /\ kv \in [PId -> Database]
    /\ link \in [PId -> LinkState]
    /\ req \in [PId -> Task \cup {None}]
    /\ resp \in [PId -> Reply \cup {None}]

\* Every variable holds a value the program can give it.
TypeOK ==
    /\ ParticipantTypeOK
    /\ txid \in TXID_START .. MaxTxid + 1
    /\ clog \in [Txid -> LogEntry \cup {None}]
    /\ cstate \in {"WORKING", "RECOVERY"}
    /\ pstate \in [PId -> PState]
    /\ tmpNum \in Nat
    /\ maxTxidTB \in [PId -> 0 .. MaxTxid]
    /\ workingMutex \in {"free", "work", "recovery"}
    /\ recoveryMutex \in {"free", "recovery"}
    /\ wpc \in WorkPC
    /\ cmd \in Command \cup {<<>>}
    /\ asked \in PId
    /\ reply \in Reply
    /\ rpc \in RecoveryPC
    /\ minID \in TXID_START - 1 .. MaxTxid + 1
    /\ maxID \in 0 .. MaxTxid
    /\ leader \in {0} \cup PId
    /\ entry \in LogEntry \cup {None}
    /\ fed \in PId
    /\ tid \in Txid
    /\ ka \in [PId -> {"poll", "connected"}]
    /\ wslot \in [PId -> Slot]
    /\ rslot \in [PId -> Slot]

\* The three threads of a participant share one Network object without a
\* lock: whoever sends, receives or closes (coordinator.cc:67-77, 147-163) is
\* alone with it, and keepAlive does not replace the socket meanwhile.
SocketExclusive ==
    \A p \in PId :
        /\ ~(wslot[p].phase \in {"sent", "closing"} /\ rslot[p].phase \in {"sent", "closing"})
        /\ \/ wslot[p].phase \in {"sent", "closing"}
           \/ rslot[p].phase \in {"sent", "closing"}
           => pstate[p] \in {"WORKING", "RECOVERY"} /\ ka[p] = "poll"

\* _tmpNum is what wakes recovery, and it is set to zero at the end of a round
\* (coordinator.cc:413): outside of a round it is exactly the number of
\* reconnected participants, so that none of them is forgotten.
TempCounted ==
    recoveryMutex = "free" => tmpNum = Cardinality({p \in PId : pstate[p] = "TEMP"})

\* A participant that is sent requests has executed exactly the transactions
\* the coordinator counts: whatever was lost, late or restarted, nobody with
\* another number is given P_WORKING (coordinator.cc:406-411).
WorkingInSync ==
    workingMutex = "free" =>
        \A p \in PId : pstate[p] = "WORKING" /\ link[p] = "up" => ptxid[p] = txid

\* Whatever recovery asks of its own log is there and committed: the
\* assertion in getLogByTXID never fails, and no vote request is replayed.
LogComplete ==
    \A t \in TXID_START .. txid - 1 : clog[t] # None /\ clog[t].ID = t
                                                    /\ clog[t].state = "COMMIT"

\* When a round ends, nobody who is connected is left in P_RECOVERY, where
\* neither requests nor keepAlive would ever reach him again.
NoneLeftBehind ==
    rpc \in {"finish", "start", "wait"} => \A p \in PId : pstate[p] # "RECOVERY"

\* Replicas agree: no two logs hold different commands for a transaction both
\* count as committed (logger.hpp:19-28).
LogAgreement ==
    /\ \A p, q \in PId : \A t \in TXID_START .. MaxTxid :
          t < ptxid[p] /\ t < ptxid[q] => plog[p][t].event = plog[q][t].event
    /\ \A p \in PId : \A t \in TXID_START .. MaxTxid :
          t < ptxid[p] /\ t < txid => plog[p][t].event = clog[t].event

\* The coordinator never takes back a transaction while it runs: its number
\* only grows, and the log below it does not change.
CommittedStable ==
    [][\/ CrashCoordinator
       \/ /\ txid' >= txid
          /\ \A t \in TXID_START .. txid - 1 : clog'[t] = clog[t]]_vars

(***************************************************************************)
(* The store as its client sees it: the database after the transactions    *)
(* the coordinator has committed.                                          *)
(***************************************************************************)
committedDB[t \in TXID_START - 1 .. MaxTxid] ==
    IF t < TXID_START THEN EmptyDatabase
    ELSE eventParser(committedDB[t - 1], clog[t].event).db

Store == INSTANCE AtomicStore WITH
            latest  <- committedDB[txid - 1],
            serving <- (wpc # "accept"),
            request <- cmd,
            answer  <- reply

\* As long as answers are in time and the coordinator lives, the participants
\* may die and return as they like: together they are one atomic store. A GET
\* returns the latest committed value, an OK means committed, and an error
\* means that nothing happened.
ImplementsAtomicStore == Store!StoreSpec

-----------------------------------------------------------------------------
(***************************************************************************)
(* Fairness: every thread of the coordinator that can go on does so, and   *)
(* so does a participant that runs.  Clients need not come, nothing needs  *)
(* to crash, and what is dead need not be started again.  Mutexes are not  *)
(* assumed to be fair.                                                     *)
(***************************************************************************)
workStep == \/ Refuse \/ Admit \/ BadCommand
            \/ StartUpdate \/ CollectVotes \/ CollectCommits
            \/ StartRequest \/ RequestAnswered \/ RequestNext \/ RequestFails

Fairness ==
    /\ WF_vars(workStep)
    /\ WF_vars(recovery)
    /\ \A p \in PId : /\ WF_vars(keepAlive(p))
                      /\ WF_vars(pWorking(p))
                      /\ WF_vars(pRecovery(p))
                      /\ WF_vars(participant(p))

FairSpec == Spec /\ Fairness

NoMoreCrashes == <>[][\A p \in PId : ~crash(p)]_vars

\* Recovery is not kept out by a stream of clients, although they use the same
\* mutex: it announces itself in _cstate first (coordinator.cc:354-358), and
\* work turns clients away before it locks (coordinator.cc:202-205).
RecoveryNotStarved ==
    \A p \in PId : pstate[p] = "TEMP" ~> pstate[p] # "TEMP"

\* Once participants stop dying, every client is answered.
EveryClientAnswered == NoMoreCrashes => (wpc = "check" ~> wpc = "accept")

\* Once participants stop dying, everybody who runs and whose loss was noticed
\* is connected again, brought up to date and put to work.
EverybodyRejoins ==
    NoMoreCrashes =>
        \A p \in PId : pstate[p] = "WAITING" /\ link[p] # "down"
                         ~> pstate[p] = "WORKING" \/ link[p] = "down"
=============================================================================
