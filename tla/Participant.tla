----------------------------- MODULE Participant -----------------------------
(***************************************************************************)
(* The participants of the replicated store and the TCP connection each of *)
(* them has with the coordinator.                                          *)
(*                                                                         *)
(* A participant is one thread: it accepts one connection, then receives a *)
(* task, executes it and sends the reply until receiving fails, and then   *)
(* accepts again.  Its database, its log and its transaction number are in *)
(* memory only, so a process that dies starts again from nothing.  The     *)
(* coordinator sends the next task on a connection only after the reply to *)
(* the one before, so a connection carries at most one task or one reply.  *)
(***************************************************************************)
EXTENDS KVStore

CONSTANTS
    PNum,      \* number of participants
    MaxTxid,   \* bound: no update is accepted beyond this transaction number
    None       \* no task, no reply, no log entry

SUPER_TXID    == 0
RECOVERY_TXID == 1
ASK_DATA_TXID == 2
TXID_START    == 5

ASSUME PNumAssumption == PNum \in Nat \ {0}
ASSUME MaxTxidAssumption == MaxTxid \in Nat /\ MaxTxid >= TXID_START

PId == 1 .. PNum
Txid == TXID_START .. MaxTxid

VARIABLES
    ptxid,     \* ptxid[p]: the participant's _TXID
    plog,      \* plog[p]: its log, None where _l has no entry
    kv,        \* kv[p]: its database
    link,      \* link[p]: the connection, see LinkState
    req,       \* req[p]: the task on its way to p, or None
    resp       \* resp[p]: the reply on its way to the coordinator, or None

participantVars == <<ptxid, plog, kv, link, req, resp>>

(***************************************************************************)
(* "down": the process is not running; "listen": it waits in reaccept;     *)
(* "up": both ends are connected; "half": the coordinator's end is gone    *)
(* and the participant has yet to find out.                                *)
(***************************************************************************)
LinkState == {"down", "listen", "up", "half"}

(***************************************************************************)
(* A task is a Log record.  `asks' stands for the number that the event of *)
(* an ASK_DATA_TXID task spells, and is 0 in the other tasks.              *)
(***************************************************************************)
Log(id, state, event) == [ID |-> id, state |-> state, event |-> event, asks |-> 0]
AskLog(tid) == [ID |-> ASK_DATA_TXID, state |-> "COMMIT", event |-> <<>>, asks |-> tid]

LogState == {"PRE", "COMMIT"}
Task == [ID : {SUPER_TXID, RECOVERY_TXID, ASK_DATA_TXID} \cup Txid,
         state : LogState, event : Command \cup {<<>>}, asks : {0} \cup Txid]
LogEntry == {l \in Task : l.ID \in Txid}

TxidReply(t) == [kind |-> "TXID", txid |-> t]
LogReply(l)  == [kind |-> "LOG", log |-> l]
Reply == KVReply \cup {EmptyReply}
           \cup [kind : {"TXID"}, txid : (TXID_START - 1) .. MaxTxid]
           \cup [kind : {"LOG"}, log : LogEntry]

ASSUME NoneAssumption == None \notin Task /\ None \notin Reply

(***************************************************************************)
(* pWorker: what p does with the task l.  Commands run on the database     *)
(* when a task is a client's read or commits the transaction p waits for.  *)
(***************************************************************************)
commits(p, l) == l.ID = ptxid[p] /\ l.state = "COMMIT"

workerReply(p, l) ==
    CASE l.ID = SUPER_TXID    -> eventParser(kv[p], l.event).reply
      [] l.ID = RECOVERY_TXID -> TxidReply(ptxid[p] - 1)
      [] l.ID = ASK_DATA_TXID -> IF l.asks >= ptxid[p] THEN EmptyReply
                                 ELSE LogReply(plog[p][l.asks])
      [] l.ID = ptxid[p] /\ l.state = "PRE" -> PreReply
      [] commits(p, l)        -> eventParser(kv[p], l.event).reply
      [] OTHER                -> ErrorReply

logsTask(p, l) == commits(p, l) /\ eventParser(kv[p], l.event).reply # ErrorReply

ParticipantInit ==
    /\ ptxid = [p \in PId |-> TXID_START]
    /\ plog = [p \in PId |-> [t \in Txid |-> None]]
    /\ kv = [p \in PId |-> EmptyDatabase]
    /\ link = [p \in PId |-> "listen"]
    /\ req = [p \in PId |-> None]
    /\ resp = [p \in PId |-> None]

\* Working: receive a task, execute it, send the reply.  The task may still
\* come out of the socket when the coordinator's end is gone; then the reply
\* is lost and the failure of send is ignored.
PWorking(p) ==
    /\ link[p] \in {"up", "half"}
    /\ req[p] # None
    /\ LET l == req[p] IN
         /\ kv' = IF l.ID = SUPER_TXID \/ commits(p, l)
                  THEN [kv EXCEPT ![p] = eventParser(kv[p], l.event).db]
                  ELSE kv
         /\ IF logsTask(p, l)
            THEN /\ plog' = [plog EXCEPT ![p][l.ID] = l]
                 /\ ptxid' = [ptxid EXCEPT ![p] = @ + 1]
            ELSE UNCHANGED <<plog, ptxid>>
         /\ resp' = [resp EXCEPT ![p] = IF link[p] = "up" THEN workerReply(p, l)
                                        ELSE None]
    /\ req' = [req EXCEPT ![p] = None]
    /\ UNCHANGED link

\* Receiving fails: back to keepAlive, which closes the socket and accepts
\* again.  A task still in the socket is discarded when the connection was
\* reset or the task was cut short.
PKeepAlive(p) ==
    /\ link[p] = "half"
    /\ link' = [link EXCEPT ![p] = "listen"]
    /\ req' = [req EXCEPT ![p] = None]
    /\ UNCHANGED <<ptxid, plog, kv, resp>>

\* The process dies, and nothing of its state survives; a reply already
\* sent is still in the network ...
PCrash(p) ==
    /\ link[p] # "down"
    /\ ptxid' = [ptxid EXCEPT ![p] = TXID_START]
    /\ plog' = [plog EXCEPT ![p] = [t \in Txid |-> None]]
    /\ kv' = [kv EXCEPT ![p] = EmptyDatabase]
    /\ link' = [link EXCEPT ![p] = "down"]
    /\ req' = [req EXCEPT ![p] = None]
    /\ UNCHANGED resp

\* ... and it is started again by hand.
PRestart(p) ==
    /\ link[p] = "down"
    /\ link' = [link EXCEPT ![p] = "listen"]
    /\ UNCHANGED <<ptxid, plog, kv, req, resp>>

\* What the coordinator's end of the connection does to p.
Deliver(p, task) ==
    /\ req' = [req EXCEPT ![p] = task]
    /\ UNCHANGED <<ptxid, plog, kv, link, resp>>

TakeReply(p) ==
    /\ resp' = [resp EXCEPT ![p] = None]
    /\ UNCHANGED <<ptxid, plog, kv, link, req>>

CloseLink(p) ==
    /\ link' = [link EXCEPT ![p] = IF @ = "up" THEN "half" ELSE @]
    /\ resp' = [resp EXCEPT ![p] = None]
    /\ UNCHANGED <<ptxid, plog, kv, req>>

Connect(p) ==
    /\ link[p] = "listen"
    /\ link' = [link EXCEPT ![p] = "up"]
    /\ UNCHANGED <<ptxid, plog, kv, req, resp>>
=============================================================================
