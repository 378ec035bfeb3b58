-------------------------- MODULE AgreementInvariant --------------------------
(***************************************************************************)
(* What LogAgreement rests on while answers are in time and the            *)
(* coordinator lives, however often participants die: nobody is ever ahead *)
(* of the coordinator, so no round has a leader, and whoever is lost       *)
(* returns with nothing.                                                   *)
(***************************************************************************)
EXTENDS SyncInvariant

\* The coordinator's end of a connection is closed only when the participant is
\* already dead, so whoever is not connected is new.
Fresh(p) ==
    /\ link[p] # "half"
    /\ link[p] # "up" => ptxid[p] = TXID_START
    /\ pstate[p] \in {"WAITING", "TEMP"} => ptxid[p] = TXID_START

\* Nobody in the table, or about to enter it, is ahead of the coordinator.
NotAhead(p) ==
    /\ maxTxidTB[p] < txid
    /\ rpc = "query" /\ rslot[p].phase = "sent" /\ resp[p] # None =>
         resp[p].txid < txid
    /\ rpc = "query" /\ rslot[p].phase = "done" /\ rslot[p].ret = "OK" =>
         rslot[p].data.txid < txid

\* The one exception: the transaction that work is collecting the commits of.
justCommitted(p) ==
    /\ pstate[p] = "WORKING" /\ executed(p)
    /\ ptxid[p] = txid + 1 /\ plog[p][txid].event = cmd

Agrees(p) ==
    /\ \A t \in Txid : t < ptxid[p] /\ t < txid => plog[p][t].event = clog[t].event
    /\ ptxid[p] > txid => justCommitted(p)

PAgree(p) == Fresh(p) /\ NotAhead(p) /\ Agrees(p)

AgreeInv == rpc \notin {"ask", "push"} /\ \A p \in PId : PAgree(p)

(***************************************************************************)
(* What ImplementsAtomicStore rests on besides: the database of everybody  *)
(* is what the transactions he has executed make of an empty one, and what *)
(* he answers is what the store as its client sees it would.               *)
(***************************************************************************)
run == eventParser(committedDB[txid - 1], cmd)

KvSync(p) == kv[p] = IF ptxid[p] <= txid THEN committedDB[ptxid[p] - 1] ELSE run.db

AnswerSync(p) ==
    wpc \in {"commits", "get"} =>
        /\ wslot[p].phase = "sent" /\ resp[p] # None => resp[p] = run.reply
        /\ wslot[p].phase = "done" /\ wslot[p].ret = "OK" => wslot[p].data = run.reply

StoreInv == /\ wpc = "get" => isRequest(cmd)
            /\ \A p \in PId : KvSync(p) /\ AnswerSync(p)
=============================================================================
