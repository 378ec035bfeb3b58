---------------------------- MODULE AckedHistory -----------------------------
(***************************************************************************)
(* Coordinator with a history variable that outlives the coordinator: the  *)
(* highest transaction number for which a client was told that its update  *)
(* is done.                                                                *)
(***************************************************************************)
EXTENDS MCCoordinator

VARIABLE acked

HistoryInit == Init /\ acked = TXID_START - 1

HistoryNext ==
    /\ Next
    /\ acked' = IF wpc = "commits" /\ txid' = txid + 1 /\ txid > acked
                THEN txid ELSE acked

HistorySpec == HistoryInit /\ [][HistoryNext]_<<vars, acked>>

\* A read after a restart of the coordinator returns what was written before
\* (test_item3 of lab3_testing.sh, lines 758-764): when a GET is answered, the
\* coordinator counts every acknowledged update that a running participant
\* still holds.
AckedReadBack ==
    wpc = "get" /\ wslot[asked].phase = "done" /\ answered(asked) =>
        \A p \in PId : link[p] # "down" /\ ptxid[p] > acked => txid > acked
=============================================================================
