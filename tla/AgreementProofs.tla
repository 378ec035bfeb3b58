--------------------------- MODULE AgreementProofs ----------------------------
(***************************************************************************)
(* Who works is at the coordinator's transaction, nobody is left behind by *)
(* a recovery, and nobody who waits for one is forgotten.  And the replicas*)
(* agree as long as answers are in time and the coordinator lives:         *)
(* participants may die and return at any point.                           *)
(***************************************************************************)
EXTENDS CoordinatorProofs, SyncInvariant, AgreementInvariant, FiniteSetTheorems,
        WellFoundedInduction

USE PNumAssumption, MaxTxidAssumption DEF PId, Txid, TXID_START

-----------------------------------------------------------------------------
(***************************************************************************)
(* Whether a command can be executed does not depend on the database.      *)
(***************************************************************************)
LEMMA Execution ==
  ASSUME NEW db, NEW c
  PROVE  eventParser(db, c).reply # ErrorReply <=> WellFormed(c)
BY DEF eventParser, WellFormed, ErrorReply, OkReply, PreReply, CountReply, ValueReply

LEMMA ExecutableEntry ==
  ASSUME NEW t \in Txid, NEW l \in Executable(t)
  PROVE  /\ l \in CommittedEntry(t) /\ l \in LogEntry /\ l \in Task
         /\ l.ID = t /\ l.state = "COMMIT" /\ WellFormed(l.event)
BY TaskType DEF Executable, CommittedEntry

-----------------------------------------------------------------------------
(***************************************************************************)
(* What a step leaves alone.                                               *)
(***************************************************************************)
LEMMA OtherSync ==
  ASSUME NEW q \in PId, PSync(q), SameParticipant(q),
         rpc = "elect" => maxTxidTB' = maxTxidTB,
         UNCHANGED <<workVars, recoveryVars, txid, clog>>
  PROVE  PSync(q)'
<1> USE DEF workVars, recoveryVars, SameParticipant
<1>1. ValidLog(q)' BY DEF PSync, ValidLog, Executable, CommittedEntry
<1>2. SlotSync(q)' BY DEF PSync, SlotSync
<1>3. CommitSync(q)' BY DEF PSync, CommitSync
<1>4. LeaderSync(q)' BY DEF PSync, LeaderSync, Executable, CommittedEntry
<1>5. WorkSync(q)'
  <2>1. rpc = "elect" => ahead' = ahead
    BY DEF ahead
  <2> QED BY <2>1 DEF PSync, WorkSync, WorkNumber, executed
<1>6. TableSync(q)' BY DEF PSync, TableSync, TableNumber, InRound
<1>7. RecoverySync(q)' BY DEF PSync, RecoverySync, fedUpTo, InRound
<1> QED BY <1>1, <1>2, <1>3, <1>4, <1>5, <1>6, <1>7 DEF PSync

\* The count changes only with those who are reconnected.
LEMMA SameCount ==
  ASSUME Counted, rpc' = rpc, tmpNum' = tmpNum,
         \A q \in PId : pstate'[q] = "TEMP" <=> pstate[q] = "TEMP"
  PROVE  Counted'
<1>1. {q \in PId : pstate'[q] = "TEMP"} = {q \in PId : pstate[q] = "TEMP"}
  OBVIOUS
<1> QED BY <1>1 DEF Counted, InRound

LEMMA LocalSync ==
  ASSUME SyncInv, NEW p \in PId, PSync(p)', Counted',
         \A q \in PId : q # p => SameParticipant(q),
         rpc = "elect" => maxTxidTB' = maxTxidTB,
         UNCHANGED <<workVars, recoveryVars, lockVars, txid, clog>>
  PROVE  SyncInv'
<1> USE DEF workVars, recoveryVars, lockVars
<1>1. ValidCoordinatorLog'
  BY DEF SyncInv, ValidCoordinatorLog, Executable, CommittedEntry
<1>2. Distribution'
  BY DEF SyncInv, Distribution, Executable, CommittedEntry
<1>3. \A q \in PId : PSync(q)'
  BY OtherSync DEF SyncInv
<1> QED BY <1>1, <1>2, <1>3 DEF SyncInv

LEMMA OnePart ==
  ASSUME IInv, SyncInv, NEW p \in PId
  PROVE  /\ PInv(p) /\ PSync(p) /\ Counted
         /\ wslot[p].phase = "idle" \/ rslot[p].phase = "idle"
         /\ ptxid[p] \in TXID_START .. MaxTxid + 1 /\ txid \in TXID_START .. MaxTxid + 1
         /\ maxTxidTB[p] \in 0 .. MaxTxid /\ maxID \in 0 .. MaxTxid
         /\ fed \in PId /\ tid \in Txid
BY OneSlotInUse DEF IInv, PInv, SyncInv, TypeOK, ParticipantTypeOK

-----------------------------------------------------------------------------
(***************************************************************************)
(* keepAlive                                                               *)
(***************************************************************************)
\* Who is reconnected is in none of the tables.
LEMMA ReconnectSync ==
  ASSUME IInv, SyncInv, NEW p \in PId, Reconnect(p)
  PROVE  SyncInv'
<1> USE DEF Reconnect, Connect, workVars, recoveryVars, lockVars, stateVars
<1>1. /\ pstate[p] = "WAITING" /\ link'[p] = "up" /\ ptxid' = ptxid /\ plog' = plog
      /\ resp' = resp /\ wslot' = wslot /\ rslot' = rslot
  BY DEF IInv, TypeOK, ParticipantTypeOK
<1>2. /\ wslot[p].phase \notin {"sent", "closing"} /\ rslot[p].phase \notin {"sent", "closing"}
      /\ rpc = "query" => ~(rslot[p].phase = "done" /\ rslot[p].ret = "OK")
      /\ rpc \in InRound => maxTxidTB[p] = 0
  BY <1>1, OnePart DEF PInv, ActiveState, Table
<1>3. PSync(p)'
  <2>1. ValidLog(p)' BY <1>1, OnePart DEF PSync, ValidLog, Executable, CommittedEntry
  <2>2. SlotSync(p)' BY <1>1, <1>2, OnePart DEF PSync, SlotSync
  <2>3. CommitSync(p)' BY <1>1, <1>2, OnePart DEF PSync, CommitSync
  <2>4. LeaderSync(p)' BY <1>1, <1>2, OnePart DEF PSync, LeaderSync, Executable, CommittedEntry
  <2>5. WorkSync(p)' BY <1>1 DEF WorkSync
  <2>6. TableSync(p)' BY <1>1, <1>2, OnePart DEF PSync, TableSync, InRound
  <2>7. RecoverySync(p)' BY <1>1 DEF RecoverySync
  <2> QED BY <2>1, <2>2, <2>3, <2>4, <2>5, <2>6, <2>7 DEF PSync
<1>4. Counted'
  BY SameCount, OnePart
<1>5. \A q \in PId : q # p => SameParticipant(q)
  BY DEF IInv, TypeOK, ParticipantTypeOK, SameParticipant
<1> QED BY <1>3, <1>4, <1>5, LocalSync

\* There are one more, and the count says so.
LEMMA MarkTempSync ==
  ASSUME IInv, SyncInv, NEW p \in PId, MarkTemp(p)
  PROVE  SyncInv'
<1> USE DEF MarkTemp, participantVars, workVars, recoveryVars, lockVars
<1>1. /\ pstate[p] = "WAITING" /\ pstate'[p] = "TEMP" /\ rpc \notin InRound
      /\ wslot' = wslot /\ rslot' = rslot /\ maxTxidTB' = maxTxidTB
  BY OnePart DEF IInv, TypeOK, PInv, ActiveState, Locks
<1>2. PSync(p)'
  <2>1. ValidLog(p)' BY <1>1, OnePart DEF PSync, ValidLog, Executable, CommittedEntry
  <2>2. SlotSync(p)' BY <1>1, OnePart DEF PSync, SlotSync
  <2>3. CommitSync(p)' BY <1>1, OnePart DEF PSync, CommitSync
  <2>4. LeaderSync(p)' BY <1>1, OnePart DEF PSync, LeaderSync, Executable, CommittedEntry
  <2>5. WorkSync(p)' BY <1>1 DEF WorkSync
  <2>6. TableSync(p)' BY <1>1, OnePart DEF PSync, TableSync, TableNumber, InRound
  <2>7. RecoverySync(p)' BY <1>1 DEF RecoverySync
  <2> QED BY <2>1, <2>2, <2>3, <2>4, <2>5, <2>6, <2>7 DEF PSync
<1>3. Counted'
  <2> DEFINE T == {q \in PId : pstate[q] = "TEMP"}
  <2>1. IsFiniteSet(PId) /\ T \in SUBSET PId
    BY FS_Interval
  <2>2. IsFiniteSet(T)
    BY <2>1, FS_Subset
  <2>3. {q \in PId : pstate'[q] = "TEMP"} = T \cup {p} /\ p \notin T
    BY <1>1 DEF IInv, TypeOK
  <2>4. Cardinality(T \cup {p}) = Cardinality(T) + 1
    BY <2>2, <2>3, FS_AddElement
  <2>5. tmpNum = Cardinality(T)
    BY <1>1, OnePart DEF Counted
  <2> QED BY <1>1, <2>3, <2>4, <2>5 DEF Counted
<1>4. \A q \in PId : q # p => SameParticipant(q)
  BY DEF IInv, TypeOK, ParticipantTypeOK, SameParticipant
<1> QED BY <1>1, <1>2, <1>3, <1>4, LocalSync

-----------------------------------------------------------------------------
(***************************************************************************)
(* pWorking                                                                *)
(***************************************************************************)
LEMMA PWSkipSync ==
  ASSUME IInv, SyncInv, NEW p \in PId, PWSkip(p)
  PROVE  SyncInv'
<1> USE DEF PWSkip, pwUnchanged, participantVars, workVars, recoveryVars, lockVars
<1>1. /\ wslot[p].phase = "posted" /\ wslot'[p].phase = "done" /\ wslot'[p].ret = "SKIP"
      /\ pstate[p] # "WORKING" /\ pstate' = pstate /\ rslot[p].phase = "idle"
  <2>1. DoneSlot("SKIP", None).phase = "done" /\ DoneSlot("SKIP", None).ret = "SKIP"
    BY DoneSlotType DEF Ret
  <2> QED BY <2>1, OnePart DEF IInv, TypeOK
<1>2. PSync(p)'
  <2>1. ValidLog(p)' BY <1>1, OnePart DEF PSync, ValidLog, Executable, CommittedEntry
  <2>2. SlotSync(p)' BY <1>1, OnePart DEF PSync, SlotSync
  <2>3. CommitSync(p)' BY <1>1, OnePart DEF PSync, CommitSync
  <2>4. LeaderSync(p)' BY <1>1, OnePart DEF PSync, LeaderSync, Executable, CommittedEntry
  <2>5. WorkSync(p)' BY <1>1 DEF WorkSync
  <2>6. TableSync(p)' BY <1>1, OnePart DEF PSync, TableSync, TableNumber, InRound
  <2>7. RecoverySync(p)' BY <1>1, OnePart DEF PSync, RecoverySync, fedUpTo, InRound
  <2> QED BY <2>1, <2>2, <2>3, <2>4, <2>5, <2>6, <2>7 DEF PSync
<1>3. Counted'
  BY SameCount, OnePart
<1>4. \A q \in PId : q # p => SameParticipant(q)
  BY DEF IInv, TypeOK, ParticipantTypeOK, SameParticipant
<1> QED BY <1>2, <1>3, <1>4, LocalSync

LEMMA PWSendSync ==
  ASSUME IInv, SyncInv, NEW p \in PId, PWSend(p)
  PROVE  SyncInv'
<1> USE DEF PWSend, Deliver, SendFails, pwUnchanged, workVars, recoveryVars, lockVars
<1>1. /\ wslot[p].phase = "posted" /\ wslot'[p].phase = "sent" /\ wslot'[p].ret = wslot[p].ret
      /\ pstate' = pstate /\ rslot[p].phase = "idle" /\ req'[p] = wslot[p].task
      /\ resp[p] = None /\ wslot[p].task # None
  <2>1. wslot[p].phase = "posted" /\ rslot[p].phase = "idle"
    BY OnePart
  <2>2. resp[p] = None /\ wslot[p].task \in Task
    BY <2>1, OnePart DEF PInv, Channel, WorkTask
  <2>3. wslot'[p] = [wslot[p] EXCEPT !.phase = "sent"] /\ wslot[p] \in Slot
    BY DEF IInv, TypeOK
  <2>4. req'[p] = wslot[p].task
    BY DEF IInv, TypeOK, ParticipantTypeOK
  <2> QED BY <2>1, <2>2, <2>3, <2>4, NoneAssumption DEF Slot
<1>2. PSync(p)'
  <2>1. ValidLog(p)' BY <1>1, OnePart DEF PSync, ValidLog, Executable, CommittedEntry
  <2>2. SlotSync(p)' BY <1>1, OnePart DEF PSync, SlotSync
  <2>3. CommitSync(p)' BY <1>1, OnePart DEF PSync, CommitSync
  <2>4. LeaderSync(p)' BY <1>1, OnePart DEF PSync, LeaderSync, Executable, CommittedEntry
  <2>5. WorkSync(p)'
    BY <1>1, OnePart DEF PSync, WorkSync, WorkNumber, executed, ahead
  <2>6. TableSync(p)' BY <1>1, OnePart DEF PSync, TableSync, TableNumber, InRound
  <2>7. RecoverySync(p)' BY <1>1, OnePart DEF PSync, RecoverySync, fedUpTo, InRound
  <2> QED BY <2>1, <2>2, <2>3, <2>4, <2>5, <2>6, <2>7 DEF PSync
<1>3. Counted'
  BY SameCount, OnePart
<1>4. \A q \in PId : q # p => SameParticipant(q)
  BY DEF IInv, TypeOK, ParticipantTypeOK, SameParticipant
<1> QED BY <1>2, <1>3, <1>4, LocalSync

LEMMA PWReceiveSync ==
  ASSUME IInv, SyncInv, NEW p \in PId, PWReceive(p)
  PROVE  SyncInv'
<1> USE DEF PWReceive, TakeReply, pwUnchanged, workVars, recoveryVars, lockVars
<1>1. /\ wslot[p].phase = "sent" /\ resp[p] # None /\ resp[p] \in Reply
      /\ wslot'[p].phase = "done" /\ wslot'[p].ret = "OK" /\ wslot'[p].data = resp[p]
      /\ pstate' = pstate /\ rslot[p].phase = "idle" /\ resp'[p] = None
  <2>1. resp[p] \in Reply
    BY DEF IInv, TypeOK, ParticipantTypeOK
  <2>2. /\ DoneSlot("OK", resp[p]).phase = "done" /\ DoneSlot("OK", resp[p]).ret = "OK"
        /\ DoneSlot("OK", resp[p]).data = resp[p]
    BY <2>1, DoneSlotType DEF Ret
  <2> QED BY <2>1, <2>2, OnePart DEF IInv, TypeOK, ParticipantTypeOK
<1>2. PSync(p)'
  <2>1. ValidLog(p)' BY <1>1, OnePart DEF PSync, ValidLog, Executable, CommittedEntry
  <2>2. SlotSync(p)' BY <1>1, OnePart DEF PSync, SlotSync
  <2>3. CommitSync(p)' BY <1>1, OnePart DEF PSync, CommitSync
  <2>4. LeaderSync(p)' BY <1>1, OnePart DEF PSync, LeaderSync, Executable, CommittedEntry
  <2>5. WorkSync(p)'
    BY <1>1, OnePart DEF PSync, WorkSync, WorkNumber, executed, ahead
  <2>6. TableSync(p)' BY <1>1, OnePart DEF PSync, TableSync, TableNumber, InRound
  <2>7. RecoverySync(p)' BY <1>1, OnePart DEF PSync, RecoverySync, fedUpTo, InRound
  <2> QED BY <2>1, <2>2, <2>3, <2>4, <2>5, <2>6, <2>7 DEF PSync
<1>3. Counted'
  BY SameCount, OnePart
<1>4. \A q \in PId : q # p => SameParticipant(q)
  BY DEF IInv, TypeOK, ParticipantTypeOK, SameParticipant
<1> QED BY <1>2, <1>3, <1>4, LocalSync

LEMMA PWFailSync ==
  ASSUME IInv, SyncInv, NEW p \in PId, PWFail(p)
  PROVE  SyncInv'
<1> USE DEF PWFail, CloseLink, pwUnchanged, workVars, recoveryVars, lockVars
<1>1. /\ wslot[p].phase \in {"posted", "sent"} /\ wslot'[p].phase = "closing"
      /\ pstate' = pstate /\ rslot[p].phase = "idle" /\ link'[p] # "up" /\ resp'[p] = None
  BY OnePart DEF IInv, TypeOK, ParticipantTypeOK, IdleSlot
<1>2. PSync(p)'
  <2>1. ValidLog(p)' BY <1>1, OnePart DEF PSync, ValidLog, Executable, CommittedEntry
  <2>2. SlotSync(p)' BY <1>1, OnePart DEF PSync, SlotSync
  <2>3. CommitSync(p)' BY <1>1, OnePart DEF PSync, CommitSync
  <2>4. LeaderSync(p)' BY <1>1, OnePart DEF PSync, LeaderSync, Executable, CommittedEntry
  <2>5. WorkSync(p)' BY <1>1 DEF WorkSync
  <2>6. TableSync(p)' BY <1>1, OnePart DEF PSync, TableSync, TableNumber, InRound
  <2>7. RecoverySync(p)' BY <1>1, OnePart DEF PSync, RecoverySync, fedUpTo, InRound
  <2> QED BY <2>1, <2>2, <2>3, <2>4, <2>5, <2>6, <2>7 DEF PSync
<1>3. Counted'
  BY SameCount, OnePart
<1>4. \A q \in PId : q # p => SameParticipant(q)
  BY DEF IInv, TypeOK, ParticipantTypeOK, SameParticipant
<1> QED BY <1>2, <1>3, <1>4, LocalSync

LEMMA PWGiveUpSync ==
  ASSUME IInv, SyncInv, NEW p \in PId, PWGiveUp(p)
  PROVE  SyncInv'
<1> USE DEF PWGiveUp, participantVars, pwUnchanged, workVars, recoveryVars, lockVars
<1>1. /\ wslot[p].phase = "closing" /\ wslot'[p].phase = "done" /\ wslot'[p].ret = "FAIL"
      /\ pstate[p] = "WORKING" /\ pstate'[p] = "WAITING" /\ rslot[p].phase = "idle"
  <2>1. DoneSlot("FAIL", None).phase = "done" /\ DoneSlot("FAIL", None).ret = "FAIL"
    BY DoneSlotType DEF Ret
  <2> QED BY <2>1, OnePart DEF IInv, TypeOK, PInv, ActiveState
<1>2. PSync(p)'
  <2>1. ValidLog(p)' BY <1>1, OnePart DEF PSync, ValidLog, Executable, CommittedEntry
  <2>2. SlotSync(p)' BY <1>1, OnePart DEF PSync, SlotSync
  <2>3. CommitSync(p)' BY <1>1, OnePart DEF PSync, CommitSync
  <2>4. LeaderSync(p)' BY <1>1, OnePart DEF PSync, LeaderSync, Executable, CommittedEntry
  <2>5. WorkSync(p)' BY <1>1 DEF WorkSync
  <2>6. TableSync(p)' BY <1>1, OnePart DEF PSync, TableSync, TableNumber, InRound
  <2>7. RecoverySync(p)' BY <1>1 DEF RecoverySync
  <2> QED BY <2>1, <2>2, <2>3, <2>4, <2>5, <2>6, <2>7 DEF PSync
<1>3. Counted'
  BY <1>1, SameCount, OnePart DEF IInv, TypeOK
<1>4. \A q \in PId : q # p => SameParticipant(q)
  BY DEF IInv, TypeOK, ParticipantTypeOK, SameParticipant
<1> QED BY <1>2, <1>3, <1>4, LocalSync

-----------------------------------------------------------------------------
(***************************************************************************)
(* pRecovery                                                               *)
(***************************************************************************)
\* What recovery pushes can be executed, and is the next thing to execute for
\* whoever it is sent to.
LEMMA PushedTask ==
  ASSUME IInv, SyncInv, NEW p \in PId, rslot[p].phase \in {"posted", "sent"}
  PROVE  /\ rpc \in {"query", "push", "replay"} /\ rpc \in InRound
         /\ rpc \in {"push", "replay"} => p = fed
         /\ rpc = "query" => rslot[p].task.ID = RECOVERY_TXID
         /\ rpc = "push" => rslot[p].task \in Executable(minID) /\ minID \in Txid /\ minID <= maxID
         /\ rpc = "replay" => rslot[p].task \in Executable(tid) /\ tid < txid
         /\ rpc \in {"push", "replay"} /\ rslot[p].phase = "sent" =>
              rslot[p].task.ID = maxTxidTB[p] + 1
<1>1. PInv(p) /\ SlotSync(p)
  BY OnePart DEF PSync
<1>2. rpc = "query" => rslot[p].task.ID = RECOVERY_TXID
  BY <1>1 DEF PInv, RecoveryTask, Log
<1>3. rpc = "push" => rslot[p].task \in Executable(minID) /\ minID \in Txid /\ minID <= maxID
  BY <1>1 DEF SlotSync, SyncInv, Distribution, IInv, Progress, TypeOK
<1>4. rpc = "replay" => rslot[p].task \in Executable(tid) /\ tid < txid
  BY <1>1 DEF SlotSync, SyncInv, ValidCoordinatorLog, IInv, Progress, TypeOK
<1> QED BY <1>1, <1>2, <1>3, <1>4 DEF PInv, SlotUse, RecoveryTask, InRound

LEMMA PRSkipSync ==
  ASSUME IInv, SyncInv, NEW p \in PId, PRSkip(p)
  PROVE  SyncInv'
<1> USE DEF PRSkip, prUnchanged, participantVars, workVars, recoveryVars, lockVars
<1>1. /\ rslot[p].phase = "posted" /\ rslot'[p].phase = "done" /\ rslot'[p].ret = "SKIP"
      /\ pstate' = pstate /\ wslot[p].phase = "idle" /\ maxTxidTB' = maxTxidTB
  <2>1. DoneSlot("SKIP", None).phase = "done" /\ DoneSlot("SKIP", None).ret = "SKIP"
    BY DoneSlotType DEF Ret
  <2> QED BY <2>1, OnePart DEF IInv, TypeOK
<1>2. PSync(p)'
  <2>1. ValidLog(p)'
    BY <1>1, OnePart DEF PSync, ValidLog, Executable, CommittedEntry
  <2>2. SlotSync(p)' BY <1>1, OnePart DEF PSync, SlotSync
  <2>3. CommitSync(p)' BY <1>1, OnePart DEF PSync, CommitSync
  <2>4. LeaderSync(p)'
    BY <1>1, OnePart DEF PSync, LeaderSync, Executable, CommittedEntry
  <2>5. WorkSync(p)'
    BY <1>1, OnePart DEF PSync, WorkSync, WorkNumber, executed, ahead
  <2>6. TableSync(p)' BY <1>1, OnePart DEF PSync, TableSync, TableNumber, InRound
  <2>7. RecoverySync(p)'
    <3>1. SUFFICES ASSUME pstate[p] = "RECOVERY"
                   PROVE  RecoverySync(p)'
      BY <1>1 DEF RecoverySync
    <3>2. ~inSequence(p) /\ rpc \in {"query", "push", "replay"}
      BY <3>1, PushedTask
    <3>3. rpc # "query"
      BY <1>1, <3>2, PushedTask DEF inSequence, RECOVERY_TXID
    <3>4. rpc = "replay" => maxTxidTB[p] # tid - 1 /\ p = fed
      BY <1>1, <3>2, PushedTask, ExecutableEntry, OnePart DEF inSequence
    <3> QED BY <1>1, <3>1, <3>2, <3>3, <3>4, OnePart DEF PSync, RecoverySync, fedUpTo, InRound
  <2> QED BY <2>1, <2>2, <2>3, <2>4, <2>5, <2>6, <2>7 DEF PSync
<1>3. Counted'
  BY SameCount, OnePart
<1>4. \A q \in PId : q # p => SameParticipant(q)
  BY DEF IInv, TypeOK, ParticipantTypeOK, SameParticipant
<1> QED BY <1>2, <1>3, <1>4, LocalSync

LEMMA PRSendSync ==
  ASSUME IInv, SyncInv, NEW p \in PId, PRSend(p)
  PROVE  SyncInv'
<1> USE DEF PRSend, Deliver, SendFails, prUnchanged, workVars, recoveryVars, lockVars
<1>1. /\ rslot[p].phase = "posted" /\ rslot'[p].phase = "sent" /\ rslot'[p].ret = rslot[p].ret
      /\ rslot'[p].task = rslot[p].task
      /\ pstate' = pstate /\ wslot[p].phase = "idle" /\ maxTxidTB' = maxTxidTB
      /\ req'[p] = rslot[p].task /\ resp[p] = None /\ rslot[p].task # None
  <2>1. rslot[p].phase = "posted" /\ wslot[p].phase = "idle"
    BY OnePart
  <2>2. resp[p] = None /\ rslot[p].task \in Task
    BY <2>1, OnePart DEF PInv, Channel, RecoveryTask
  <2>3. rslot'[p] = [rslot[p] EXCEPT !.phase = "sent"] /\ rslot[p] \in Slot
    BY DEF IInv, TypeOK
  <2>4. req'[p] = rslot[p].task
    BY DEF IInv, TypeOK, ParticipantTypeOK
  <2> QED BY <2>1, <2>2, <2>3, <2>4, NoneAssumption DEF Slot
<1>2. PSync(p)'
  <2>1. ValidLog(p)'
    BY <1>1, OnePart DEF PSync, ValidLog, Executable, CommittedEntry
  <2>2. SlotSync(p)' BY <1>1, OnePart DEF PSync, SlotSync
  <2>3. CommitSync(p)' BY <1>1, OnePart DEF PSync, CommitSync
  <2>4. LeaderSync(p)'
    BY <1>1, OnePart DEF PSync, LeaderSync, Executable, CommittedEntry
  <2>5. WorkSync(p)'
    BY <1>1, OnePart DEF PSync, WorkSync, WorkNumber, executed, ahead
  <2>6. TableSync(p)' BY <1>1, OnePart DEF PSync, TableSync, TableNumber, InRound
  <2>7. RecoverySync(p)' BY <1>1, OnePart DEF PSync, RecoverySync, fedUpTo, InRound
  <2> QED BY <2>1, <2>2, <2>3, <2>4, <2>5, <2>6, <2>7 DEF PSync
<1>3. Counted'
  BY SameCount, OnePart
<1>4. \A q \in PId : q # p => SameParticipant(q)
  BY DEF IInv, TypeOK, ParticipantTypeOK, SameParticipant
<1> QED BY <1>1, <1>2, <1>3, <1>4, LocalSync

\* An answer to a log entry means that it was executed.
LEMMA PRReceiveSync ==
  ASSUME IInv, SyncInv, NEW p \in PId, PRReceive(p)
  PROVE  SyncInv'
<1> USE DEF PRReceive, TakeReply, prUnchanged, workVars, recoveryVars, lockVars
<1>1. /\ rslot[p].phase = "sent" /\ resp[p] # None /\ resp[p] \in Reply
      /\ rslot'[p].phase = "done" /\ rslot'[p].ret = "OK" /\ rslot'[p].data = resp[p]
      /\ pstate' = pstate /\ wslot[p].phase = "idle" /\ resp'[p] = None
      /\ pstate[p] = "RECOVERY"
  <2>1. resp[p] \in Reply
    BY DEF IInv, TypeOK, ParticipantTypeOK
  <2>2. /\ DoneSlot("OK", resp[p]).phase = "done" /\ DoneSlot("OK", resp[p]).ret = "OK"
        /\ DoneSlot("OK", resp[p]).data = resp[p]
    BY <2>1, DoneSlotType DEF Ret
  <2> QED BY <2>1, <2>2, OnePart DEF IInv, TypeOK, ParticipantTypeOK, PInv, ActiveState
<1>5. /\ rpc \in {"push", "replay"} => maxTxidTB'[p] = maxTxidTB[p] + 1
      /\ rpc = "push" => maxTxidTB[p] + 1 <= maxID
      /\ rpc = "replay" => maxTxidTB[p] + 1 = tid /\ tid < txid /\ p = fed
      /\ rpc \in {"query", "push", "replay"}
  <2>1. rpc \in {"push", "replay"} => resp[p] # ErrorReply
    BY <1>1, OnePart DEF PSync, TableSync
  <2>2. maxTxidTB \in [PId -> 0 .. MaxTxid]
    BY DEF IInv, TypeOK
  <2>3. rpc = "push" => rslot[p].task.ID = minID /\ minID <= maxID
    BY <1>1, PushedTask, ExecutableEntry
  <2>4. rpc = "replay" => rslot[p].task.ID = tid /\ tid < txid /\ p = fed
    BY <1>1, PushedTask, ExecutableEntry, OnePart
  <2>5. rpc \in {"push", "replay"} => rslot[p].task.ID = maxTxidTB[p] + 1
    BY <1>1, PushedTask
  <2>6. rpc \in {"query", "push", "replay"}
    BY <1>1, PushedTask
  <2>7. rpc \in {"push", "replay"} => maxTxidTB'[p] = maxTxidTB[p] + 1
    BY <2>1, <2>2
  <2> QED BY <2>3, <2>4, <2>5, <2>6, <2>7
<1>2. PSync(p)'
  <2>1. ValidLog(p)'
    BY <1>1, OnePart DEF PSync, ValidLog, Executable, CommittedEntry
  <2>2. SlotSync(p)' BY <1>1, OnePart DEF PSync, SlotSync
  <2>3. CommitSync(p)' BY <1>1, OnePart DEF PSync, CommitSync
  <2>4. LeaderSync(p)'
    BY <1>1, OnePart DEF PSync, LeaderSync, Executable, CommittedEntry
  <2>5. WorkSync(p)'
    BY <1>1, OnePart DEF PSync, WorkSync, WorkNumber, executed, ahead
  <2>6. TableSync(p)'
    <3>1. CASE rpc = "query"
      BY <1>1, <3>1, OnePart DEF PSync, TableSync, InRound
    <3>2. CASE rpc \in {"push", "replay"}
      <4>1. maxTxidTB'[p] # 0 /\ link'[p] = "up" => ptxid'[p] - 1 = TableNumber(p)'
        <5>1. TableNumber(p)' = maxTxidTB[p] + 1 /\ TableNumber(p) = maxTxidTB[p] + 1
          BY <1>1, <1>5, <3>2 DEF TableNumber
        <5>2. maxTxidTB[p] # 0
          BY <1>1, <3>2, OnePart DEF PSync, RecoverySync
        <5> QED BY <1>1, <3>2, <5>1, <5>2, OnePart DEF PSync, TableSync, InRound
      <4> QED BY <1>1, <1>5, <3>2, <4>1 DEF TableSync
    <3> QED BY <1>5, <3>1, <3>2
  <2>7. RecoverySync(p)'
    BY <1>1, <1>5, OnePart DEF PSync, RecoverySync, fedUpTo, InRound
  <2> QED BY <2>1, <2>2, <2>3, <2>4, <2>5, <2>6, <2>7 DEF PSync
<1>3. Counted'
  BY SameCount, OnePart
<1>4. \A q \in PId : q # p => SameParticipant(q)
  BY DEF IInv, TypeOK, ParticipantTypeOK, SameParticipant
<1> QED BY <1>2, <1>3, <1>4, <1>5, LocalSync

LEMMA PRFailSync ==
  ASSUME IInv, SyncInv, NEW p \in PId, PRFail(p)
  PROVE  SyncInv'
<1> USE DEF PRFail, CloseLink, prUnchanged, workVars, recoveryVars, lockVars
<1>1. /\ rslot[p].phase \in {"posted", "sent"} /\ rslot'[p].phase = "closing"
      /\ pstate' = pstate /\ wslot[p].phase = "idle" /\ link'[p] # "up" /\ resp'[p] = None
      /\ maxTxidTB' = maxTxidTB
  BY OnePart DEF IInv, TypeOK, ParticipantTypeOK, IdleSlot
<1>2. PSync(p)'
  <2>1. ValidLog(p)'
    BY <1>1, OnePart DEF PSync, ValidLog, Executable, CommittedEntry
  <2>2. SlotSync(p)' BY <1>1, OnePart DEF PSync, SlotSync
  <2>3. CommitSync(p)' BY <1>1, OnePart DEF PSync, CommitSync
  <2>4. LeaderSync(p)'
    BY <1>1, OnePart DEF PSync, LeaderSync, Executable, CommittedEntry
  <2>5. WorkSync(p)' BY <1>1 DEF WorkSync
  <2>6. TableSync(p)' BY <1>1, OnePart DEF PSync, TableSync, TableNumber, InRound
  <2>7. RecoverySync(p)' BY <1>1, OnePart DEF PSync, RecoverySync, fedUpTo, InRound
  <2> QED BY <2>1, <2>2, <2>3, <2>4, <2>5, <2>6, <2>7 DEF PSync
<1>3. Counted'
  BY SameCount, OnePart
<1>4. \A q \in PId : q # p => SameParticipant(q)
  BY DEF IInv, TypeOK, ParticipantTypeOK, SameParticipant
<1> QED BY <1>1, <1>2, <1>3, <1>4, LocalSync

LEMMA PRGiveUpSync ==
  ASSUME IInv, SyncInv, NEW p \in PId, PRGiveUp(p)
  PROVE  SyncInv'
<1> USE DEF PRGiveUp, participantVars, prUnchanged, workVars, recoveryVars, lockVars
<1>1. /\ rslot[p].phase = "closing" /\ rslot'[p].phase = "done" /\ rslot'[p].ret = "FAIL"
      /\ pstate[p] = "RECOVERY" /\ pstate'[p] = "WAITING" /\ wslot[p].phase = "idle"
      /\ maxTxidTB'[p] = 0 /\ rpc # "elect"
  <2>1. DoneSlot("FAIL", None).phase = "done" /\ DoneSlot("FAIL", None).ret = "FAIL"
    BY DoneSlotType DEF Ret
  <2> QED BY <2>1, OnePart DEF IInv, TypeOK, PInv, ActiveState, SlotUse
<1>2. PSync(p)'
  <2>1. ValidLog(p)'
    BY <1>1, OnePart DEF PSync, ValidLog, Executable, CommittedEntry
  <2>2. SlotSync(p)' BY <1>1, OnePart DEF PSync, SlotSync
  <2>3. CommitSync(p)' BY <1>1, OnePart DEF PSync, CommitSync
  <2>4. LeaderSync(p)'
    BY <1>1, OnePart DEF PSync, LeaderSync, Executable, CommittedEntry
  <2>5. WorkSync(p)' BY <1>1 DEF WorkSync
  <2>6. TableSync(p)' BY <1>1, OnePart DEF PSync, TableSync, TableNumber, InRound
  <2>7. RecoverySync(p)' BY <1>1 DEF RecoverySync
  <2> QED BY <2>1, <2>2, <2>3, <2>4, <2>5, <2>6, <2>7 DEF PSync
<1>3. Counted'
  BY <1>1, SameCount, OnePart DEF IInv, TypeOK
<1>4. \A q \in PId : q # p => SameParticipant(q)
  BY DEF IInv, TypeOK, ParticipantTypeOK, SameParticipant
<1> QED BY <1>1, <1>2, <1>3, <1>4, LocalSync

-----------------------------------------------------------------------------
(***************************************************************************)
(* Participants                                                            *)
(***************************************************************************)
LEMMA PWorkingEffect ==
  ASSUME IInv, SyncInv, NEW p \in PId, PWorking(p), UNCHANGED coordinatorVars
  PROVE  /\ req[p] \in Task /\ link'[p] = link[p] /\ link[p] \in {"up", "half"}
         /\ ptxid'[p] = IF logsTask(p, req[p]) THEN ptxid[p] + 1 ELSE ptxid[p]
         /\ resp[p] = None
         /\ link[p] = "up" => resp'[p] = workerReply(p, req[p]) /\ resp'[p] # None
         /\ link[p] = "half" => /\ resp'[p] = None
                                /\ wslot[p].phase # "sent" /\ rslot[p].phase # "sent"
         /\ ValidLog(p)'
<1> DEFINE l == req[p]
<1>1. /\ l \in Task /\ link'[p] = link[p] /\ link[p] \in {"up", "half"}
      /\ ptxid'[p] = IF logsTask(p, l) THEN ptxid[p] + 1 ELSE ptxid[p]
      /\ plog'[p] = IF logsTask(p, l) THEN [plog[p] EXCEPT ![l.ID] = l] ELSE plog[p]
      /\ resp'[p] = IF link[p] = "up" THEN workerReply(p, l) ELSE None
  BY DEF PWorking, IInv, TypeOK, ParticipantTypeOK
<1>2. link[p] = "up" => workerReply(p, l) # None
  BY <1>1, TaskOnItsWay, WorkerReplyType, NoneAssumption DEF PWorking
<1>3. /\ resp[p] = None
      /\ link[p] = "half" => wslot[p].phase # "sent" /\ rslot[p].phase # "sent"
  BY OnePart DEF PWorking, PInv, Channel, Carries
<1>4. ValidLog(p)'
  <2>1. ValidLog(p) /\ ptxid[p] \in TXID_START .. MaxTxid + 1
    BY OnePart DEF PSync
  <2>2. plog[p] \in [Txid -> LogEntry \cup {None}]
    BY DEF IInv, TypeOK, ParticipantTypeOK
  <2>3. CASE ~logsTask(p, l)
    BY <1>1, <2>1, <2>3 DEF ValidLog, Executable, CommittedEntry
  <2>4. CASE logsTask(p, l)
    <3>1. l.ID = ptxid[p] /\ l.state = "COMMIT" /\ WellFormed(l.event)
      BY <2>4, Execution DEF logsTask, commits
    <3>2. l \in Executable(ptxid[p]) /\ ptxid[p] \in Txid
      BY <1>1, <2>1, <3>1 DEF Executable, CommittedEntry, LogEntry, Task, SUPER_TXID,
         RECOVERY_TXID, ASK_DATA_TXID
    <3> QED BY <1>1, <2>1, <2>2, <2>4, <3>1, <3>2 DEF ValidLog, Executable, CommittedEntry
  <2> QED BY <2>3, <2>4
<1> QED BY <1>1, <1>2, <1>3, <1>4

\* A task of work, for a participant that has executed what WorkNumber says.
LEMMA WorkTaskEffect ==
  ASSUME IInv, SyncInv, NEW p \in PId, PWorking(p), UNCHANGED coordinatorVars,
         link[p] = "up", wslot[p].phase = "sent"
  PROVE  CommitSync(p)' /\ LeaderSync(p)' /\ WorkSync(p)'
<1> DEFINE l == req[p]
<1> USE DEF coordinatorVars, workVars, recoveryVars, lockVars, stateVars
<1>1. /\ l = wslot[p].task /\ resp[p] = None /\ rslot[p].phase = "idle"
      /\ pstate[p] = "WORKING" /\ PSync(p) /\ PInv(p)
      /\ resp'[p] = workerReply(p, l) /\ resp'[p] # None /\ link'[p] = "up"
      /\ ptxid'[p] = IF logsTask(p, l) THEN ptxid[p] + 1 ELSE ptxid[p]
      /\ ptxid[p] \in TXID_START .. MaxTxid + 1
  BY PWorkingEffect, TaskOnItsWay, OnePart DEF PWorking, PInv, ActiveState
<1>2. ptxid[p] = WorkNumber(p) /\ ~executed(p)
      /\ rpc # "query" /\ (rpc = "elect" => ahead = {}) /\ (rpc \in {"ask", "push"} => p = leader)
  BY <1>1 DEF PSync, WorkSync, executed
<1>3. \/ rpc \notin InRound /\ wpc \in {"votes", "commits", "get"}
      \/ rpc = "ask" /\ wpc \notin {"votes", "commits", "get"}
  BY <1>1 DEF PInv, SlotUse, IInv, Locks, InRound
<1>4. CASE wpc = "commits"
  <2>1. l = Log(txid, "COMMIT", cmd) /\ ptxid[p] = txid /\ rpc \notin {"ask", "push"}
    BY <1>1, <1>2, <1>3, <1>4 DEF PInv, WorkTask, WorkNumber, InRound
  <2>2. l.ID = ptxid[p] /\ l.state = "COMMIT" /\ l.event = cmd
    BY <2>1 DEF Log
  <2>3. workerReply(p, l) = eventParser(kv[p], cmd).reply
    BY <1>1, <2>2 DEF workerReply, commits, SUPER_TXID, RECOVERY_TXID, ASK_DATA_TXID
  <2>4. resp'[p] # ErrorReply <=> WellFormed(cmd)
    BY <1>1, <2>3, Execution
  <2>5. logsTask(p, l) <=> WellFormed(cmd)
    BY <2>2, Execution DEF logsTask, commits
  <2>6. CommitSync(p)'
    BY <1>1, <2>4 DEF PSync, CommitSync
  <2>7. WorkNumber(p)' = IF WellFormed(cmd) THEN txid + 1 ELSE txid
    BY <1>1, <1>3, <1>4, <2>1 DEF WorkNumber, executed
  <2>8. WorkSync(p)'
    BY <1>1, <1>2, <1>3, <1>4, <2>1, <2>5, <2>7 DEF WorkSync, InRound
  <2> QED BY <1>3, <1>4, <2>6, <2>8 DEF LeaderSync, InRound
<1>5. CASE wpc \in {"votes", "get"}
  <2>1. l.ID = SUPER_TXID \/ l.state = "PRE"
    BY <1>1, <1>3, <1>5 DEF PInv, WorkTask, Log
  <2>2. ptxid'[p] = ptxid[p]
    BY <1>1, <2>1 DEF logsTask, commits, SUPER_TXID
  <2>3. WorkNumber(p)' = WorkNumber(p)
    BY <1>5 DEF WorkNumber, executed
  <2> QED BY <1>1, <1>2, <1>3, <1>5, <2>2, <2>3 DEF CommitSync, LeaderSync, WorkSync, InRound
<1>6. CASE rpc = "ask"
  <2>1. l = AskLog(minID) /\ ptxid[p] = maxID + 1
    BY <1>1, <1>2, <1>6 DEF PInv, WorkTask, WorkNumber
  <2>2. l.ID = ASK_DATA_TXID /\ l.asks = minID
    BY <2>1 DEF AskLog
  <2>3. minID \in Txid /\ minID < ptxid[p]
    BY <1>6, <2>1 DEF IInv, Progress, TypeOK
  <2>4. plog[p][minID] \in Executable(minID)
    BY <1>1, <2>3 DEF PSync, ValidLog
  <2>5. workerReply(p, l) = LogReply(plog[p][minID])
    <3>1. ~(l.asks >= ptxid[p]) /\ l.ID = 2 /\ l.ID # ptxid[p]
      BY <1>1, <2>2, <2>3 DEF ASK_DATA_TXID
    <3> QED BY <2>2, <3>1 DEF workerReply, commits, SUPER_TXID, RECOVERY_TXID, ASK_DATA_TXID
  <2>6. resp'[p].kind = "LOG" /\ resp'[p].log \in Executable(minID)
    BY <1>1, <2>4, <2>5 DEF LogReply
  <2>7. LeaderSync(p)'
    BY <1>1, <2>6 DEF LeaderSync, Executable, CommittedEntry
  <2>8. ptxid'[p] = ptxid[p]
    BY <1>1, <2>2 DEF logsTask, commits, ASK_DATA_TXID
  <2>9. WorkNumber(p)' = WorkNumber(p)
    BY <1>6 DEF WorkNumber
  <2>10. CommitSync(p)'
    BY <1>3, <1>6 DEF CommitSync, InRound
  <2>11. WorkSync(p)'
    BY <1>1, <1>2, <1>6, <2>8, <2>9 DEF WorkSync
  <2> QED BY <2>7, <2>10, <2>11
<1> QED BY <1>3, <1>4, <1>5, <1>6

\* A task of recovery: the number, or the next entry to execute.
LEMMA RecoveryTaskEffect ==
  ASSUME IInv, SyncInv, NEW p \in PId, PWorking(p), UNCHANGED coordinatorVars,
         link[p] = "up", rslot[p].phase = "sent"
  PROVE  TableSync(p)'
<1> DEFINE l == req[p]
<1> USE DEF coordinatorVars, workVars, recoveryVars, lockVars, stateVars
<1>1. /\ l = rslot[p].task /\ resp[p] = None /\ wslot[p].phase = "idle" /\ l \in Task
      /\ pstate[p] = "RECOVERY" /\ PSync(p) /\ PInv(p)
      /\ resp'[p] = workerReply(p, l) /\ resp'[p] # None /\ link'[p] = "up"
      /\ ptxid'[p] = IF logsTask(p, l) THEN ptxid[p] + 1 ELSE ptxid[p]
      /\ ptxid[p] \in TXID_START .. MaxTxid + 1 /\ maxTxidTB[p] \in 0 .. MaxTxid
  BY PWorkingEffect, TaskOnItsWay, OnePart DEF PWorking, PInv, ActiveState
<1>2. rpc \in {"query", "push", "replay"}
  BY <1>1, PushedTask
<1>3. CASE rpc = "query"
  <2>1. l.ID = 1
    BY <1>1, <1>3, PushedTask DEF RECOVERY_TXID
  <2>2. workerReply(p, l) = TxidReply(ptxid[p] - 1) /\ ptxid'[p] = ptxid[p]
    BY <1>1, <2>1 DEF workerReply, commits, logsTask, SUPER_TXID, RECOVERY_TXID, ASK_DATA_TXID
  <2> QED BY <1>1, <1>3, <2>2 DEF TableSync, TxidReply, InRound
<1>4. CASE rpc \in {"push", "replay"}
  <2>1. l.ID = maxTxidTB[p] + 1 /\ l.state = "COMMIT" /\ WellFormed(l.event)
    <3>1. PICK t \in Txid : l \in Executable(t)
      BY <1>1, <1>4, PushedTask, OnePart
    <3> QED BY <1>1, <1>4, <3>1, PushedTask, ExecutableEntry
  <2>2. ptxid[p] - 1 = maxTxidTB[p]
    BY <1>1, <1>4 DEF PSync, RecoverySync, TableSync, TableNumber, InRound
  <2>3. l.ID = ptxid[p] /\ ptxid[p] = maxTxidTB[p] + 1
    BY <1>1, <2>1, <2>2
  <2>4. commits(p, l) /\ logsTask(p, l)
    BY <2>1, <2>3, Execution DEF logsTask, commits
  <2>5. workerReply(p, l) = eventParser(kv[p], l.event).reply
    BY <1>1, <2>1, <2>3, <2>4 DEF workerReply, SUPER_TXID, RECOVERY_TXID, ASK_DATA_TXID
  <2>6. resp'[p] # ErrorReply
    BY <1>1, <2>1, <2>5, Execution
  <2>7. ptxid'[p] - 1 = maxTxidTB[p] + 1 /\ TableNumber(p)' = maxTxidTB[p] + 1
    BY <1>1, <2>3, <2>4 DEF TableNumber
  <2> QED BY <1>1, <1>4, <2>6, <2>7 DEF PSync, TableSync, InRound
<1> QED BY <1>2, <1>3, <1>4

LEMMA PWorkingSync ==
  ASSUME IInv, SyncInv, NEW p \in PId, PWorking(p), UNCHANGED coordinatorVars
  PROVE  SyncInv'
<1> USE DEF coordinatorVars, workVars, recoveryVars, lockVars, stateVars
<1>1. /\ link'[p] = link[p] /\ link[p] \in {"up", "half"} /\ ValidLog(p)' /\ PSync(p)
      /\ link[p] = "up" => resp'[p] # None
      /\ link[p] = "half" => /\ resp'[p] = None
                             /\ wslot[p].phase # "sent" /\ rslot[p].phase # "sent"
  BY PWorkingEffect, OnePart
<1>2. SlotSync(p)'
  BY <1>1 DEF PSync, SlotSync
<1>3. RecoverySync(p)'
  BY <1>1 DEF PSync, RecoverySync, fedUpTo, InRound
<1>4. ASSUME link[p] = "half" PROVE PSync(p)'
  <2>1. CommitSync(p)' /\ LeaderSync(p)'
    BY <1>1, <1>4 DEF PSync, CommitSync, LeaderSync, Executable, CommittedEntry
  <2>2. WorkSync(p)' /\ TableSync(p)'
    BY <1>1, <1>4 DEF PSync, WorkSync, TableSync
  <2> QED BY <1>1, <1>2, <1>3, <2>1, <2>2 DEF PSync
<1>5. ASSUME link[p] = "up" /\ wslot[p].phase = "sent" PROVE PSync(p)'
  <2>1. CommitSync(p)' /\ LeaderSync(p)' /\ WorkSync(p)'
    BY <1>5, WorkTaskEffect
  <2>2. rslot[p].phase = "idle" /\ pstate[p] = "WORKING"
    BY <1>5, OnePart DEF PInv, ActiveState
  <2>3. rpc \in InRound \ {"query"} => maxTxidTB[p] = 0
    BY <2>2, OnePart DEF PInv, Table
  <2>4. TableSync(p)'
    BY <1>1, <2>2, <2>3 DEF PSync, TableSync
  <2> QED BY <1>1, <1>2, <1>3, <2>1, <2>4 DEF PSync
<1>6. ASSUME link[p] = "up" /\ rslot[p].phase = "sent" PROVE PSync(p)'
  <2>1. TableSync(p)'
    BY <1>6, RecoveryTaskEffect
  <2>2. wslot[p].phase = "idle" /\ pstate[p] = "RECOVERY"
    BY <1>6, OnePart DEF PInv, ActiveState
  <2>3. CommitSync(p)' /\ LeaderSync(p)' /\ WorkSync(p)'
    BY <2>2, OnePart DEF PSync, CommitSync, LeaderSync, WorkSync
  <2> QED BY <1>1, <1>2, <1>3, <2>1, <2>3 DEF PSync
<1>7. PSync(p)'
  BY <1>1, <1>4, <1>5, <1>6, TaskOnItsWay DEF PWorking
<1>8. Counted'
  BY SameCount, OnePart
<1>9. \A q \in PId : q # p => SameParticipant(q)
  BY DEF PWorking, IInv, TypeOK, ParticipantTypeOK, SameParticipant
<1> QED BY <1>7, <1>8, <1>9, LocalSync

\* Whoever is not connected is in step with nobody.
LEMMA LinkLost ==
  ASSUME IInv, SyncInv, NEW p \in PId, PKeepAlive(p) \/ PCrash(p) \/ PRestart(p),
         UNCHANGED coordinatorVars
  PROVE  SyncInv'
<1> USE DEF coordinatorVars, workVars, recoveryVars, lockVars, stateVars
<1>1. /\ link'[p] # "up" /\ resp'[p] = resp[p] /\ PSync(p)
      /\ \/ ptxid'[p] = TXID_START
         \/ ptxid'[p] = ptxid[p] /\ plog'[p] = plog[p]
  BY OnePart DEF PKeepAlive, PCrash, PRestart, IInv, TypeOK, ParticipantTypeOK
<1>2. PSync(p)'
  <2>1. ValidLog(p)' BY <1>1 DEF PSync, ValidLog, Executable, CommittedEntry
  <2>2. SlotSync(p)' BY <1>1 DEF PSync, SlotSync
  <2>3. CommitSync(p)' BY <1>1 DEF PSync, CommitSync
  <2>4. LeaderSync(p)' BY <1>1 DEF PSync, LeaderSync, Executable, CommittedEntry
  <2>5. WorkSync(p)' BY <1>1 DEF WorkSync
  <2>6. TableSync(p)' BY <1>1 DEF PSync, TableSync
  <2>7. RecoverySync(p)' BY <1>1 DEF PSync, RecoverySync, fedUpTo, InRound
  <2> QED BY <2>1, <2>2, <2>3, <2>4, <2>5, <2>6, <2>7 DEF PSync
<1>3. Counted'
  BY SameCount, OnePart
<1>4. \A q \in PId : q # p => SameParticipant(q)
  BY DEF PKeepAlive, PCrash, PRestart, IInv, TypeOK, ParticipantTypeOK, SameParticipant
<1> QED BY <1>2, <1>3, <1>4, LocalSync

-----------------------------------------------------------------------------
(***************************************************************************)
(* work                                                                    *)
(***************************************************************************)
LEMMA WorkAloneSync ==
  ASSUME IInv, SyncInv, wpc \notin Exchanging, wpc' \notin Exchanging,
         UNCHANGED <<participantVars, recoveryVars, txid, clog, pstate, tmpNum,
                     maxTxidTB, wslot, rslot>>
  PROVE  SyncInv'
<1> USE DEF participantVars, recoveryVars, Exchanging
<1>1. ValidCoordinatorLog'
  BY DEF SyncInv, ValidCoordinatorLog, Executable, CommittedEntry
<1>2. Distribution'
  BY DEF SyncInv, Distribution, Executable, CommittedEntry
<1>3. Counted'
  BY SameCount DEF SyncInv
<1>4. ASSUME NEW p \in PId PROVE PSync(p)'
  <2>0. PSync(p) BY DEF SyncInv
  <2>1. ValidLog(p)' BY <2>0 DEF PSync, ValidLog, Executable, CommittedEntry
  <2>2. SlotSync(p)' BY <2>0 DEF PSync, SlotSync
  <2>3. CommitSync(p)' BY <2>0 DEF PSync, CommitSync
  <2>4. LeaderSync(p)' BY <2>0 DEF PSync, LeaderSync, Executable, CommittedEntry
  <2>5. WorkSync(p)'
    <3>1. ahead' = ahead
      BY DEF ahead
    <3> QED BY <2>0, <3>1 DEF PSync, WorkSync, WorkNumber, executed
  <2>6. TableSync(p)' BY <2>0 DEF PSync, TableSync, TableNumber, InRound
  <2>7. RecoverySync(p)' BY <2>0 DEF PSync, RecoverySync, fedUpTo, InRound
  <2> QED BY <2>1, <2>2, <2>3, <2>4, <2>5, <2>6, <2>7 DEF PSync
<1> QED BY <1>1, <1>2, <1>3, <1>4 DEF SyncInv

\* A step of work with the mutex: whoever works is at the next transaction,
\* and has not begun with it.
LEMMA WorkExchangeSync ==
  ASSUME IInv, SyncInv, rpc \notin InRound, ValidCoordinatorLog',
         txid' \in Int, txid' >= txid,
         \A p \in PId : /\ wslot'[p].phase \in {"idle", "posted"}
                        /\ wpc' = "commits" => wslot'[p].phase = "posted"
                        /\ pstate[p] = "WORKING" /\ link[p] = "up" => ptxid[p] = txid',
         UNCHANGED <<participantVars, recoveryVars, pstate, tmpNum, maxTxidTB, rslot>>
  PROVE  SyncInv'
<1> USE DEF participantVars, recoveryVars
<1>1. Distribution'
  BY DEF SyncInv, Distribution, InRound, IInv, TypeOK
<1>2. Counted'
  BY SameCount DEF SyncInv
<1>3. ASSUME NEW p \in PId PROVE PSync(p)'
  <2>0. PSync(p) /\ rslot[p].phase = "idle"
    BY DEF SyncInv, IInv, PInv, SlotUse, InRound
  <2>1. ValidLog(p)' BY <2>0 DEF PSync, ValidLog, Executable, CommittedEntry
  <2>2. SlotSync(p)' BY <2>0 DEF PSync, SlotSync
  <2>3. CommitSync(p)' BY <2>0 DEF PSync, CommitSync
  <2>4. LeaderSync(p)' BY DEF LeaderSync, InRound
  <2>5. WorkSync(p)' BY DEF WorkSync, WorkNumber, executed, InRound
  <2>6. TableSync(p)' BY DEF TableSync, InRound
  <2>7. RecoverySync(p)' BY <2>0 DEF PSync, RecoverySync
  <2> QED BY <2>1, <2>2, <2>3, <2>4, <2>5, <2>6, <2>7 DEF PSync
<1> QED BY <1>1, <1>2, <1>3 DEF SyncInv

LEMMA NotYetCommitted ==
  ASSUME SyncInv, rpc \notin InRound, wpc # "commits"
  PROVE  \A p \in PId : pstate[p] = "WORKING" /\ link[p] = "up" => ptxid[p] = txid
BY DEF SyncInv, PSync, WorkSync, WorkNumber, executed, InRound

LEMMA StartUpdateSync ==
  ASSUME IInv, SyncInv, StartUpdate
  PROVE  SyncInv'
<1> USE DEF workUnchanged, participantVars, recoveryVars
<1>1. /\ txid \in Txid /\ txid' = txid /\ rpc \notin InRound /\ wpc = "lock" /\ wpc' = "votes"
      /\ clog \in [Txid -> LogEntry \cup {None}] /\ cmd' = cmd
      /\ clog' = [clog EXCEPT ![txid] = Log(txid, "PRE", cmd)]
  BY DEF IInv, TypeOK, Locks, StartUpdate, voteSlot
<1>2. Log(txid, "PRE", cmd).event = cmd
  BY DEF Log
<1>3. ValidCoordinatorLog'
  BY <1>1, <1>2 DEF SyncInv, ValidCoordinatorLog, Executable, CommittedEntry
<1>4. Log(txid, "PRE", <<>>) \in Task
  BY <1>1, TaskType DEF LogState
<1>5. \A p \in PId : wslot'[p].phase = "posted"
  BY <1>4, PostedSlotType DEF StartUpdate, PostAll
<1> QED BY <1>1, <1>3, <1>5, NotYetCommitted, WorkExchangeSync DEF StartUpdate

LEMMA CollectVotesSync ==
  ASSUME IInv, SyncInv, CollectVotes
  PROVE  SyncInv'
<1> USE DEF workUnchanged, participantVars, recoveryVars
<1>1. /\ txid \in Txid /\ txid' = txid /\ rpc \notin InRound /\ wpc = "votes"
      /\ clog' = clog /\ cmd \in Command \cup {<<>>}
      /\ wpc' \in {"commits", "accept"} /\ (wpc' = "commits" => cmd' = cmd)
  BY DEF IInv, TypeOK, Locks, CoordinatorLog, CollectVotes, Answer
<1>2. ValidCoordinatorLog'
  BY <1>1 DEF SyncInv, ValidCoordinatorLog, Executable, CommittedEntry
<1>3. Log(txid, "COMMIT", cmd) \in Task
  BY <1>1, TaskType DEF LogState
<1>4. \A p \in PId : /\ wslot'[p].phase \in {"idle", "posted"}
                     /\ wpc' = "commits" => wslot'[p].phase = "posted"
  BY <1>3, IdleSlotType, PostedSlotType DEF CollectVotes, PostAll, CollectAll, Answer
<1> QED BY <1>1, <1>2, <1>4, NotYetCommitted, WorkExchangeSync DEF CollectVotes

\* The transaction is counted exactly if those who work have executed it.
LEMMA CollectCommitsSync ==
  ASSUME IInv, SyncInv, CollectCommits
  PROVE  SyncInv'
<1> USE DEF workUnchanged, participantVars, recoveryVars
<1>1. /\ txid \in Txid /\ rpc \notin InRound /\ wpc = "commits" /\ wpc' = "accept"
      /\ clog[txid] \in LogEntry /\ clog[txid].ID = txid /\ clog[txid].event = cmd
      /\ clog \in [Txid -> LogEntry \cup {None}]
  BY DEF IInv, TypeOK, Locks, CoordinatorLog, CollectCommits, Answer, SyncInv,
     ValidCoordinatorLog
<1>2. committers # {} => WellFormed(cmd)
  BY <1>1 DEF CollectCommits, AllDone, committers, SyncInv, PSync, CommitSync
<1>3. ASSUME NEW p \in PId, pstate[p] = "WORKING", link[p] = "up"
      PROVE  /\ WellFormed(cmd) => ptxid[p] = txid + 1 /\ committers # {}
             /\ ~WellFormed(cmd) => ptxid[p] = txid
  <2>1. PSync(p) /\ wslot[p].phase = "done"
    BY DEF SyncInv, CollectCommits, AllDone
  <2>2. wslot[p].ret = "OK"
    BY <1>3, <2>1 DEF PSync, SlotSync
  <2>3. WellFormed(cmd) => p \in committers
    BY <1>1, <2>1, <2>2 DEF PSync, CommitSync, committers
  <2> QED BY <1>1, <1>3, <2>1, <2>3 DEF PSync, WorkSync, WorkNumber, executed, InRound
<1>4. CASE committers # {}
  <2>1. /\ clog' = [clog EXCEPT ![txid] = [clog[txid] EXCEPT !.state = "COMMIT"]]
        /\ txid' = txid + 1
    BY <1>4 DEF CollectCommits
  <2>2. [clog[txid] EXCEPT !.state = "COMMIT"] \in Executable(txid)
    BY <1>1, <1>2, <1>4 DEF Executable, CommittedEntry, LogEntry, Task, LogState
  <2>3. ValidCoordinatorLog'
    BY <1>1, <2>1, <2>2 DEF SyncInv, ValidCoordinatorLog, Executable, CommittedEntry
  <2>4. \A p \in PId : pstate[p] = "WORKING" /\ link[p] = "up" => ptxid[p] = txid'
    BY <1>2, <1>3, <1>4, <2>1
  <2>5. \A p \in PId : wslot'[p].phase = "idle"
    BY IdleSlotType DEF CollectCommits, CollectAll
  <2> QED BY <1>1, <2>1, <2>3, <2>4, <2>5, WorkExchangeSync DEF CollectCommits
<1>5. CASE committers = {}
  <2>1. clog' = clog /\ txid' = txid
    BY <1>5 DEF CollectCommits
  <2>2. ValidCoordinatorLog'
    BY <1>1, <2>1 DEF SyncInv, ValidCoordinatorLog, Executable, CommittedEntry
  <2>3. \A p \in PId : pstate[p] = "WORKING" /\ link[p] = "up" => ptxid[p] = txid'
    BY <1>3, <1>5, <2>1
  <2>4. \A p \in PId : wslot'[p].phase = "idle"
    BY IdleSlotType DEF CollectCommits, CollectAll
  <2> QED BY <1>1, <2>1, <2>2, <2>3, <2>4, WorkExchangeSync DEF CollectCommits
<1> QED BY <1>4, <1>5

\* A read changes nobody's number.
LEMMA RequestSync ==
  ASSUME IInv, SyncInv, StartRequest \/ RequestNext \/ RequestAnswered \/ RequestFails
  PROVE  SyncInv'
<1> USE DEF workUnchanged, participantVars, recoveryVars
<1>1. /\ txid \in Int /\ txid' = txid /\ clog' = clog /\ rpc \notin InRound
      /\ wpc \in {"lock", "get"} /\ wpc' \in {"get", "accept"}
      /\ cmd \in Command \cup {<<>>} /\ asked \in PId /\ wslot \in [PId -> Slot]
  BY DEF IInv, TypeOK, Locks, StartRequest, RequestNext, RequestAnswered, RequestFails,
     Answer
<1>2. ValidCoordinatorLog'
  BY <1>1 DEF SyncInv, ValidCoordinatorLog, Executable, CommittedEntry
<1>3. Log(SUPER_TXID, "COMMIT", cmd) \in Task
  BY <1>1, TaskType
<1>4. ASSUME NEW p \in PId PROVE wslot'[p].phase \in {"idle", "posted"}
  <2>1. wpc = "lock" \/ p # asked => wslot[p].phase = "idle"
    BY <1>1, OthersIdle
  <2>2. CASE StartRequest
    BY <1>1, <1>3, <2>1, <2>2, PostedSlotType DEF StartRequest
  <2>3. CASE RequestNext
    BY <1>1, <1>3, <2>1, <2>3, PostedSlotType, IdleSlotType DEF RequestNext
  <2>4. CASE RequestAnswered \/ RequestFails
    BY <1>1, <2>1, <2>4, IdleSlotType DEF RequestAnswered, RequestFails
  <2> QED BY <2>2, <2>3, <2>4
<1>5. /\ UNCHANGED <<participantVars, recoveryVars, pstate, tmpNum, maxTxidTB, rslot>>
      /\ wpc # "commits" /\ wpc' # "commits"
  BY <1>1 DEF StartRequest, RequestNext, RequestAnswered, RequestFails
<1> QED BY <1>1, <1>2, <1>4, <1>5, NotYetCommitted, WorkExchangeSync

LEMMA WorkStepSync ==
  ASSUME IInv, SyncInv, work
  PROVE  SyncInv'
<1>1. ASSUME \/ \E c \in Command : AcceptClient(c)
             \/ Refuse \/ Admit \/ BadCommand
      PROVE  SyncInv'
  <2> USE DEF workUnchanged, participantVars, recoveryVars, Exchanging
  <2>1. CASE \E c \in Command : AcceptClient(c)
    BY <2>1, WorkAloneSync DEF AcceptClient
  <2>2. CASE Refuse \/ Admit \/ BadCommand
    BY <2>2, WorkAloneSync DEF Refuse, Admit, BadCommand, Answer
  <2> QED BY <1>1, <2>1, <2>2
<1> QED BY <1>1, StartUpdateSync, CollectVotesSync, CollectCommitsSync, RequestSync DEF work

-----------------------------------------------------------------------------
(***************************************************************************)
(* recovery                                                                *)
(***************************************************************************)
LEMMA RecoveryAloneSync ==
  ASSUME IInv, SyncInv, rpc \notin InRound, rpc' \notin InRound,
         rpc' \in {"wait", "lockRecovery", "lockWorking"} => minID' < txid,
         UNCHANGED <<participantVars, workVars, txid, clog, pstate, tmpNum, wslot, rslot>>
  PROVE  SyncInv'
<1> USE DEF participantVars, workVars
<1>1. ValidCoordinatorLog'
  BY DEF SyncInv, ValidCoordinatorLog, Executable, CommittedEntry
<1>2. Distribution' /\ Counted'
  BY DEF SyncInv, Distribution, Counted, InRound
<1>3. ASSUME NEW p \in PId PROVE PSync(p)'
  <2>0. PSync(p) /\ rslot[p].phase = "idle"
    BY DEF SyncInv, IInv, PInv, SlotUse, InRound
  <2>1. ValidLog(p)' BY <2>0 DEF PSync, ValidLog, Executable, CommittedEntry
  <2>2. SlotSync(p)' BY <2>0 DEF PSync, SlotSync
  <2>3. CommitSync(p)' BY <2>0 DEF PSync, CommitSync
  <2>4. LeaderSync(p)' BY DEF LeaderSync, InRound
  <2>5. WorkSync(p)' BY <2>0 DEF PSync, WorkSync, WorkNumber, executed, InRound
  <2>6. TableSync(p)' BY DEF TableSync, InRound
  <2>7. RecoverySync(p)' BY <2>0 DEF PSync, RecoverySync
  <2> QED BY <2>1, <2>2, <2>3, <2>4, <2>5, <2>6, <2>7 DEF PSync
<1> QED BY <1>1, <1>2, <1>3 DEF SyncInv

\* What has to be shown of a step with both mutexes, when no exchange of a task
\* has begun after it.
LEMMA RoundSync ==
  ASSUME IInv, SyncInv, wpc \notin Exchanging, UNCHANGED <<participantVars, workVars>>,
         ValidCoordinatorLog', Counted', Distribution',
         \A p \in PId :
            /\ wslot'[p].phase \in {"idle", "posted"} /\ rslot'[p].phase \in {"idle", "posted"}
            /\ rpc' = "push" /\ rslot'[p].phase = "posted" => rslot'[p].task = entry'
            /\ rpc' = "replay" /\ rslot'[p].phase = "posted" => rslot'[p].task = clog'[tid']
            /\ WorkSync(p)' /\ TableSync(p)' /\ RecoverySync(p)'
  PROVE  SyncInv'
<1> USE DEF participantVars, workVars, Exchanging
<1>1. ASSUME NEW p \in PId PROVE PSync(p)'
  <2>1. ValidLog(p)' BY DEF SyncInv, PSync, ValidLog, Executable, CommittedEntry
  <2>2. SlotSync(p)' BY DEF SlotSync
  <2>3. CommitSync(p)' BY DEF CommitSync
  <2>4. LeaderSync(p)' BY DEF LeaderSync
  <2> QED BY <2>1, <2>2, <2>3, <2>4 DEF PSync
<1> QED BY <1>1 DEF SyncInv

\* The coordinator's log as long as recovery does not write to it.
LEMMA SameCoordinatorLog ==
  ASSUME SyncInv, UNCHANGED <<workVars, txid, clog>>
  PROVE  ValidCoordinatorLog'
BY DEF SyncInv, ValidCoordinatorLog, Executable, CommittedEntry, workVars

\* What is known in a round when all results are there.
LEMMA RoundFacts ==
  ASSUME IInv, SyncInv, rpc \in InRound, NEW p \in PId
  PROVE  /\ wpc \notin Exchanging /\ PInv(p) /\ PSync(p) /\ pstate[p] # "TEMP"
         /\ pstate[p] \in PState
         /\ ptxid[p] \in TXID_START .. MaxTxid + 1 /\ txid \in TXID_START .. MaxTxid + 1
         /\ maxTxidTB[p] \in 0 .. MaxTxid /\ maxID \in 0 .. MaxTxid
         /\ minID \in TXID_START - 1 .. MaxTxid + 1
         /\ ~executed(p)
         /\ rpc # "query" /\ rslot[p].phase # "sent" => TableNumber(p) = maxTxidTB[p]
BY RoundSlots, OnePart DEF IInv, TypeOK, ParticipantTypeOK, SyncInv, Counted, Exchanging,
   executed, TableNumber

LEMMA QueryAllSync ==
  ASSUME IInv, SyncInv, QueryAll
  PROVE  SyncInv'
<1> USE DEF recoveryUnchanged, participantVars, workVars
<1>1. /\ rpc = "lockWorking" /\ rpc' = "query" /\ wpc \notin Exchanging
      /\ UNCHANGED <<participantVars, txid, clog, minID, entry, tid, wslot, workVars>>
  BY DEF IInv, Locks, QueryAll, Exchanging
<1>2. \A p \in PId : pstate'[p] \notin {"TEMP", "WORKING"}
  BY DEF QueryAll
<1>3. \A p \in PId : wslot'[p].phase = "idle" /\ rslot'[p].phase = "posted"
  <2>1. Log(RECOVERY_TXID, "PRE", <<>>) \in Task
    BY TaskType
  <2> QED BY <1>1, <2>1, PostedSlotType DEF QueryAll, PostAll, IInv, PInv, SlotUse, Exchanging
<1>4. ValidCoordinatorLog'
  BY <1>1, SameCoordinatorLog
<1>5. Counted' /\ Distribution'
  BY <1>1, <1>2 DEF Counted, SyncInv, Distribution, InRound
<1>6. ASSUME NEW p \in PId PROVE WorkSync(p)' /\ TableSync(p)' /\ RecoverySync(p)'
  BY <1>1, <1>2, <1>3 DEF WorkSync, TableSync, RecoverySync, InRound
<1> QED BY <1>1, <1>3, <1>4, <1>5, <1>6, RoundSync

\* Whoever is in recovery has reported the number he has.
LEMMA BuildTableSync ==
  ASSUME IInv, SyncInv, BuildTable
  PROVE  SyncInv'
<1> USE DEF recoveryUnchanged, participantVars, workVars
<1>1. /\ rpc = "query" /\ rpc \in InRound /\ rpc' \in {"mark", "elect"} /\ AllDone(rslot)
      /\ maxTxidTB' = tableFrom(rslot) /\ minID < txid
      /\ UNCHANGED <<participantVars, txid, clog, pstate, entry, fed, tid, wslot, workVars>>
  BY DEF BuildTable, InRound, SyncInv, Distribution
<1>2. \A p \in PId : wslot'[p].phase = "idle" /\ rslot'[p].phase = "idle"
  BY <1>1, RoundSlots, IdleSlotType DEF BuildTable, CollectAll
<1>3. ASSUME NEW p \in PId
      PROVE  /\ maxTxidTB'[p] # 0 => rslot[p].ret = "OK" /\ rslot[p].phase = "done"
             /\ rslot[p].ret = "OK" => /\ reported(p) /\ maxTxidTB'[p] = rslot[p].data.txid
                                       /\ maxTxidTB'[p] # 0
  <2>1. rslot[p].phase = "done" /\ PInv(p)
    BY <1>1, RoundSlots DEF AllDone
  <2>2. CASE rslot[p].ret = "OK"
    <3>1. rslot[p].data.kind = "TXID" /\ rslot[p].data \in Reply
      BY <1>1, <2>1, <2>2 DEF PInv, Result
    <3>2. rslot[p].data.txid \in (TXID_START - 1) .. MaxTxid /\ rslot[p].data # EmptyReply
      BY <3>1 DEF Reply, KVReply, ErrorReply, OkReply, PreReply, EmptyReply
    <3> QED BY <1>1, <2>1, <2>2, <3>2 DEF tableFrom, reported
  <2>3. CASE rslot[p].ret # "OK"
    BY <1>1, <2>1, <2>3 DEF PInv, Table, tableFrom, reported
  <2> QED BY <2>2, <2>3
<1>4. rpc' = "mark" => \A p \in PId : rslot[p].ret = "OK" => maxTxidTB'[p] = txid - 1
  BY <1>3 DEF BuildTable, consistent
<1>5. rpc' = "elect" => minID' <= txid
  <2>1. rpc' = "elect" =>
          \E least \in {minID} \cup {tableFrom(rslot)[p] : p \in {q \in PId : tableFrom(rslot)[q] # 0}} :
             least <= minID /\ minID' = least + 1
    BY DEF BuildTable
  <2> QED BY <1>1, <2>1, TableType DEF IInv, TypeOK
<1>6. ValidCoordinatorLog'
  BY <1>1, SameCoordinatorLog
<1>7. Counted' /\ Distribution'
  BY <1>1, <1>5 DEF Counted, SyncInv, Distribution, InRound
<1>8. ASSUME NEW p \in PId PROVE WorkSync(p)' /\ TableSync(p)' /\ RecoverySync(p)'
  <2>1. PSync(p) /\ rslot[p].phase = "done"
    BY <1>1, RoundFacts DEF AllDone
  <2>2. WorkSync(p)'
    BY <1>1, <2>1 DEF PSync, WorkSync
  <2>3. TableSync(p)'
    BY <1>1, <1>2, <1>3, <2>1 DEF PSync, TableSync, TableNumber
  <2>4. RecoverySync(p)'
    BY <1>1, <1>3, <1>4, <2>1 DEF PSync, RecoverySync, InRound
  <2> QED BY <2>2, <2>3, <2>4
<1>9. wpc \notin Exchanging
  BY <1>1, RoundSlots
<1> QED BY <1>1, <1>2, <1>6, <1>7, <1>8, <1>9, RoundSync

\* The leader is ahead of the coordinator, and nobody is ahead of him.
LEMMA ElectLeaderSync ==
  ASSUME IInv, SyncInv, ElectLeader
  PROVE  SyncInv'
<1> USE DEF recoveryUnchanged, participantVars, workVars
<1>1. PICK l \in PId :
        /\ isLeader(l) /\ leader' = l /\ maxID' = maxTxidTB[l]
        /\ pstate' = [pstate EXCEPT ![l] = "WORKING"]
        /\ maxTxidTB' = [maxTxidTB EXCEPT ![l] = 0]
        /\ minID <= maxTxidTB[l] => /\ rpc' = "ask"
                                    /\ wslot' = [wslot EXCEPT ![l] = PostedSlot(AskLog(minID))]
  BY DEF ElectLeader
<1>2. /\ rpc = "elect" /\ rpc \in InRound /\ minID' = minID
      /\ UNCHANGED <<participantVars, workVars, txid, clog, entry, fed, tid, rslot>>
      /\ maxTxidTB \in [PId -> 0 .. MaxTxid] /\ pstate \in [PId -> PState]
      /\ wslot \in [PId -> Slot] /\ minID \in TXID_START .. MaxTxid + 1
      /\ txid \in TXID_START .. MaxTxid + 1 /\ minID <= txid
  BY DEF ElectLeader, InRound, IInv, TypeOK, Progress, SyncInv, Distribution
<1>3. /\ l \in ahead /\ maxTxidTB[l] >= txid
      /\ \A p \in PId : maxTxidTB[p] <= maxTxidTB[l]
  <2>1. l \in ahead /\ maxTxidTB[l] > txid - 1
    BY <1>1 DEF isLeader, ahead
  <2>2. ASSUME NEW p \in PId PROVE maxTxidTB[p] <= maxTxidTB[l]
    <3>1. maxTxidTB[p] \in Int /\ maxTxidTB[l] \in Int
      BY <1>2
    <3>2. CASE p \in ahead
      BY <1>1, <3>1, <3>2 DEF isLeader
    <3>3. CASE p \notin ahead
      BY <1>2, <2>1, <3>1, <3>3 DEF ahead
    <3> QED BY <3>2, <3>3
  <2> QED BY <1>2, <2>1, <2>2
<1>4. rpc' = "ask" /\ wslot' = [wslot EXCEPT ![l] = PostedSlot(AskLog(minID))]
  BY <1>1, <1>2, <1>3
<1>5. AskLog(minID) \in Task
  BY <1>2, <1>3, TaskType
<1>6. \A p \in PId : wslot'[p].phase \in {"idle", "posted"} /\ rslot'[p].phase = "idle"
  BY <1>2, <1>4, <1>5, RoundSlots, PostedSlotType
<1>7. ValidCoordinatorLog'
  BY <1>2, SameCoordinatorLog
<1>8. Counted'
  BY <1>1, <1>2, <1>4, RoundFacts DEF Counted, InRound
<1>9. Distribution'
  BY <1>1, <1>2, <1>3, <1>4 DEF Distribution
<1>10. ASSUME NEW p \in PId PROVE WorkSync(p)' /\ TableSync(p)' /\ RecoverySync(p)'
  <2>1. /\ PSync(p) /\ TableNumber(p) = maxTxidTB[p] /\ rslot[p].phase = "idle"
        /\ maxTxidTB[p] \in 0 .. MaxTxid /\ ptxid[p] \in TXID_START .. MaxTxid + 1
    BY <1>2, RoundFacts, RoundSlots
  <2>2. WorkSync(p)'
    <3>1. CASE p = l
      <4>1. maxTxidTB[l] # 0
        BY <1>2, <1>3
      <4>2. link[p] = "up" => ptxid[p] - 1 = maxTxidTB[l]
        BY <1>2, <2>1, <3>1, <4>1 DEF PSync, TableSync, InRound
      <4> QED BY <1>1, <1>2, <1>4, <2>1, <3>1, <4>2 DEF WorkSync, WorkNumber
    <3>2. CASE p # l
      BY <1>1, <1>2, <1>3, <2>1, <3>2 DEF PSync, WorkSync
    <3> QED BY <3>1, <3>2
  <2>3. TableSync(p)'
    BY <1>1, <1>2, <1>3, <1>4, <2>1 DEF PSync, TableSync, TableNumber, InRound
  <2>4. RecoverySync(p)'
    BY <1>1, <1>2, <1>4, <2>1 DEF PSync, RecoverySync, InRound
  <2> QED BY <2>2, <2>3, <2>4
<1>11. wpc \notin Exchanging
  BY <1>2, RoundSlots
<1> QED BY <1>2, <1>4, <1>6, <1>7, <1>8, <1>9, <1>10, <1>11, RoundSync

\* The entry the leader hands out is the one he was asked for, and the next
\* of the coordinator's log if it is not in there yet.
LEMMA TakeEntrySync ==
  ASSUME IInv, SyncInv, TakeEntry
  PROVE  SyncInv'
<1> USE DEF recoveryUnchanged, participantVars, workVars
<1> DEFINE l == wslot[leader].data.log
<1>1. /\ rpc = "ask" /\ rpc \in InRound /\ rpc' = "push" /\ fed' = 1 /\ entry' = l
      /\ UNCHANGED <<participantVars, workVars, pstate, maxTxidTB, minID, maxID, leader, tid>>
      /\ leader \in PId /\ minID \in Txid /\ minID <= maxID /\ minID <= txid /\ txid <= maxID + 1
      /\ txid \in TXID_START .. MaxTxid + 1 /\ maxID \in 0 .. MaxTxid
      /\ clog \in [Txid -> LogEntry \cup {None}]
      /\ wslot \in [PId -> Slot] /\ rslot \in [PId -> Slot]
  BY DEF TakeEntry, InRound, IInv, TypeOK, Progress, SyncInv, Distribution
<1>2. l \in Executable(minID)
  <2>1. wslot[leader].phase = "done" /\ wslot[leader].ret = "OK"
    BY DEF TakeEntry, answered
  <2> QED BY <1>1, <2>1, RoundFacts DEF PSync, LeaderSync
<1>3. l \in Task /\ l.ID = minID
  BY <1>1, <1>2, ExecutableEntry
<1>4. \/ clog' = [clog EXCEPT ![minID] = l] /\ txid' = txid + 1 /\ txid = minID
      \/ clog' = clog /\ txid' = txid /\ txid # minID
  BY <1>3 DEF TakeEntry, extendsLog
<1>5. /\ wslot' = [wslot EXCEPT ![leader] = IdleSlot]
      /\ rslot' = [rslot EXCEPT ![1] = PostedSlot(l)]
  BY DEF TakeEntry, Post
<1>6. \A p \in PId : /\ wslot'[p].phase = "idle" /\ rslot'[p].phase \in {"idle", "posted"}
                     /\ rslot'[p].phase = "posted" => rslot'[p].task = entry'
  BY <1>1, <1>3, <1>5, RoundSlots, IdleSlotType, PostedSlotType
<1>7. ValidCoordinatorLog'
  <2>1. wpc \notin {"votes", "commits"}
    BY <1>1, RoundSlots DEF Exchanging
  <2>2. \A t \in Txid : t < txid => clog[t] \in Executable(t)
    BY DEF SyncInv, ValidCoordinatorLog
  <2>3. \A t \in Txid : t < txid' => clog'[t] \in Executable(t)
    <3>1. CASE clog' = clog /\ txid' = txid
      BY <2>2, <3>1
    <3>2. CASE clog' = [clog EXCEPT ![minID] = l] /\ txid' = txid + 1 /\ txid = minID
      <4>1. clog'[minID] = l /\ \A t \in Txid : t # minID => clog'[t] = clog[t]
        BY <1>1, <3>2
      <4> QED BY <1>1, <1>2, <2>2, <3>2, <4>1
    <3> QED BY <1>4, <3>1, <3>2
  <2> QED BY <1>1, <2>1, <2>3 DEF ValidCoordinatorLog, Executable, CommittedEntry
<1>8. Counted'
  BY <1>1, RoundFacts DEF Counted, InRound
<1>9. Distribution'
  BY <1>1, <1>2, <1>4 DEF Distribution, Executable, CommittedEntry
<1>10. ASSUME NEW p \in PId PROVE WorkSync(p)' /\ TableSync(p)' /\ RecoverySync(p)'
  <2>1. /\ PSync(p) /\ TableNumber(p) = maxTxidTB[p] /\ ~executed(p)
        /\ TableNumber(p)' = maxTxidTB[p]
    BY <1>1, <1>6, RoundFacts, RoundSlots DEF TableNumber
  <2>2. WorkSync(p)'
    BY <1>1, <2>1 DEF PSync, WorkSync, WorkNumber
  <2>3. TableSync(p)'
    BY <1>1, <1>6, <2>1 DEF PSync, TableSync, InRound
  <2>4. RecoverySync(p)'
    BY <1>1, <2>1 DEF PSync, RecoverySync, InRound
  <2> QED BY <2>2, <2>3, <2>4
<1>11. wpc \notin Exchanging
  BY <1>1, RoundSlots
<1> QED BY <1>1, <1>6, <1>7, <1>8, <1>9, <1>10, <1>11, RoundSync

\* A leader that does not answer has been given up.
LEMMA LeaderLostSync ==
  ASSUME IInv, SyncInv, LeaderLost
  PROVE  SyncInv'
<1> USE DEF recoveryUnchanged, participantVars, workVars, stateVars
<1>1. /\ rpc = "ask" /\ rpc \in InRound /\ rpc' = "elect" /\ leader \in PId
      /\ UNCHANGED <<participantVars, workVars, stateVars, minID, maxID, leader, entry, fed,
                     tid, rslot>>
      /\ minID <= txid /\ wslot \in [PId -> Slot]
  BY DEF LeaderLost, InRound, IInv, TypeOK, Progress, SyncInv, Distribution
<1>2. pstate[leader] # "WORKING"
  <2>1. wslot[leader].phase = "done" /\ ~answered(leader) /\ PSync(leader)
    BY <1>1, RoundFacts DEF LeaderLost
  <2>2. wslot[leader].ret # "OK"
    BY <1>1, <2>1 DEF PSync, LeaderSync, answered, EmptyReply
  <2> QED BY <2>1, <2>2 DEF PSync, SlotSync
<1>3. \A p \in PId : wslot'[p].phase = "idle" /\ rslot'[p].phase = "idle"
  BY <1>1, RoundSlots, IdleSlotType DEF LeaderLost
<1>4. ValidCoordinatorLog'
  BY <1>1, SameCoordinatorLog
<1>5. Counted' /\ Distribution'
  BY <1>1, RoundFacts DEF Counted, Distribution, InRound
<1>6. ASSUME NEW p \in PId PROVE WorkSync(p)' /\ TableSync(p)' /\ RecoverySync(p)'
  <2>1. PSync(p) /\ TableNumber(p) = maxTxidTB[p] /\ TableNumber(p)' = maxTxidTB[p]
    BY <1>1, <1>3, RoundFacts, RoundSlots DEF TableNumber
  <2>2. WorkSync(p)'
    BY <1>1, <1>2, <2>1 DEF PSync, WorkSync
  <2>3. TableSync(p)'
    BY <1>1, <1>3, <2>1 DEF PSync, TableSync, InRound
  <2>4. RecoverySync(p)'
    BY <1>1, <2>1 DEF PSync, RecoverySync, InRound
  <2> QED BY <2>2, <2>3, <2>4
<1>7. wpc \notin Exchanging
  BY <1>1, RoundSlots
<1> QED BY <1>1, <1>3, <1>4, <1>5, <1>6, <1>7, RoundSync

LEMMA PushNextSync ==
  ASSUME IInv, SyncInv, PushNext
  PROVE  SyncInv'
<1> USE DEF recoveryUnchanged, participantVars, workVars, stateVars
<1>1. /\ rpc = "push" /\ rpc \in InRound /\ rpc' = rpc /\ rslot[fed].phase = "done"
      /\ fed' = fed + 1 /\ fed \in PId /\ fed + 1 \in PId /\ rslot \in [PId -> Slot]
      /\ entry \in Task
      /\ UNCHANGED <<participantVars, workVars, stateVars, minID, maxID, leader, entry,
                     tid, wslot>>
  BY TaskType DEF PushNext, InRound, IInv, TypeOK, Progress
<1>2. \A p \in PId : /\ wslot'[p].phase = "idle" /\ rslot[p].phase # "sent"
                     /\ rslot'[p].phase \in {"idle", "posted"}
                     /\ rslot'[p].phase = "posted" => rslot'[p].task = entry'
  BY <1>1, Pushing, IdleSlotType, PostedSlotType DEF PushNext
<1>3. ValidCoordinatorLog'
  BY <1>1, SameCoordinatorLog
<1>4. Counted' /\ Distribution'
  BY <1>1, RoundFacts DEF Counted, SyncInv, Distribution, InRound, Executable, CommittedEntry
<1>5. ASSUME NEW p \in PId PROVE WorkSync(p)' /\ TableSync(p)' /\ RecoverySync(p)'
  <2>1. /\ PSync(p) /\ TableNumber(p) = maxTxidTB[p] /\ TableNumber(p)' = maxTxidTB[p]
    BY <1>1, <1>2, RoundFacts DEF TableNumber
  <2>2. WorkSync(p)'
    BY <1>1, <2>1 DEF PSync, WorkSync, WorkNumber
  <2>3. TableSync(p)'
    BY <1>1, <1>2, <2>1 DEF PSync, TableSync, InRound
  <2>4. RecoverySync(p)'
    BY <1>1, <2>1 DEF PSync, RecoverySync, InRound
  <2> QED BY <2>2, <2>3, <2>4
<1>6. wpc \notin Exchanging
  BY <1>1, RoundSlots
<1> QED BY <1>1, <1>2, <1>3, <1>4, <1>5, <1>6, RoundSync

\* After the leader's last entry nobody is ahead any more, and the leader is
\* where the coordinator is.
LEMMA AskNextSync ==
  ASSUME IInv, SyncInv, AskNext
  PROVE  SyncInv'
<1> USE DEF recoveryUnchanged, participantVars, workVars, stateVars
<1>1. /\ rpc = "push" /\ rpc \in InRound /\ rslot[fed].phase = "done" /\ minID' = minID + 1
      /\ UNCHANGED <<participantVars, workVars, stateVars, maxID, leader, tid>>
      /\ leader \in PId /\ minID \in Txid /\ minID < txid /\ txid <= maxID + 1
      /\ maxID \in 0 .. MaxTxid /\ fed \in PId /\ rslot \in [PId -> Slot]
      /\ wslot \in [PId -> Slot] /\ txid \in TXID_START .. MaxTxid + 1
  BY DEF AskNext, InRound, IInv, TypeOK, Progress, SyncInv, Distribution
<1>2. /\ \/ /\ minID + 1 <= maxID /\ rpc' = "ask"
            /\ wslot' = [wslot EXCEPT ![leader] = PostedSlot(AskLog(minID + 1))]
         \/ ~(minID + 1 <= maxID) /\ rpc' = "elect" /\ wslot' = wslot
      /\ rslot' = [rslot EXCEPT ![fed] = IdleSlot]
  BY DEF AskNext
<1>3. rpc' = "ask" => AskLog(minID + 1) \in Task
  BY <1>1, <1>2, TaskType
<1>4. \A p \in PId : /\ wslot'[p].phase \in {"idle", "posted"} /\ rslot'[p].phase = "idle"
                     /\ rslot[p].phase # "sent"
  BY <1>1, <1>2, <1>3, Pushing, IdleSlotType, PostedSlotType
<1>5. ValidCoordinatorLog'
  BY <1>1, SameCoordinatorLog
<1>6. Counted'
  BY <1>1, <1>2, RoundFacts DEF Counted, InRound
<1>7. Distribution'
  BY <1>1, <1>2 DEF Distribution
<1>8. ASSUME NEW p \in PId PROVE WorkSync(p)' /\ TableSync(p)' /\ RecoverySync(p)'
  <2>1. /\ PSync(p) /\ TableNumber(p) = maxTxidTB[p] /\ TableNumber(p)' = maxTxidTB[p]
        /\ ~executed(p) /\ ~executed(p)'
    BY <1>1, <1>4, RoundFacts DEF TableNumber, executed, Exchanging
  <2>2. WorkSync(p)'
    <3>1. CASE rpc' = "ask"
      BY <1>1, <2>1, <3>1 DEF PSync, WorkSync, WorkNumber
    <3>2. CASE rpc' = "elect"
      <4>1. txid = maxID + 1
        BY <1>1, <1>2, <3>2
      <4>2. \A q \in PId : maxTxidTB[q] <= maxID /\ maxTxidTB[q] \in Int
        BY <1>1, RoundFacts DEF PSync, TableSync
      <4>3. ahead' = {}
        BY <1>1, <4>1, <4>2 DEF ahead
      <4> QED BY <1>1, <2>1, <3>2, <4>1, <4>3 DEF PSync, WorkSync, WorkNumber
    <3> QED BY <1>2, <3>1, <3>2
  <2>3. TableSync(p)'
    BY <1>1, <1>2, <1>4, <2>1 DEF PSync, TableSync, InRound
  <2>4. RecoverySync(p)'
    BY <1>1, <1>2, <2>1 DEF PSync, RecoverySync, InRound
  <2> QED BY <2>2, <2>3, <2>4
<1>9. wpc \notin Exchanging /\ rpc' \in {"ask", "elect"}
  BY <1>1, <1>2, RoundSlots
<1> QED BY <1>1, <1>4, <1>5, <1>6, <1>7, <1>8, <1>9, RoundSync

LEMMA ReplayLogSync ==
  ASSUME IInv, SyncInv, ReplayLog
  PROVE  SyncInv'
<1> USE DEF recoveryUnchanged, participantVars, workVars, stateVars
<1>1. /\ rpc = "elect" /\ rpc \in InRound /\ ahead = {} /\ tid' = TXID_START /\ fed' = 1
      /\ UNCHANGED <<participantVars, workVars, stateVars, entry, wslot>>
      /\ txid \in TXID_START .. MaxTxid + 1 /\ rslot \in [PId -> Slot]
  BY DEF ReplayLog, InRound, IInv, TypeOK
<1>2. \/ /\ TXID_START < txid /\ rpc' = "replay" /\ clog[TXID_START] \in Task
         /\ rslot' = [rslot EXCEPT ![1] = PostedSlot(clog[TXID_START])]
      \/ ~(TXID_START < txid) /\ rpc' = "mark" /\ rslot' = rslot
  BY <1>1, OwnEntry DEF ReplayLog, Post
<1>3. \A p \in PId :
        /\ wslot'[p].phase = "idle" /\ rslot'[p].phase \in {"idle", "posted"}
        /\ rpc' = "replay" /\ rslot'[p].phase = "posted" => rslot'[p].task = clog'[tid']
  BY <1>1, <1>2, RoundSlots, PostedSlotType
<1>4. ValidCoordinatorLog'
  BY <1>1, SameCoordinatorLog
<1>5. Counted' /\ Distribution'
  BY <1>1, <1>2, RoundFacts DEF Counted, Distribution, InRound
<1>6. ASSUME NEW p \in PId PROVE WorkSync(p)' /\ TableSync(p)' /\ RecoverySync(p)'
  <2>1. /\ PSync(p) /\ TableNumber(p) = maxTxidTB[p] /\ TableNumber(p)' = maxTxidTB[p]
        /\ ~executed(p) /\ ~executed(p)' /\ maxTxidTB[p] \in 0 .. MaxTxid
    BY <1>1, <1>3, RoundFacts, RoundSlots DEF TableNumber, executed, Exchanging
  <2>2. WorkSync(p)'
    BY <1>1, <1>2, <2>1 DEF PSync, WorkSync, WorkNumber
  <2>3. TableSync(p)'
    BY <1>1, <1>2, <1>3, <2>1 DEF PSync, TableSync, InRound
  <2>4. RecoverySync(p)'
    <3>1. SUFFICES ASSUME pstate[p] = "RECOVERY" PROVE RecoverySync(p)'
      BY <1>1 DEF RecoverySync
    <3>2. maxTxidTB[p] >= TXID_START - 1
      BY <1>1, <2>1, <3>1 DEF PSync, RecoverySync, IInv, Progress
    <3>3. maxTxidTB[p] <= txid - 1
      BY <1>1, <2>1 DEF ahead
    <3>4. fedUpTo(p)' = TXID_START - 1
      BY <1>1, <1>3 DEF fedUpTo
    <3> QED BY <1>1, <1>2, <2>1, <3>2, <3>3, <3>4 DEF RecoverySync, InRound
  <2> QED BY <2>2, <2>3, <2>4
<1>7. wpc \notin Exchanging
  BY <1>1, RoundSlots
<1> QED BY <1>1, <1>2, <1>3, <1>4, <1>5, <1>6, <1>7, RoundSync

\* An entry has reached everybody in recovery before the next one is pushed.
LEMMA ReplayNextSync ==
  ASSUME IInv, SyncInv, ReplayNext
  PROVE  SyncInv'
<1> USE DEF recoveryUnchanged, participantVars, workVars, stateVars
<1>1. /\ rpc = "replay" /\ rpc \in InRound /\ rslot[fed].phase = "done"
      /\ UNCHANGED <<participantVars, workVars, stateVars, minID, maxID, leader, entry, wslot>>
      /\ txid \in TXID_START .. MaxTxid + 1 /\ rslot \in [PId -> Slot]
      /\ fed \in PId /\ tid \in Txid /\ tid < txid /\ clog[tid] \in Task
  BY OwnEntry DEF ReplayNext, InRound, IInv, TypeOK, Progress
<1>2. \/ /\ fed < PNum /\ fed' = fed + 1 /\ tid' = tid /\ rpc' = "replay"
         /\ rslot' = [rslot EXCEPT ![fed] = IdleSlot, ![fed + 1] = PostedSlot(clog[tid])]
      \/ /\ fed = PNum /\ fed' = 1 /\ tid' = tid + 1 /\ rpc' = "replay" /\ clog[tid + 1] \in Task
         /\ rslot' = [p \in PId |-> IF p = 1 THEN PostedSlot(clog[tid + 1]) ELSE IdleSlot]
      \/ /\ fed = PNum /\ tid + 1 = txid /\ rpc' = "mark"
         /\ rslot' = [rslot EXCEPT ![fed] = IdleSlot]
  BY <1>1, OwnEntry DEF ReplayNext
<1>3. ASSUME NEW p \in PId
      PROVE  /\ wslot'[p].phase = "idle" /\ rslot'[p].phase \in {"idle", "posted"}
             /\ rpc' = "replay" /\ rslot'[p].phase = "posted" => rslot'[p].task = clog'[tid']
             /\ rslot[p].phase # "sent"
  <2>1. wslot[p].phase = "idle" /\ rslot[p].phase \in {"idle", "done"}
        /\ (p # fed => rslot[p].phase = "idle")
    BY <1>1, Pushing
  <2> QED BY <1>1, <1>2, <2>1, IdleSlotType, PostedSlotType
<1>4. ValidCoordinatorLog'
  BY <1>1, SameCoordinatorLog
<1>5. Counted' /\ Distribution'
  BY <1>1, <1>2, RoundFacts DEF Counted, Distribution, InRound
<1>6. ASSUME NEW p \in PId PROVE WorkSync(p)' /\ TableSync(p)' /\ RecoverySync(p)'
  <2>1. /\ PSync(p) /\ TableNumber(p) = maxTxidTB[p] /\ TableNumber(p)' = maxTxidTB[p]
        /\ ~executed(p) /\ ~executed(p)' /\ maxTxidTB[p] \in 0 .. MaxTxid
    BY <1>1, <1>3, RoundFacts DEF TableNumber, executed, Exchanging
  <2>2. WorkSync(p)'
    BY <1>1, <1>2, <2>1 DEF PSync, WorkSync, WorkNumber
  <2>3. TableSync(p)'
    BY <1>1, <1>2, <1>3, <2>1 DEF PSync, TableSync, InRound
  <2>4. RecoverySync(p)'
    <3>1. SUFFICES ASSUME pstate[p] = "RECOVERY" PROVE RecoverySync(p)'
      BY <1>1 DEF RecoverySync
    <3>2. maxTxidTB[p] # 0 /\ maxTxidTB[p] \in fedUpTo(p) .. txid - 1
      BY <1>1, <2>1, <3>1 DEF PSync, RecoverySync
    <3>3. p <= fed => fedUpTo(p) = tid
      BY <1>1 DEF fedUpTo
    <3>4. rslot'[p].phase # "done"
      BY <1>3
    <3>5. rpc' = "replay" => fedUpTo(p)' <= fedUpTo(p) /\ fedUpTo(p)' \in Int /\ fedUpTo(p) \in Int
      BY <1>1, <1>2, <3>3, <3>4 DEF fedUpTo
    <3>6. rpc' = "mark" => maxTxidTB[p] = txid - 1
      BY <1>1, <1>2, <2>1, <3>2, <3>3
    <3> QED BY <1>1, <1>2, <2>1, <3>2, <3>5, <3>6 DEF RecoverySync, InRound
  <2> QED BY <2>2, <2>3, <2>4
<1>7. wpc \notin Exchanging
  BY <1>1, RoundSlots
<1> QED BY <1>1, <1>2, <1>3, <1>4, <1>5, <1>6, <1>7, RoundSync

\* At the end of a round everybody who is in recovery is up to date.
LEMMA MarkWorkingSync ==
  ASSUME IInv, SyncInv, MarkWorking
  PROVE  SyncInv'
<1> USE DEF recoveryUnchanged, participantVars, workVars
<1>1. /\ rpc = "mark" /\ rpc \in InRound /\ rpc' = "finish" /\ tmpNum' = 0
      /\ pstate' = [p \in PId |-> IF p \in Known /\ maxTxidTB[p] = txid - 1
                                  THEN "WORKING" ELSE pstate[p]]
      /\ UNCHANGED <<participantVars, workVars, txid, clog, maxTxidTB, maxID, entry, fed,
                     tid, wslot, rslot>>
  BY DEF MarkWorking, InRound
<1>2. \A p \in PId : wslot'[p].phase = "idle" /\ rslot'[p].phase = "idle"
  BY <1>1, RoundSlots
<1>3. ValidCoordinatorLog'
  BY <1>1, SameCoordinatorLog
<1>4. Counted'
  <2>1. {p \in PId : pstate'[p] = "TEMP"} = {}
    BY <1>1, RoundFacts
  <2> QED BY <1>1, <2>1, FS_EmptySet DEF Counted, InRound
<1>5. Distribution'
  BY <1>1 DEF Distribution
<1>6. ASSUME NEW p \in PId PROVE WorkSync(p)' /\ TableSync(p)' /\ RecoverySync(p)'
  <2>1. /\ PSync(p) /\ TableNumber(p) = maxTxidTB[p] /\ ~executed(p) /\ ~executed(p)'
        /\ maxTxidTB[p] \in 0 .. MaxTxid /\ ptxid[p] \in TXID_START .. MaxTxid + 1
        /\ txid \in TXID_START .. MaxTxid + 1
    BY <1>1, <1>2, RoundFacts, RoundSlots DEF executed, Exchanging
  <2>2. WorkSync(p)'
    <3>1. CASE p \in Known /\ maxTxidTB[p] = txid - 1
      <4>1. link[p] = "up" => ptxid[p] - 1 = maxTxidTB[p]
        BY <1>1, <2>1, <3>1 DEF PSync, TableSync, Known, InRound
      <4> QED BY <1>1, <2>1, <3>1, <4>1 DEF WorkSync, WorkNumber
    <3>2. CASE ~(p \in Known /\ maxTxidTB[p] = txid - 1)
      BY <1>1, <2>1, <3>2 DEF PSync, WorkSync, WorkNumber
    <3> QED BY <3>1, <3>2
  <2>3. TableSync(p)'
    BY <1>1 DEF TableSync, InRound
  <2>4. RecoverySync(p)'
    BY <1>1, <2>1 DEF PSync, RecoverySync, Known
  <2> QED BY <2>2, <2>3, <2>4
<1>7. wpc \notin Exchanging
  BY <1>1, RoundSlots
<1> QED BY <1>1, <1>2, <1>3, <1>4, <1>5, <1>6, <1>7, RoundSync

LEMMA RecoveryStepSync ==
  ASSUME IInv, SyncInv, recovery
  PROVE  SyncInv'
<1>1. ASSUME StartRecovery \/ SuspendWork \/ LockRecovery \/ ResumeWork
      PROVE  SyncInv'
  <2> USE DEF recoveryUnchanged, participantVars, workVars, stateVars
  <2>1. /\ rpc \notin InRound /\ rpc' \notin InRound
        /\ UNCHANGED <<participantVars, workVars, txid, clog, pstate, tmpNum, wslot, rslot>>
    BY <1>1 DEF StartRecovery, SuspendWork, LockRecovery, ResumeWork, InRound
  <2>2. rpc' \in {"wait", "lockRecovery", "lockWorking"} => minID' < txid
    BY <1>1 DEF StartRecovery, SuspendWork, LockRecovery, ResumeWork, SyncInv, Distribution,
       IInv, TypeOK
  <2> QED BY <2>1, <2>2, RecoveryAloneSync
<1> QED BY <1>1, QueryAllSync, BuildTableSync, ElectLeaderSync, TakeEntrySync,
   LeaderLostSync, PushNextSync, AskNextSync, ReplayLogSync, ReplayNextSync, MarkWorkingSync
   DEF recovery

-----------------------------------------------------------------------------
(***************************************************************************)
(* The coordinator starts, and starts again.                               *)
(***************************************************************************)
\* A coordinator with empty memory knows nobody, and nobody is connected.
LEMMA FreshSync ==
  ASSUME rpc = "start", wpc = "accept", txid = TXID_START, tmpNum = 0,
         \A p \in PId : /\ pstate[p] = "WAITING" /\ ValidLog(p)
                        /\ wslot[p] = IdleSlot /\ rslot[p] = IdleSlot
  PROVE  SyncInv
<1>1. ValidCoordinatorLog /\ Distribution
  BY DEF ValidCoordinatorLog, Distribution
<1>2. Counted
  <2>1. {p \in PId : pstate[p] = "TEMP"} = {}
    OBVIOUS
  <2> QED BY <2>1, FS_EmptySet DEF Counted, InRound
<1>3. ASSUME NEW p \in PId PROVE PSync(p)
  <2>1. wslot[p].phase = "idle" /\ rslot[p].phase = "idle"
    BY IdleSlotType
  <2> QED BY <2>1 DEF PSync, SlotSync, CommitSync, LeaderSync, WorkSync, TableSync,
     RecoverySync, InRound
<1> QED BY <1>1, <1>2, <1>3 DEF SyncInv

LEMMA InitSync == Init => SyncInv
<1> SUFFICES ASSUME Init PROVE SyncInv
  OBVIOUS
<1>1. /\ rpc = "start" /\ wpc = "accept" /\ txid = TXID_START /\ tmpNum = 0
      /\ \A p \in PId : /\ pstate[p] = "WAITING" /\ ptxid[p] = TXID_START
                        /\ wslot[p] = IdleSlot /\ rslot[p] = IdleSlot
  BY DEF Init, ParticipantInit, CoordinatorInit
<1>2. \A p \in PId : ValidLog(p)
  BY <1>1 DEF ValidLog
<1> QED BY <1>1, <1>2, FreshSync

LEMMA CrashCoordinatorSync ==
  ASSUME IInv, SyncInv, CrashCoordinator
  PROVE  SyncInv'
<1>1. ValidCoordinatorLog' /\ Distribution'
  BY DEF CrashCoordinator, ValidCoordinatorLog, Distribution
<1>2. Counted'
  <2>1. {p \in PId : pstate'[p] = "TEMP"} = {}
    BY DEF CrashCoordinator
  <2> QED BY <2>1, FS_EmptySet DEF CrashCoordinator, Counted, InRound
<1>3. ASSUME NEW p \in PId PROVE PSync(p)'
  <2>1. /\ wslot'[p].phase = "idle" /\ rslot'[p].phase = "idle" /\ rpc' = "start"
        /\ wpc' = "accept" /\ pstate'[p] = "WAITING"
    BY IdleSlotType DEF CrashCoordinator
  <2>2. ValidLog(p)'
    BY DEF CrashCoordinator, SyncInv, PSync, ValidLog, Executable, CommittedEntry
  <2> QED BY <2>1, <2>2 DEF PSync, SlotSync, CommitSync, LeaderSync, WorkSync, TableSync,
     RecoverySync, InRound
<1> QED BY <1>1, <1>2, <1>3 DEF SyncInv

LEMMA StutterSync ==
  ASSUME IInv, SyncInv, UNCHANGED vars
  PROVE  SyncInv'
<1> USE DEF vars, participantVars, workVars, recoveryVars, lockVars, stateVars
<1>1. \A q \in PId : PSync(q)'
  BY OtherSync DEF SyncInv, SameParticipant
<1>2. ValidCoordinatorLog' /\ Counted' /\ Distribution'
  BY DEF SyncInv, ValidCoordinatorLog, Counted, Distribution, Executable, CommittedEntry
<1> QED BY <1>1, <1>2 DEF SyncInv

-----------------------------------------------------------------------------
(***************************************************************************)
(* Theorems                                                                *)
(***************************************************************************)
LEMMA NextSync ==
  ASSUME IInv, SyncInv, [Next]_vars
  PROVE  SyncInv'
<1>1. ASSUME NEW p \in PId, keepAlive(p) PROVE SyncInv'
  BY <1>1, ReconnectSync, MarkTempSync DEF keepAlive
<1>2. ASSUME NEW p \in PId, pWorking(p) PROVE SyncInv'
  BY <1>2, PWSkipSync, PWSendSync, PWReceiveSync, PWFailSync, PWGiveUpSync DEF pWorking
<1>3. ASSUME NEW p \in PId, pRecovery(p) PROVE SyncInv'
  BY <1>3, PRSkipSync, PRSendSync, PRReceiveSync, PRFailSync, PRGiveUpSync DEF pRecovery
<1>4. ASSUME NEW p \in PId, participant(p) \/ crash(p) \/ restart(p) PROVE SyncInv'
  BY <1>4, PWorkingSync, LinkLost DEF participant, crash, restart
<1> QED BY <1>1, <1>2, <1>3, <1>4, WorkStepSync, RecoveryStepSync, CrashCoordinatorSync,
   StutterSync DEF Next

\* The two invariants together are inductive.
THEOREM SyncInvariance == Spec => [](IInv /\ SyncInv)
<1>1. Init => SyncInv
  BY InitSync
<1>2. IInv /\ SyncInv /\ [Next]_vars => SyncInv'
  BY NextSync
<1> QED BY <1>1, <1>2, Invariant, PTL DEF Spec

\* Outside of a round _tmpNum is the number of reconnected participants
\* (coordinator.cc:413): recovery is woken for every one of them, however many
\* there are and whenever they come back.
THEOREM TempCounting == Spec => []TempCounted
<1>1. IInv /\ SyncInv => TempCounted
  BY DEF TempCounted, IInv, Locks, SyncInv, Counted
<1> QED BY <1>1, SyncInvariance, PTL

\* While nobody holds _workingMutex, every connected participant that gets
\* requests is at the transaction the coordinator counts (coordinator.cc:406-411).
THEOREM InSync == Spec => []WorkingInSync
<1>1. IInv /\ SyncInv => WorkingInSync
  <2>1. ASSUME IInv, SyncInv, workingMutex = "free"
        PROVE  rpc \notin InRound /\ wpc # "commits"
    BY <2>1 DEF IInv, Locks
  <2> QED BY <2>1, NotYetCommitted DEF WorkingInSync
<1> QED BY <1>1, SyncInvariance, PTL

\* A round of recovery ends with nobody left in P_RECOVERY: whoever was not
\* lost is up to date and works again (coordinator.cc:406-411).
THEOREM NobodyLeftBehind == Spec => []NoneLeftBehind
<1>1. IInv /\ SyncInv => NoneLeftBehind
  BY DEF SyncInv, PSync, RecoverySync, NoneLeftBehind, InRound
<1> QED BY <1>1, SyncInvariance, PTL

-----------------------------------------------------------------------------
(***************************************************************************)
(* What a step leaves alone.                                               *)
(***************************************************************************)
LEMMA OtherAgree ==
  ASSUME NEW q \in PId, PAgree(q), SameParticipant(q),
         UNCHANGED <<workVars, recoveryVars, txid, clog>>
  PROVE  PAgree(q)'
<1> USE DEF workVars, recoveryVars, SameParticipant
<1>1. Fresh(q)' BY DEF PAgree, Fresh
<1>2. NotAhead(q)' BY DEF PAgree, NotAhead
<1>3. Agrees(q)' BY DEF PAgree, Agrees, justCommitted, executed, WellFormed
<1> QED BY <1>1, <1>2, <1>3 DEF PAgree

LEMMA LocalAgree ==
  ASSUME AgreeInv, NEW p \in PId, PAgree(p)',
         \A q \in PId : q # p => SameParticipant(q),
         UNCHANGED <<workVars, recoveryVars, txid, clog>>
  PROVE  AgreeInv'
<1>1. \A q \in PId : PAgree(q)'
  BY OtherAgree DEF AgreeInv
<1> QED BY <1>1 DEF AgreeInv, recoveryVars

\* Whoever has not just committed is not ahead.
LEMMA NotCommitted ==
  ASSUME IInv, SyncInv, AgreeInv, NEW p \in PId
  PROVE  /\ PAgree(p) /\ PInv(p) /\ PSync(p)
         /\ ptxid[p] \in TXID_START .. MaxTxid + 1 /\ txid \in TXID_START .. MaxTxid + 1
         /\ wslot[p].phase = "idle" \/ rslot[p].phase = "idle"
         /\ pstate[p] # "WORKING" \/ ~executed(p) => ptxid[p] <= txid
BY OnePart DEF AgreeInv, PAgree, Agrees, justCommitted

-----------------------------------------------------------------------------
(***************************************************************************)
(* The threads of a participant                                            *)
(***************************************************************************)
\* A step of the coordinator's threads for p that leaves p alone and does not
\* end a commit for it.
LEMMA SlotAgree ==
  ASSUME IInv, SyncInv, AgreeInv, NEW p \in PId,
         \A q \in PId : q # p => SameParticipant(q),
         UNCHANGED <<workVars, recoveryVars, txid, clog>>,
         ptxid'[p] = ptxid[p], plog'[p] = plog[p],
         Fresh(p)', NotAhead(p)',
         pstate[p] = "WORKING" /\ executed(p) /\ ptxid[p] # TXID_START =>
           pstate'[p] = "WORKING" /\ executed(p)'
  PROVE  AgreeInv'
<1> USE DEF workVars, recoveryVars
<1>1. Agrees(p)'
  BY NotCommitted DEF PAgree, Agrees, justCommitted
<1> QED BY <1>1, LocalAgree DEF PAgree

LEMMA KeepAliveAgree ==
  ASSUME IInv, SyncInv, AgreeInv, NEW p \in PId, keepAlive(p)
  PROVE  AgreeInv'
<1> USE DEF Connect, participantVars, workVars, recoveryVars, lockVars, stateVars
<1>1. /\ pstate[p] = "WAITING" /\ pstate'[p] \in {"WAITING", "TEMP"}
      /\ link'[p] # "half" /\ ptxid' = ptxid /\ plog' = plog
      /\ UNCHANGED <<resp, wslot, rslot, maxTxidTB, workVars, recoveryVars, txid, clog>>
  BY NotCommitted DEF keepAlive, Reconnect, MarkTemp, IInv, TypeOK, ParticipantTypeOK,
     PInv, ActiveState, PAgree, Fresh
<1>2. \A q \in PId : q # p => SameParticipant(q)
  BY DEF keepAlive, Reconnect, MarkTemp, IInv, TypeOK, ParticipantTypeOK, SameParticipant
<1>3. Fresh(p)' /\ NotAhead(p)'
  BY <1>1, NotCommitted DEF PAgree, Fresh, NotAhead
<1> QED BY <1>1, <1>2, <1>3, SlotAgree

LEMMA PWorkingThreadAgree ==
  ASSUME IInv, SyncInv, AgreeInv, ~Timeouts, NEW p \in PId, pWorking(p)
  PROVE  AgreeInv'
<1> USE DEF pwUnchanged, participantVars, workVars, recoveryVars, lockVars
<1>1. \A q \in PId : q # p => SameParticipant(q)
  BY DEF pWorking, PWSkip, PWSend, PWReceive, PWFail, PWGiveUp, Deliver, TakeReply,
     CloseLink, IInv, TypeOK, ParticipantTypeOK, SameParticipant
<1>2. CASE PWSkip(p)
  <2>1. Fresh(p)' /\ NotAhead(p)'
    BY <1>2, NotCommitted DEF PWSkip, PAgree, Fresh, NotAhead
  <2> QED BY <1>1, <1>2, <2>1, SlotAgree DEF PWSkip
<1>3. CASE PWSend(p)
  <2>1. Fresh(p)' /\ NotAhead(p)'
    BY <1>3, NotCommitted DEF PWSend, Deliver, PAgree, Fresh, NotAhead
  <2>2. ~executed(p)
    BY <1>3 DEF PWSend, executed
  <2> QED BY <1>1, <1>3, <2>1, <2>2, SlotAgree DEF PWSend, Deliver
<1>4. CASE PWReceive(p)
  <2>1. wslot[p].phase = "sent" /\ wslot'[p].phase = "done" /\ rslot[p].phase = "idle"
    <3>1. resp[p] \in Reply \cup {None} /\ wslot \in [PId -> Slot]
      BY DEF IInv, TypeOK, ParticipantTypeOK
    <3> QED BY <1>4, <3>1, DoneSlotType, NotCommitted DEF PWReceive, Ret
  <2>2. Fresh(p)' /\ NotAhead(p)'
    BY <1>4, <2>1, NotCommitted DEF PWReceive, TakeReply, PAgree, Fresh, NotAhead
  <2>3. executed(p) => executed(p)'
    BY <1>4, <2>1 DEF PWReceive, executed, WellFormed
  <2> QED BY <1>1, <1>4, <2>2, <2>3, SlotAgree DEF PWReceive, TakeReply
<1>5. CASE PWFail(p)
  <2>1. link[p] # "up" /\ link'[p] = link[p] /\ ptxid[p] = TXID_START /\ resp'[p] = None
    BY <1>5, NotCommitted DEF PWFail, SendFails, RecvFails, CloseLink, PAgree, Fresh,
       IInv, TypeOK, ParticipantTypeOK
  <2>2. Fresh(p)' /\ NotAhead(p)'
    BY <1>5, <2>1, NotCommitted DEF PWFail, CloseLink, PAgree, Fresh, NotAhead
  <2> QED BY <1>1, <1>5, <2>1, <2>2, SlotAgree DEF PWFail, CloseLink
<1>6. CASE PWGiveUp(p)
  <2>1. link[p] # "up" /\ ptxid[p] = TXID_START
    BY <1>6, NotCommitted DEF PWGiveUp, PSync, SlotSync, PAgree, Fresh
  <2>2. Fresh(p)' /\ NotAhead(p)'
    BY <1>6, <2>1, NotCommitted DEF PWGiveUp, PAgree, Fresh, NotAhead
  <2> QED BY <1>1, <1>6, <2>1, <2>2, SlotAgree DEF PWGiveUp
<1> QED BY <1>2, <1>3, <1>4, <1>5, <1>6 DEF pWorking

\* An entry that is replayed is older than the coordinator's next one.
LEMMA PRReceiveAgree ==
  ASSUME IInv, SyncInv, AgreeInv, NEW p \in PId, PRReceive(p)
  PROVE  AgreeInv'
<1> USE DEF PRReceive, TakeReply, prUnchanged, workVars, recoveryVars, lockVars
<1>1. \A q \in PId : q # p => SameParticipant(q)
  BY DEF IInv, TypeOK, ParticipantTypeOK, SameParticipant
<1>2. /\ rslot[p].phase = "sent" /\ wslot[p].phase = "idle" /\ rpc \in {"query", "replay"}
      /\ resp[p] # None /\ resp[p] \in Reply /\ resp'[p] = None
      /\ rslot'[p].phase = "done" /\ rslot'[p].data = resp[p]
  <2>1. resp[p] \in Reply /\ resp'[p] = None /\ rslot'[p] = DoneSlot("OK", resp[p])
    BY DEF IInv, TypeOK, ParticipantTypeOK
  <2>2. DoneSlot("OK", resp[p]).phase = "done" /\ DoneSlot("OK", resp[p]).data = resp[p]
    BY <2>1, DoneSlotType DEF Ret
  <2>3. wslot[p].phase = "idle" /\ rpc \in {"query", "replay"}
    BY NotCommitted, PushedTask DEF AgreeInv
  <2> QED BY <2>1, <2>2, <2>3
<1>3. maxTxidTB'[p] < txid
  <2>1. maxTxidTB'[p] \in {maxTxidTB[p], maxTxidTB[p] + 1} /\ maxTxidTB[p] \in 0 .. MaxTxid
    BY DEF IInv, TypeOK
  <2>2. CASE rpc = "query"
    BY <1>2, <2>1, <2>2, NotCommitted DEF PInv, RecoveryTask
  <2>3. CASE rpc = "replay"
    <3>1. maxTxidTB[p] + 1 = tid /\ tid < txid /\ tid \in Txid
      BY <1>2, <2>3, PushedTask, ExecutableEntry, OnePart
    <3> QED BY <2>1, <3>1, NotCommitted
  <2> QED BY <1>2, <2>2, <2>3
<1>4. Fresh(p)' /\ NotAhead(p)'
  BY <1>2, <1>3, NotCommitted DEF PAgree, Fresh, NotAhead
<1>5. ~executed(p)
  BY <1>2 DEF executed
<1> QED BY <1>1, <1>4, <1>5, SlotAgree

LEMMA PRecoveryThreadAgree ==
  ASSUME IInv, SyncInv, AgreeInv, ~Timeouts, NEW p \in PId, pRecovery(p)
  PROVE  AgreeInv'
<1> USE DEF prUnchanged, participantVars, workVars, recoveryVars, lockVars
<1>1. \A q \in PId : q # p => SameParticipant(q)
  BY DEF pRecovery, PRSkip, PRSend, PRReceive, PRFail, PRGiveUp, Deliver, TakeReply,
     CloseLink, IInv, TypeOK, ParticipantTypeOK, SameParticipant
<1>2. CASE PRSkip(p)
  <2>1. rslot'[p].phase = "done" /\ rslot'[p].ret = "SKIP"
    BY <1>2, DoneSlotType DEF PRSkip, IInv, TypeOK, Ret
  <2>2. Fresh(p)' /\ NotAhead(p)'
    BY <1>2, <2>1, NotCommitted DEF PRSkip, PAgree, Fresh, NotAhead
  <2> QED BY <1>1, <1>2, <2>2, SlotAgree DEF PRSkip, executed, WellFormed
<1>3. CASE PRSend(p)
  <2>1. resp'[p] = None /\ rslot'[p].phase = "sent"
    <3>1. wslot[p].phase = "idle" /\ rslot \in [PId -> Slot]
      BY <1>3, NotCommitted DEF PRSend, IInv, TypeOK
    <3> QED BY <1>3, <3>1, NotCommitted DEF PRSend, Deliver, PInv, Channel, Slot
  <2>2. Fresh(p)' /\ NotAhead(p)'
    BY <1>3, <2>1, NotCommitted DEF PRSend, Deliver, PAgree, Fresh, NotAhead
  <2> QED BY <1>1, <1>3, <2>2, SlotAgree DEF PRSend, Deliver, executed, WellFormed
<1>4. CASE PRFail(p)
  <2>1. /\ link[p] # "up" /\ link'[p] = link[p] /\ ptxid[p] = TXID_START
        /\ rslot'[p].phase = "closing"
    BY <1>4, NotCommitted DEF PRFail, SendFails, RecvFails, CloseLink, PAgree, Fresh,
       IInv, TypeOK, ParticipantTypeOK, IdleSlot
  <2>2. Fresh(p)' /\ NotAhead(p)'
    BY <1>4, <2>1, NotCommitted DEF PRFail, CloseLink, PAgree, Fresh, NotAhead
  <2> QED BY <1>1, <1>4, <2>1, <2>2, SlotAgree DEF PRFail, CloseLink
<1>5. CASE PRGiveUp(p)
  <2>1. link[p] # "up" /\ ptxid[p] = TXID_START
    BY <1>5, NotCommitted DEF PRGiveUp, PSync, SlotSync, PAgree, Fresh
  <2>2. rslot'[p].phase = "done" /\ rslot'[p].ret = "FAIL" /\ maxTxidTB'[p] = 0
    BY <1>5, DoneSlotType DEF PRGiveUp, IInv, TypeOK, Ret
  <2>3. Fresh(p)' /\ NotAhead(p)'
    BY <1>5, <2>1, <2>2, NotCommitted DEF PRGiveUp, PAgree, Fresh, NotAhead
  <2> QED BY <1>1, <1>5, <2>1, <2>3, SlotAgree DEF PRGiveUp
<1> QED BY <1>2, <1>3, <1>4, <1>5, PRReceiveAgree DEF pRecovery

-----------------------------------------------------------------------------
(***************************************************************************)
(* Participants                                                            *)
(***************************************************************************)
\* Without timeouts a task is executed only on a working connection.
LEMMA PWorkingAgree ==
  ASSUME IInv, SyncInv, AgreeInv, NEW p \in PId, PWorking(p), UNCHANGED coordinatorVars
  PROVE  AgreeInv'
<1> DEFINE l == req[p]
<1> USE DEF coordinatorVars, workVars, recoveryVars, lockVars, stateVars
<1>1. \A q \in PId : q # p => SameParticipant(q)
  BY DEF PWorking, IInv, TypeOK, ParticipantTypeOK, SameParticipant
<1>2. /\ link[p] = "up" /\ link'[p] = "up" /\ l \in Task /\ resp[p] = None
      /\ resp'[p] # None /\ pstate' = pstate
      /\ ptxid'[p] = IF logsTask(p, l) THEN ptxid[p] + 1 ELSE ptxid[p]
      /\ plog'[p] = IF logsTask(p, l) THEN [plog[p] EXCEPT ![l.ID] = l] ELSE plog[p]
      /\ plog[p] \in [Txid -> LogEntry \cup {None}]
  <2>1. link[p] = "up"
    BY NotCommitted DEF PWorking, PAgree, Fresh
  <2>2. /\ plog'[p] = IF logsTask(p, l) THEN [plog[p] EXCEPT ![l.ID] = l] ELSE plog[p]
        /\ plog[p] \in [Txid -> LogEntry \cup {None}]
    BY DEF PWorking, IInv, TypeOK, ParticipantTypeOK
  <2> QED BY <2>1, <2>2, PWorkingEffect
<1>3. /\ \/ wslot[p].phase = "sent" /\ l = wslot[p].task
         \/ rslot[p].phase = "sent" /\ l = rslot[p].task
      /\ wslot[p].phase = "sent" => pstate[p] = "WORKING"
      /\ rslot[p].phase = "sent" => pstate[p] = "RECOVERY"
  BY <1>2, TaskOnItsWay, NotCommitted DEF PWorking, PInv, ActiveState
<1>4. ptxid[p] <= txid
  BY <1>2, <1>3, NotCommitted DEF executed
<1>5. Fresh(p)'
  BY <1>2, <1>3 DEF Fresh
<1>6. CASE wslot[p].phase = "sent"
  <2>1. rslot[p].phase = "idle" /\ rpc # "query" /\ ptxid[p] = txid
    BY <1>2, <1>3, <1>6, NotCommitted DEF PSync, WorkSync, WorkNumber, executed, AgreeInv
  <2>2. NotAhead(p)'
    BY <2>1, NotCommitted DEF PAgree, NotAhead
  <2>3. ASSUME ~logsTask(p, l) PROVE Agrees(p)'
    BY <1>2, <2>1, <2>3, NotCommitted DEF PAgree, Agrees
  <2>4. ASSUME logsTask(p, l) PROVE Agrees(p)'
    <3>1. l.ID = txid /\ l.state = "COMMIT" /\ WellFormed(l.event)
      BY <2>1, <2>4, Execution DEF logsTask, commits
    <3>2. wpc = "commits" /\ l = Log(txid, "COMMIT", cmd)
      BY <1>3, <1>6, <2>1, <3>1, NotCommitted
         DEF PInv, SlotUse, WorkTask, AgreeInv, Log, AskLog, SUPER_TXID
    <3>3. l.event = cmd
      BY <3>2 DEF Log
    <3>4. txid \in Txid
      BY <3>2 DEF IInv, TypeOK, CoordinatorLog
    <3>5. /\ ptxid'[p] = txid + 1 /\ plog'[p][txid].event = cmd
          /\ \A t \in Txid : t < txid => plog'[p][t] = plog[p][t]
      BY <1>2, <2>1, <2>4, <3>1, <3>3, <3>4
    <3>6. justCommitted(p)'
      BY <1>2, <1>3, <1>6, <3>1, <3>2, <3>3, <3>5 DEF justCommitted, executed, WellFormed
    <3> QED BY <2>1, <3>5, <3>6, NotCommitted DEF PAgree, Agrees
  <2>5. Agrees(p)'
    BY <2>3, <2>4
  <2> QED BY <1>1, <1>5, <2>2, <2>5, LocalAgree DEF PAgree
<1>7. CASE rslot[p].phase = "sent"
  <2>1. /\ l = rslot[p].task /\ rpc \in {"query", "replay"}
        /\ wslot[p].phase = "idle"
    BY <1>3, <1>7, NotCommitted, PushedTask DEF AgreeInv
  <2>2. TableSync(p)'
    BY <1>2, <1>7, RecoveryTaskEffect
  <2>3. CASE ~logsTask(p, l)
    <3>1. NotAhead(p)'
      BY <1>2, <1>4, <1>7, <2>2, <2>3, NotCommitted DEF PAgree, NotAhead, TableSync
    <3>2. Agrees(p)'
      BY <1>2, <1>4, <2>3, NotCommitted DEF PAgree, Agrees
    <3> QED BY <1>1, <1>5, <3>1, <3>2, LocalAgree DEF PAgree
  <2>4. CASE logsTask(p, l)
    <3>1. rpc = "replay" /\ l.ID = ptxid[p]
      BY <2>1, <2>4, <1>7, PushedTask, NotCommitted DEF logsTask, commits, RECOVERY_TXID
    <3>2. l = clog[tid] /\ tid \in Txid /\ tid < txid /\ l.ID = tid
      BY <1>7, <2>1, <3>1, PushedTask, ExecutableEntry, OnePart DEF PSync, SlotSync
    <3>3. /\ ptxid'[p] = tid + 1 /\ plog'[p][tid] = clog[tid]
          /\ \A t \in Txid : t < tid => plog'[p][t] = plog[p][t]
      BY <1>2, <2>4, <3>1, <3>2
    <3>4. Agrees(p)'
      BY <3>1, <3>2, <3>3, NotCommitted DEF PAgree, Agrees
    <3>5. NotAhead(p)'
      BY <3>1, NotCommitted DEF PAgree, NotAhead
    <3> QED BY <1>1, <1>5, <3>4, <3>5, LocalAgree DEF PAgree
  <2> QED BY <2>3, <2>4
<1> QED BY <1>3, <1>6, <1>7

\* Whoever dies returns with nothing.
LEMMA LinkLostAgree ==
  ASSUME IInv, SyncInv, AgreeInv, NEW p \in PId, PKeepAlive(p) \/ PCrash(p) \/ PRestart(p),
         UNCHANGED coordinatorVars
  PROVE  AgreeInv'
<1> USE DEF coordinatorVars, workVars, recoveryVars, lockVars, stateVars
<1>1. \A q \in PId : q # p => SameParticipant(q)
  BY DEF PKeepAlive, PCrash, PRestart, IInv, TypeOK, ParticipantTypeOK, SameParticipant
<1>2. ptxid'[p] = TXID_START /\ link'[p] \notin {"up", "half"} /\ resp' = resp
  BY NotCommitted DEF PKeepAlive, PCrash, PRestart, PAgree, Fresh, IInv, TypeOK,
     ParticipantTypeOK
<1>3. Fresh(p)' /\ NotAhead(p)'
  BY <1>2, NotCommitted DEF PAgree, Fresh, NotAhead
<1>4. Agrees(p)'
  BY <1>2, NotCommitted DEF Agrees
<1> QED BY <1>1, <1>3, <1>4, LocalAgree DEF PAgree

-----------------------------------------------------------------------------
(***************************************************************************)
(* work                                                                    *)
(***************************************************************************)
\* Outside of the second phase of a commit nobody is ahead, so that what work
\* writes to the log beyond its last transaction concerns nobody.
LEMMA WorkAloneAgree ==
  ASSUME IInv, SyncInv, AgreeInv, wpc # "commits",
         txid' = txid, \A t \in Txid : t < txid => clog'[t] = clog[t],
         UNCHANGED <<participantVars, recoveryVars, pstate, maxTxidTB, rslot>>
  PROVE  AgreeInv'
<1> USE DEF participantVars, recoveryVars
<1>1. ASSUME NEW p \in PId PROVE PAgree(p)'
  <2>1. ptxid[p] <= txid
    BY NotCommitted DEF executed
  <2> QED BY <2>1, NotCommitted DEF PAgree, Fresh, NotAhead, Agrees
<1> QED BY <1>1 DEF AgreeInv

\* Whoever has executed a transaction makes it count, and it counts as the
\* command he has executed.
LEMMA CollectCommitsAgree ==
  ASSUME IInv, SyncInv, AgreeInv, CollectCommits
  PROVE  AgreeInv'
<1> USE DEF workUnchanged, participantVars, recoveryVars
<1>1. /\ wpc = "commits" /\ txid \in Txid /\ rpc \notin InRound
      /\ clog \in [Txid -> LogEntry \cup {None}]
      /\ clog[txid] \in LogEntry /\ clog[txid].event = cmd
  BY DEF CollectCommits, IInv, TypeOK, Locks, CoordinatorLog, SyncInv, ValidCoordinatorLog
<1>2. ASSUME NEW p \in PId, ptxid[p] > txid
      PROVE  committers # {} /\ ptxid[p] = txid + 1 /\ plog[p][txid].event = cmd
  <2>1. pstate[p] = "WORKING" /\ executed(p) /\ wslot[p].phase = "done"
    BY <1>2, NotCommitted DEF CollectCommits, AllDone
  <2>2. wslot[p].ret = "OK" /\ wslot[p].data # ErrorReply
    BY <1>1, <2>1, NotCommitted DEF PSync, SlotSync, CommitSync, executed
  <2> QED BY <1>2, <2>2, NotCommitted DEF committers, PAgree, Agrees, justCommitted
<1>3. ASSUME NEW p \in PId PROVE Fresh(p)'
  BY NotCommitted DEF CollectCommits, PAgree, Fresh
<1>4. CASE committers # {}
  <2>1. /\ clog' = [clog EXCEPT ![txid] = [clog[txid] EXCEPT !.state = "COMMIT"]]
        /\ txid' = txid + 1
    BY <1>4 DEF CollectCommits
  <2>2. [clog[txid] EXCEPT !.state = "COMMIT"].event = cmd
    BY <1>1 DEF LogEntry, Task
  <2>3. clog'[txid].event = cmd /\ \A t \in Txid : t < txid => clog'[t] = clog[t]
    BY <1>1, <2>1, <2>2
  <2>4. ASSUME NEW p \in PId PROVE NotAhead(p)'
    <3>1. maxTxidTB'[p] = maxTxidTB[p] /\ maxTxidTB[p] \in 0 .. MaxTxid /\ rpc' # "query"
      BY <1>1, OnePart DEF CollectCommits, InRound
    <3> QED BY <1>1, <2>1, <3>1, NotCommitted DEF PAgree, NotAhead
  <2>5. ASSUME NEW p \in PId PROVE Agrees(p)'
    <3>1. ptxid[p] <= txid + 1
      BY <1>2, NotCommitted
    <3>2. ASSUME NEW t \in Txid, t < ptxid[p], t < txid + 1
          PROVE  plog[p][t].event = clog'[t].event
      <4>1. CASE t < txid
        BY <2>3, <3>2, <4>1, NotCommitted DEF PAgree, Agrees
      <4>2. CASE t = txid
        BY <1>2, <2>3, <3>2, <4>2, NotCommitted
      <4> QED BY <1>1, <3>2, <4>1, <4>2
    <3> QED BY <2>1, <3>1, <3>2, NotCommitted DEF CollectCommits, Agrees
  <2> QED BY <1>3, <2>4, <2>5 DEF AgreeInv, PAgree, CollectCommits
<1>5. CASE committers = {}
  <2>1. clog' = clog /\ txid' = txid
    BY <1>5 DEF CollectCommits
  <2>2. ASSUME NEW p \in PId PROVE NotAhead(p)' /\ Agrees(p)'
    BY <1>2, <1>5, <2>1, NotCommitted DEF CollectCommits, PAgree, NotAhead, Agrees
  <2> QED BY <1>3, <2>2 DEF AgreeInv, PAgree, CollectCommits
<1> QED BY <1>4, <1>5

LEMMA WorkStepAgree ==
  ASSUME IInv, SyncInv, AgreeInv, work
  PROVE  AgreeInv'
<1> USE DEF workUnchanged, participantVars, recoveryVars
<1>1. ASSUME \/ \E c \in Command : AcceptClient(c)
             \/ Refuse \/ Admit \/ BadCommand
             \/ CollectVotes
             \/ StartRequest \/ RequestAnswered \/ RequestNext \/ RequestFails
      PROVE  AgreeInv'
  <2>1. /\ wpc # "commits" /\ UNCHANGED <<txid, clog>>
        /\ UNCHANGED <<participantVars, recoveryVars, pstate, maxTxidTB, rslot>>
    BY <1>1 DEF AcceptClient, Refuse, Admit, BadCommand, CollectVotes, StartRequest,
       RequestAnswered, RequestNext, RequestFails
  <2> QED BY <2>1, WorkAloneAgree
<1>2. ASSUME StartUpdate PROVE AgreeInv'
  <2>1. /\ wpc # "commits" /\ txid' = txid
        /\ \A t \in Txid : t < txid => clog'[t] = clog[t]
        /\ UNCHANGED <<participantVars, recoveryVars, pstate, maxTxidTB, rslot>>
    BY <1>2 DEF StartUpdate, voteSlot, IInv, TypeOK
  <2> QED BY <2>1, WorkAloneAgree
<1> QED BY <1>1, <1>2, CollectCommitsAgree DEF work

-----------------------------------------------------------------------------
(***************************************************************************)
(* recovery                                                                *)
(***************************************************************************)
\* A step that hands nothing to work, and that puts nobody ahead into the table.
LEMMA RecoveryAgree ==
  ASSUME IInv, SyncInv, AgreeInv, rpc' \notin {"ask", "push"},
         \A p \in PId :
            /\ maxTxidTB'[p] < txid
            /\ \/ pstate'[p] = pstate[p]
               \/ wpc # "commits" /\ pstate'[p] \notin {"WAITING", "TEMP"}
            /\ rpc' = "query" => rslot'[p].phase \notin {"sent", "done"},
         UNCHANGED <<participantVars, workVars, txid, clog, wslot>>
  PROVE  AgreeInv'
<1> USE DEF participantVars, workVars
<1>1. ASSUME NEW p \in PId PROVE PAgree(p)'
  <2>1. Fresh(p)' /\ NotAhead(p)'
    BY NotCommitted DEF PAgree, Fresh, NotAhead
  <2>2. CASE pstate'[p] = pstate[p]
    BY <2>1, <2>2, NotCommitted DEF PAgree, Agrees, justCommitted, executed, WellFormed
  <2>3. CASE wpc # "commits"
    <3>1. ptxid[p] <= txid
      BY <2>3, NotCommitted DEF executed
    <3> QED BY <2>1, <3>1, NotCommitted DEF PAgree, Agrees
  <2> QED BY <2>2, <2>3
<1> QED BY <1>1 DEF AgreeInv

\* Everybody reports a number the coordinator has reached.
LEMMA BuildTableAgree ==
  ASSUME IInv, SyncInv, AgreeInv, BuildTable
  PROVE  AgreeInv'
<1> USE DEF recoveryUnchanged
<1>1. ASSUME NEW p \in PId PROVE maxTxidTB'[p] < txid
  <2>1. rpc = "query" /\ rslot[p].phase = "done" /\ maxTxidTB' = tableFrom(rslot)
    BY DEF BuildTable, AllDone
  <2> QED BY <2>1, NotCommitted DEF tableFrom, reported, PAgree, NotAhead
<1>2. /\ rpc' \notin {"ask", "push", "query"}
      /\ UNCHANGED <<participantVars, workVars, txid, clog, pstate, wslot>>
  BY DEF BuildTable
<1> QED BY <1>1, <1>2, RecoveryAgree

\* So there is no leader.
LEMMA NoLeader ==
  ASSUME IInv, SyncInv, AgreeInv
  PROVE  ahead = {} /\ ~ElectLeader
<1>1. ahead = {}
  BY NotCommitted, OnePart DEF ahead, PAgree, NotAhead
<1> QED BY <1>1 DEF ElectLeader, isLeader

LEMMA RecoveryStepAgree ==
  ASSUME IInv, SyncInv, AgreeInv, recovery
  PROVE  AgreeInv'
<1> USE DEF recoveryUnchanged, stateVars
<1>0. \A p \in PId : maxTxidTB[p] < txid /\ 0 < txid
  BY NotCommitted DEF PAgree, NotAhead
<1>1. ASSUME \/ StartRecovery \/ SuspendWork \/ LockRecovery \/ ResumeWork
             \/ ReplayLog \/ ReplayNext
      PROVE  AgreeInv'
  <2>1. /\ rpc' \notin {"ask", "push", "query"}
        /\ UNCHANGED <<participantVars, workVars, txid, clog, pstate, wslot>>
        /\ \A p \in PId : maxTxidTB'[p] \in {0, maxTxidTB[p]}
    BY <1>1 DEF StartRecovery, SuspendWork, LockRecovery, ResumeWork, ReplayLog, ReplayNext
  <2> QED BY <1>0, <2>1, RecoveryAgree
<1>2. ASSUME QueryAll PROVE AgreeInv'
  <2>1. Log(RECOVERY_TXID, "PRE", <<>>) \in Task
    BY TaskType
  <2>2. \A p \in PId : rslot'[p].phase = "posted"
    BY <1>2, <2>1, PostedSlotType DEF QueryAll, PostAll
  <2>3. /\ rpc' = "query" /\ wpc # "commits"
        /\ UNCHANGED <<participantVars, workVars, txid, clog, maxTxidTB, wslot>>
        /\ \A p \in PId : pstate'[p] = pstate[p] \/ pstate'[p] = "RECOVERY"
    BY <1>2 DEF QueryAll, IInv, Locks
  <2> QED BY <1>0, <2>2, <2>3, RecoveryAgree
<1>3. ASSUME MarkWorking PROVE AgreeInv'
  <2>1. /\ rpc' = "finish" /\ wpc # "commits"
        /\ UNCHANGED <<participantVars, workVars, txid, clog, maxTxidTB, wslot>>
        /\ \A p \in PId : pstate'[p] = pstate[p] \/ pstate'[p] = "WORKING"
    BY <1>3 DEF MarkWorking, IInv, Locks, InRound
  <2> QED BY <1>0, <2>1, RecoveryAgree
<1>4. ~(TakeEntry \/ LeaderLost \/ PushNext \/ AskNext)
  BY DEF AgreeInv, TakeEntry, LeaderLost, PushNext, AskNext
<1> QED BY <1>1, <1>2, <1>3, <1>4, BuildTableAgree, NoLeader DEF recovery

-----------------------------------------------------------------------------
(***************************************************************************)
(* Theorem                                                                 *)
(***************************************************************************)
LEMMA InitAgree == Init => AgreeInv
<1> SUFFICES ASSUME Init PROVE AgreeInv
  OBVIOUS
<1>1. ASSUME NEW p \in PId PROVE PAgree(p)
  <2>1. /\ link[p] = "listen" /\ ptxid[p] = TXID_START /\ txid = TXID_START
        /\ maxTxidTB[p] = 0 /\ rpc = "start"
    BY DEF Init, ParticipantInit, CoordinatorInit
  <2> QED BY <2>1 DEF PAgree, Fresh, NotAhead, Agrees
<1> QED BY <1>1 DEF AgreeInv, Init, CoordinatorInit

LEMMA StutterAgree ==
  ASSUME AgreeInv, UNCHANGED vars
  PROVE  AgreeInv'
<1> USE DEF vars, participantVars, workVars, recoveryVars, lockVars, stateVars
<1>1. \A q \in PId : PAgree(q)'
  BY OtherAgree DEF AgreeInv, SameParticipant
<1> QED BY <1>1 DEF AgreeInv

LEMMA NextAgree ==
  ASSUME IInv, SyncInv, AgreeInv, [Next]_vars, ~Timeouts, ~CoordinatorCrash
  PROVE  AgreeInv'
<1>1. ASSUME NEW p \in PId,
             \/ keepAlive(p) \/ pWorking(p) \/ pRecovery(p)
             \/ participant(p) \/ crash(p) \/ restart(p)
      PROVE  AgreeInv'
  BY <1>1, KeepAliveAgree, PWorkingThreadAgree, PRecoveryThreadAgree, PWorkingAgree,
     LinkLostAgree DEF participant, crash, restart
<1> QED BY <1>1, WorkStepAgree, RecoveryStepAgree, StutterAgree DEF Next

\* Whatever two replicas both count as committed is the same command, and what
\* a replica and the coordinator both count as well (logger.hpp:19-28): in every
\* state in which participants die and return, as long as answers are in time
\* (network.cc:75-80) and the coordinator is not started again.
THEOREM Agreement ==
  ASSUME ~Timeouts, ~CoordinatorCrash
  PROVE  Spec => []LogAgreement
<1>1. Init => AgreeInv
  BY InitAgree
<1>2. IInv /\ SyncInv /\ AgreeInv /\ [Next]_vars => AgreeInv'
  BY NextAgree
<1>3. IInv /\ SyncInv /\ AgreeInv => LogAgreement
  <2> SUFFICES ASSUME IInv, SyncInv, AgreeInv PROVE LogAgreement
    OBVIOUS
  <2>1. ASSUME NEW p \in PId, NEW t \in Txid, t < ptxid[p]
        PROVE  \/ t < txid /\ plog[p][t].event = clog[t].event
               \/ t = txid /\ plog[p][t].event = cmd
    BY <2>1, NotCommitted DEF PAgree, Agrees, justCommitted
  <2>2. txid \in Int
    BY DEF IInv, TypeOK
  <2> QED BY <2>1, <2>2 DEF LogAgreement
<1> QED BY <1>1, <1>2, <1>3, SyncInvariance, PTL DEF Spec

-----------------------------------------------------------------------------
(***************************************************************************)
(* Induction: a set of numbers that is not empty has a least element, and  *)
(* the number of a least counterexample is a contradiction.                *)
(***************************************************************************)
LEMMA LeastNumber ==
  ASSUME NEW T \in SUBSET Nat, T # {}
  PROVE  \E n \in T : \A m \in T : n <= m
<1> DEFINE R == {ss \in Nat \X Nat : ss[1] < ss[2]}
<1>1. IsWellFoundedOn(R, Nat)
  BY NatLessThanWellFounded DEF OpToRel
<1>2. \A m, n \in Nat : m < n => <<m, n>> \in R
  OBVIOUS
<1> HIDE DEF R
<1>3. PICK n \in T : \A m \in T : ~ (<<m, n>> \in R)
  BY <1>1, WFMin
<1>4. ASSUME NEW m \in T PROVE n <= m
  <2>1. m \in Nat /\ n \in Nat
    OBVIOUS
  <2>2. ~ (m < n)
    BY <1>2, <1>3, <2>1
  <2> QED BY <2>1, <2>2
<1> QED BY <1>4

-----------------------------------------------------------------------------
(***************************************************************************)
(* The database of the committed transactions                              *)
(***************************************************************************)
Before == TXID_START - 1 .. MaxTxid

dbStep(g, t) == IF t < TXID_START THEN EmptyDatabase
                ELSE eventParser(g[t - 1], clog[t].event).db

LEMMA SomeDB == \E g : \A t \in Before : g[t] = dbStep(g, t)
<1> USE DEF Before
<1> DEFINE Solves(g, n) == \A t \in TXID_START - 1 .. n : g[t] = dbStep(g, t)
           S == {n \in Nat : ~ \E g : Solves(g, n)}
<1>1. S = {}
  <2> SUFFICES ASSUME S # {} PROVE FALSE
    OBVIOUS
  <2>1. PICK n \in S : \A m \in S : n <= m
    <3>1. S \in SUBSET Nat
      OBVIOUS
    <3> HIDE DEF S
    <3> QED BY <3>1, LeastNumber
  <2>2. n \in Nat /\ ~ \E g : Solves(g, n)
    BY <2>1
  <2>3. CASE n < TXID_START - 1
    <3>1. Solves([t \in {} |-> EmptyDatabase], n)
      BY <2>2, <2>3
    <3> QED BY <2>2, <3>1
  <2>4. CASE n >= TXID_START - 1
    <3>1. n - 1 \in Nat /\ ~ (n <= n - 1)
      BY <2>2, <2>4
    <3>2. n - 1 \notin S
      <4> HIDE DEF S
      <4> QED BY <2>1, <3>1
    <3>3. PICK g : Solves(g, n - 1)
      BY <3>1, <3>2
    <3> DEFINE h == [t \in TXID_START - 1 .. n |-> dbStep(g, t)]
    <3>4. \A t \in TXID_START - 1 .. n - 1 : h[t] = g[t]
      BY <2>2, <3>3
    <3>5. ASSUME NEW t \in TXID_START - 1 .. n PROVE h[t] = dbStep(h, t)
      <4>1. h[t] = dbStep(g, t)
        OBVIOUS
      <4>2. CASE t < TXID_START
        BY <4>1, <4>2 DEF dbStep
      <4>3. CASE ~ (t < TXID_START)
        <5>1. t - 1 \in TXID_START - 1 .. n - 1
          BY <2>2, <4>3
        <5> HIDE DEF h
        <5>2. h[t - 1] = g[t - 1]
          BY <3>4, <5>1
        <5> QED BY <4>1, <4>3, <5>2 DEF dbStep
      <4> QED BY <4>2, <4>3
    <3>6. Solves(h, n)
      BY <3>5
    <3> QED BY <2>2, <3>6
  <2> QED BY <2>2, <2>3, <2>4
<1>2. MaxTxid \in Nat
  OBVIOUS
<1> QED BY <1>1, <1>2

\* The function committedDB is the one its definition describes.
LEMMA CommittedDB ==
  \A t \in Before :
    /\ t < TXID_START => committedDB[t] = EmptyDatabase
    /\ t >= TXID_START =>
         \A db, c : committedDB[t - 1] = db /\ clog[t].event = c =>
                      committedDB[t] = eventParser(db, c).db
<1>1. PICK g : \A t \in Before : g[t] = dbStep(g, t)
  BY SomeDB
<1> DEFINE h == [t \in Before |-> g[t]]
<1>2. \A t \in Before : ~ (t < TXID_START) => t - 1 \in Before
  BY DEF Before
<1>3. \A t \in Before : h[t] = dbStep(h, t)
  BY <1>1, <1>2 DEF dbStep
<1>4. h = [t \in TXID_START - 1 .. MaxTxid |->
             IF t < TXID_START THEN EmptyDatabase
             ELSE eventParser(h[t - 1], clog[t].event).db]
  BY <1>3 DEF dbStep, Before
<1> HIDE DEF h
<1>5. committedDB = [t \in TXID_START - 1 .. MaxTxid |->
                       IF t < TXID_START THEN EmptyDatabase
                       ELSE eventParser(committedDB[t - 1], clog[t].event).db]
  BY <1>4 DEF committedDB
<1> QED BY <1>5 DEF Before

LEMMA CommittedDBNext ==
  (\A t \in Before :
     /\ t < TXID_START => committedDB[t] = EmptyDatabase
     /\ t >= TXID_START =>
          \A db, c : committedDB[t - 1] = db /\ clog[t].event = c =>
                       committedDB[t] = eventParser(db, c).db)'
BY CommittedDB, PTL

\* It depends on nothing but the commands of the log up to the transaction.
LEMMA SameDB ==
  ASSUME NEW n \in Before,
         \A t \in Txid : t <= n => clog'[t].event = clog[t].event
  PROVE  \A t \in Before : t <= n => committedDB'[t] = committedDB[t]
<1> USE DEF Before
<1> DEFINE S == {t \in Before : t <= n /\ committedDB'[t] # committedDB[t]}
<1> SUFFICES ASSUME S # {} PROVE FALSE
  OBVIOUS
<1>1. PICK t \in S : \A s \in S : t <= s
  <2>1. S \in SUBSET Nat
    OBVIOUS
  <2> HIDE DEF S
  <2> QED BY <2>1, LeastNumber
<1>2. t \in Before /\ t <= n /\ committedDB'[t] # committedDB[t]
  BY <1>1
<1>3. CASE t < TXID_START
  BY <1>2, <1>3, CommittedDB, CommittedDBNext
<1>4. CASE t >= TXID_START
  <2>1. t - 1 \in Before /\ t - 1 <= n /\ ~ (t <= t - 1) /\ t \in Txid
    BY <1>2, <1>4
  <2>2. t - 1 \notin S
    <3> HIDE DEF S
    <3> QED BY <1>1, <2>1
  <2>3. committedDB'[t - 1] = committedDB[t - 1] /\ clog'[t].event = clog[t].event
    BY <1>2, <2>1, <2>2
  <2> QED BY <1>2, <1>4, <2>3, CommittedDB, CommittedDBNext
<1> QED BY <1>2, <1>3, <1>4

-----------------------------------------------------------------------------
(***************************************************************************)
(* Everybody's database is that of the transactions he has executed.       *)
(***************************************************************************)
LEMMA Run == \A db, c : committedDB[txid - 1] = db /\ cmd = c => run = eventParser(db, c)
BY DEF run

LEMMA RunNext ==
  (\A db, c : committedDB[txid - 1] = db /\ cmd = c => run = eventParser(db, c))'
BY Run, PTL

\* What is written to the log beyond the last transaction changes nothing.
LEMMA SameStore ==
  ASSUME IInv, txid' = txid, \A t \in Txid : t < txid => clog'[t] = clog[t]
  PROVE  /\ \A t \in Before : t < txid => committedDB'[t] = committedDB[t]
         /\ committedDB'[txid' - 1] = committedDB[txid - 1]
         /\ cmd' = cmd => run' = run
<1>1. txid \in TXID_START .. MaxTxid + 1
  BY DEF IInv, TypeOK
<1>2. txid - 1 \in Before
  BY <1>1 DEF Before
<1>3. \A t \in Before : t <= txid - 1 => committedDB'[t] = committedDB[t]
  BY <1>1, <1>2, SameDB
<1>4. committedDB'[txid' - 1] = committedDB[txid - 1]
  <2>1. txid - 1 <= txid - 1 /\ txid' = txid
    BY <1>1
  <2> QED BY <1>2, <1>3, <2>1
<1>5. \A t \in Before : t < txid => t <= txid - 1
  BY <1>1 DEF Before
<1> QED BY <1>3, <1>4, <1>5, Run, RunNext

LEMMA StoreFacts ==
  ASSUME IInv, SyncInv, AgreeInv, StoreInv, NEW p \in PId
  PROVE  /\ KvSync(p) /\ AnswerSync(p)
         /\ ptxid[p] \in TXID_START .. MaxTxid + 1 /\ txid \in TXID_START .. MaxTxid + 1
         /\ ptxid[p] - 1 \in Before /\ txid - 1 \in Before
         /\ ptxid[p] <= txid => ptxid[p] - 1 < txid
         /\ wpc # "commits" => ptxid[p] <= txid
         /\ ptxid[p] > txid => ptxid[p] = txid + 1
BY NotCommitted DEF StoreInv, Before, AgreeInv, PAgree, Agrees, justCommitted, executed

\* Steps that execute nothing, and leave the command that is served alone.
LEMMA ExchangeStore ==
  ASSUME IInv, SyncInv, AgreeInv, StoreInv,
         UNCHANGED <<workVars, txid, clog, ptxid, kv>>,
         \A p \in PId :
            /\ wslot'[p].phase = "sent" /\ resp'[p] # None =>
                 wslot[p].phase = "sent" /\ resp[p] = resp'[p]
            /\ wslot'[p].phase = "done" /\ wslot'[p].ret = "OK" =>
                 \/ wslot'[p] = wslot[p]
                 \/ wslot[p].phase = "sent" /\ resp[p] # None /\ wslot'[p].data = resp[p]
  PROVE  StoreInv'
<1> USE DEF workVars
<1>1. run' = run /\ \A t \in Before : t < txid => committedDB'[t] = committedDB[t]
  BY SameStore
<1>2. ASSUME NEW p \in PId PROVE KvSync(p)'
  BY <1>1, StoreFacts DEF KvSync
<1>3. ASSUME NEW p \in PId PROVE AnswerSync(p)'
  BY <1>1, StoreFacts DEF AnswerSync
<1>4. wpc' = "get" => isRequest(cmd)'
  BY DEF StoreInv, isRequest, Verb
<1> QED BY <1>2, <1>3, <1>4 DEF StoreInv

\* Steps of work between two exchanges.
LEMMA WorkStore ==
  ASSUME IInv, SyncInv, AgreeInv, StoreInv, wpc # "commits",
         txid' = txid, \A t \in Txid : t < txid => clog'[t] = clog[t],
         UNCHANGED <<ptxid, kv>>,
         wpc' = "get" => isRequest(cmd'),
         wpc' \in {"commits", "get"} =>
           \A p \in PId : wslot'[p].phase \notin {"sent", "done"}
  PROVE  StoreInv'
<1>1. \A t \in Before : t < txid => committedDB'[t] = committedDB[t]
  BY SameStore
<1>2. ASSUME NEW p \in PId PROVE KvSync(p)'
  BY <1>1, StoreFacts DEF KvSync
<1>3. ASSUME NEW p \in PId PROVE AnswerSync(p)'
  BY DEF AnswerSync
<1>4. wpc' = "get" => isRequest(cmd)'
  BY DEF isRequest, Verb
<1> QED BY <1>2, <1>3, <1>4 DEF StoreInv

\* What is refused changes nothing, and reading does not either.
LEMMA Unchanging ==
  ASSUME NEW db, NEW c
  PROVE  /\ eventParser(db, c).reply = ErrorReply => eventParser(db, c).db = db
         /\ isRequest(c) => eventParser(db, c).db = db
<1>1. isRequest(c) => eventParser(db, c).db = db
  BY DEF eventParser, isRequest
<1>2. eventParser(db, c).reply = ErrorReply => eventParser(db, c).db = db
  BY Execution DEF eventParser, WellFormed
<1> QED BY <1>1, <1>2

LEMMA PWorkingStore ==
  ASSUME IInv, SyncInv, AgreeInv, StoreInv,
         NEW p \in PId, PWorking(p), UNCHANGED coordinatorVars
  PROVE  StoreInv'
<1> DEFINE l == req[p]
<1> USE DEF coordinatorVars, workVars, recoveryVars, stateVars
<1>1. run' = run /\ \A t \in Before : t < txid => committedDB'[t] = committedDB[t]
  BY SameStore
<1>2. ASSUME NEW q \in PId, q # p PROVE KvSync(q)' /\ AnswerSync(q)'
  <2>1. kv'[q] = kv[q] /\ ptxid'[q] = ptxid[q] /\ resp'[q] = resp[q]
    BY <1>2 DEF PWorking, IInv, TypeOK, ParticipantTypeOK
  <2> QED BY <1>1, <2>1, StoreFacts DEF KvSync, AnswerSync
<1>3. /\ link[p] = "up" /\ l \in Task /\ resp'[p] = workerReply(p, l)
      /\ ptxid'[p] = IF logsTask(p, l) THEN ptxid[p] + 1 ELSE ptxid[p]
      /\ kv'[p] = IF l.ID = SUPER_TXID \/ commits(p, l)
                  THEN eventParser(kv[p], l.event).db ELSE kv[p]
  <2>1. link[p] = "up"
    BY NotCommitted DEF PWorking, PAgree, Fresh
  <2>2. kv'[p] = IF l.ID = SUPER_TXID \/ commits(p, l)
                 THEN eventParser(kv[p], l.event).db ELSE kv[p]
    BY DEF PWorking, IInv, TypeOK, ParticipantTypeOK
  <2> QED BY <2>1, <2>2, PWorkingEffect
<1>4. /\ \/ wslot[p].phase = "sent" /\ l = wslot[p].task /\ rslot[p].phase = "idle"
         \/ rslot[p].phase = "sent" /\ l = rslot[p].task /\ wslot[p].phase = "idle"
      /\ wslot[p].phase = "sent" => pstate[p] = "WORKING"
      /\ resp[p] = None
  BY <1>3, TaskOnItsWay, PWorkingEffect, NotCommitted DEF PWorking, PInv, ActiveState
<1>5. CASE rslot[p].phase = "sent"
  <2>1. AnswerSync(p)'
    BY <1>4, <1>5 DEF AnswerSync
  <2>2. rpc \in {"query", "replay"} /\ ptxid[p] <= txid
    BY <1>4, <1>5, NotCommitted, PushedTask DEF AgreeInv, executed
  <2>3. CASE rpc = "query"
    <3>1. l.ID = 1 /\ l.ID # ptxid[p]
      BY <1>4, <1>5, <2>3, PushedTask, StoreFacts DEF RECOVERY_TXID
    <3>2. kv'[p] = kv[p] /\ ptxid'[p] = ptxid[p]
      BY <1>3, <3>1 DEF commits, logsTask, SUPER_TXID
    <3> QED BY <1>1, <1>2, <2>1, <3>2, StoreFacts DEF KvSync, StoreInv
  <2>4. CASE rpc = "replay"
    <3>1. /\ l = clog[tid] /\ tid \in Txid /\ tid < txid /\ l.ID = tid /\ l.state = "COMMIT"
          /\ WellFormed(l.event)
      BY <1>4, <1>5, <2>4, PushedTask, ExecutableEntry, OnePart DEF PSync, SlotSync
    <3>2. CASE l.ID = ptxid[p]
      <4>1. commits(p, l) /\ logsTask(p, l)
        BY <3>1, <3>2, Execution DEF commits, logsTask
      <4>2. kv'[p] = eventParser(kv[p], clog[tid].event).db /\ ptxid'[p] = tid + 1
        BY <1>3, <3>1, <3>2, <4>1
      <4>3. kv[p] = committedDB[tid - 1]
        BY <2>2, <3>1, <3>2, StoreFacts DEF KvSync
      <4>4. committedDB[tid] = eventParser(kv[p], clog[tid].event).db
        BY <3>1, <4>3, CommittedDB DEF Before
      <4>5. committedDB'[tid] = committedDB[tid]
        BY <1>1, <3>1 DEF Before
      <4>6. kv'[p] = committedDB'[ptxid'[p] - 1] /\ ptxid'[p] <= txid
        BY <3>1, <4>2, <4>4, <4>5, StoreFacts
      <4> QED BY <1>2, <2>1, <4>6 DEF KvSync, StoreInv
    <3>3. CASE l.ID # ptxid[p]
      <4>1. kv'[p] = kv[p] /\ ptxid'[p] = ptxid[p]
        BY <1>3, <3>1, <3>3 DEF commits, logsTask, SUPER_TXID
      <4> QED BY <1>1, <1>2, <2>1, <4>1, StoreFacts DEF KvSync, StoreInv
    <3> QED BY <3>2, <3>3
  <2> QED BY <2>2, <2>3, <2>4
<1>6. CASE wslot[p].phase = "sent"
  <2>1. /\ ptxid[p] = txid /\ wpc \in {"votes", "commits", "get"}
        /\ kv[p] = committedDB[txid - 1]
    BY <1>3, <1>4, <1>6, NotCommitted, StoreFacts
       DEF PSync, WorkSync, WorkNumber, executed, AgreeInv, PInv, SlotUse, KvSync
  <2>2. txid \in TXID_START .. MaxTxid + 1
    BY StoreFacts
  <2>3. CASE wpc = "votes"
    <3>1. l.ID = txid /\ l.state = "PRE"
      BY <1>4, <1>6, <2>3, NotCommitted DEF PInv, WorkTask, Log
    <3>2. kv'[p] = kv[p] /\ ptxid'[p] = ptxid[p]
      BY <1>3, <2>2, <3>1 DEF commits, logsTask, SUPER_TXID
    <3>3. KvSync(p)' /\ AnswerSync(p)'
      BY <1>1, <2>3, <3>2, StoreFacts DEF KvSync, AnswerSync
    <3> QED BY <1>2, <2>3, <3>3 DEF StoreInv
  <2>4. CASE wpc = "commits"
    <3>1. l.ID = txid /\ l.state = "COMMIT" /\ l.event = cmd /\ commits(p, l)
      BY <1>4, <1>6, <2>1, <2>4, NotCommitted DEF PInv, WorkTask, Log, commits
    <3>2. workerReply(p, l) = eventParser(kv[p], cmd).reply
      BY <2>2, <3>1 DEF workerReply, SUPER_TXID, RECOVERY_TXID, ASK_DATA_TXID
    <3>3. run = eventParser(kv[p], cmd)
      BY <2>1, Run
    <3>4. AnswerSync(p)'
      BY <1>1, <1>3, <1>6, <3>2, <3>3 DEF AnswerSync
    <3>5. kv'[p] = run.db
      BY <1>3, <3>1, <3>3
    <3>6. logsTask(p, l) => ptxid'[p] = txid + 1
      BY <1>3, <2>1
    <3>7. ~logsTask(p, l) => ptxid'[p] = txid /\ run.db = kv[p]
      BY <1>3, <2>1, <3>1, <3>3, Unchanging DEF logsTask
    <3>8. committedDB'[txid - 1] = committedDB[txid - 1]
      BY SameStore
    <3>9. KvSync(p)'
      BY <1>1, <2>1, <2>2, <3>5, <3>6, <3>7, <3>8 DEF KvSync
    <3> QED BY <1>2, <2>4, <3>4, <3>9 DEF StoreInv
  <2>5. CASE wpc = "get"
    <3>1. l.ID = SUPER_TXID /\ l.event = cmd /\ isRequest(cmd)
      BY <1>4, <1>6, <2>5, NotCommitted DEF PInv, WorkTask, Log, StoreInv
    <3>2. workerReply(p, l) = eventParser(kv[p], cmd).reply
      BY <2>1, <2>2, <3>1 DEF workerReply, commits, SUPER_TXID, RECOVERY_TXID, ASK_DATA_TXID
    <3>3. run = eventParser(kv[p], cmd)
      BY <2>1, Run
    <3>4. AnswerSync(p)'
      BY <1>1, <1>3, <1>6, <3>2, <3>3 DEF AnswerSync
    <3>5. kv'[p] = kv[p] /\ ptxid'[p] = ptxid[p]
      BY <1>3, <2>1, <2>2, <3>1, Unchanging DEF logsTask, commits, SUPER_TXID
    <3>6. KvSync(p)'
      BY <1>1, <3>5, StoreFacts DEF KvSync
    <3>7. isRequest(cmd)'
      BY <3>1 DEF isRequest, Verb
    <3> QED BY <1>2, <3>4, <3>6, <3>7 DEF StoreInv
  <2> QED BY <2>1, <2>3, <2>4, <2>5
<1> QED BY <1>4, <1>5, <1>6

\* Whoever dies returns with an empty database.
LEMMA PCrashStore ==
  ASSUME IInv, SyncInv, AgreeInv, StoreInv,
         NEW p \in PId, PCrash(p), UNCHANGED coordinatorVars
  PROVE  StoreInv'
<1> USE DEF coordinatorVars, workVars, stateVars
<1>1. /\ run' = run /\ \A t \in Before : t < txid => committedDB'[t] = committedDB[t]
      /\ txid \in TXID_START .. MaxTxid + 1
  BY SameStore, StoreFacts
<1>2. ASSUME NEW q \in PId PROVE AnswerSync(q)'
  BY <1>1, StoreFacts DEF PCrash, AnswerSync
<1>3. ASSUME NEW q \in PId, q # p PROVE KvSync(q)'
  <2>1. kv'[q] = kv[q] /\ ptxid'[q] = ptxid[q]
    BY <1>3 DEF PCrash, IInv, TypeOK, ParticipantTypeOK
  <2> QED BY <1>1, <2>1, StoreFacts DEF KvSync
<1>4. KvSync(p)'
  <2>1. kv'[p] = EmptyDatabase /\ ptxid'[p] = TXID_START
    BY DEF PCrash, IInv, TypeOK, ParticipantTypeOK
  <2>2. TXID_START - 1 \in Before /\ TXID_START - 1 < TXID_START
    BY DEF Before
  <2>3. committedDB'[TXID_START - 1] = EmptyDatabase
    BY <2>2, CommittedDBNext
  <2> QED BY <1>1, <2>1, <2>3 DEF KvSync
<1>5. isRequest(cmd)' <=> isRequest(cmd)
  BY DEF isRequest, Verb
<1> QED BY <1>2, <1>3, <1>4, <1>5 DEF StoreInv

\* The transaction that was counted makes the new database.
LEMMA CollectCommitsStore ==
  ASSUME IInv, SyncInv, AgreeInv, StoreInv, CollectCommits
  PROVE  /\ StoreInv'
         /\ committers # {} => committedDB'[txid' - 1] = run.db
         /\ committers = {} => committedDB'[txid' - 1] = committedDB[txid - 1]
<1> USE DEF workUnchanged, participantVars
<1>1. /\ wpc = "commits" /\ txid \in Txid /\ wpc' = "accept"
      /\ clog \in [Txid -> LogEntry \cup {None}]
      /\ clog[txid] \in LogEntry /\ clog[txid].event = cmd
      /\ kv' = kv /\ ptxid' = ptxid
  BY DEF CollectCommits, IInv, TypeOK, CoordinatorLog, SyncInv, ValidCoordinatorLog, Answer
<1>2. ASSUME NEW p \in PId, ptxid[p] > txid PROVE committers # {}
  <2>1. pstate[p] = "WORKING" /\ executed(p) /\ wslot[p].phase = "done"
    BY <1>2, NotCommitted DEF CollectCommits, AllDone
  <2> QED BY <1>1, <2>1, NotCommitted DEF PSync, SlotSync, CommitSync, executed, committers
<1>3. (\A p \in PId : KvSync(p)') => StoreInv'
  BY <1>1 DEF StoreInv, AnswerSync
<1>4. CASE committers # {}
  <2>1. /\ clog' = [clog EXCEPT ![txid] = [clog[txid] EXCEPT !.state = "COMMIT"]]
        /\ txid' = txid + 1
    BY <1>4 DEF CollectCommits
  <2>2. [clog[txid] EXCEPT !.state = "COMMIT"].event = cmd
    BY <1>1 DEF LogEntry, Task
  <2>3. clog'[txid].event = cmd /\ \A t \in Txid : t <= txid - 1 => clog'[t] = clog[t]
    BY <1>1, <2>1, <2>2
  <2>4. txid - 1 \in Before /\ txid \in Before /\ txid >= TXID_START
    BY <1>1 DEF Before
  <2>5. \A t \in Before : t <= txid - 1 => committedDB'[t] = committedDB[t]
    BY <2>3, <2>4, SameDB
  <2>6. committedDB'[txid] = run.db
    <3>1. committedDB'[txid - 1] = committedDB[txid - 1]
      BY <1>1, <2>4, <2>5
    <3> QED BY <2>3, <2>4, <3>1, CommittedDBNext, Run
  <2>7. committedDB'[txid' - 1] = run.db
    BY <1>1, <2>1, <2>6
  <2>8. ASSUME NEW p \in PId PROVE KvSync(p)'
    <3>1. CASE ptxid[p] <= txid
      BY <1>1, <2>1, <2>5, <3>1, StoreFacts DEF KvSync
    <3>2. CASE ptxid[p] > txid
      BY <1>1, <2>1, <2>6, <3>2, StoreFacts DEF KvSync
    <3> QED BY <1>1, <3>1, <3>2, StoreFacts
  <2> QED BY <1>3, <1>4, <2>7, <2>8
<1>5. CASE committers = {}
  <2>1. clog' = clog /\ txid' = txid
    BY <1>5 DEF CollectCommits
  <2>2. /\ \A t \in Before : t < txid => committedDB'[t] = committedDB[t]
        /\ committedDB'[txid' - 1] = committedDB[txid - 1]
    BY <2>1, SameStore
  <2>3. ASSUME NEW p \in PId PROVE KvSync(p)'
    <3>1. ptxid[p] <= txid
      BY <1>2, <1>5, StoreFacts
    <3> QED BY <1>1, <2>1, <2>2, <3>1, StoreFacts DEF KvSync
  <2> QED BY <1>3, <1>5, <2>2, <2>3
<1> QED BY <1>4, <1>5

LEMMA WorkStepStore ==
  ASSUME IInv, SyncInv, AgreeInv, StoreInv, work
  PROVE  StoreInv'
<1> USE DEF workUnchanged, participantVars
<1>1. ASSUME \/ \E c \in Command : AcceptClient(c)
             \/ Refuse \/ Admit \/ BadCommand
             \/ RequestAnswered \/ RequestFails
      PROVE  StoreInv'
  <2>1. /\ wpc # "commits" /\ wpc' \notin {"commits", "get"}
        /\ UNCHANGED <<txid, clog, ptxid, kv>>
    BY <1>1 DEF AcceptClient, Refuse, Admit, BadCommand, RequestAnswered, RequestFails, Answer
  <2> QED BY <2>1, WorkStore
<1>2. ASSUME StartUpdate PROVE StoreInv'
  <2>1. /\ wpc # "commits" /\ wpc' = "votes" /\ txid' = txid
        /\ \A t \in Txid : t < txid => clog'[t] = clog[t]
        /\ UNCHANGED <<ptxid, kv>>
    BY <1>2 DEF StartUpdate, voteSlot, IInv, TypeOK
  <2> QED BY <2>1, WorkStore
<1>3. ASSUME CollectVotes PROVE StoreInv'
  <2>1. wpc = "votes" /\ wpc' \in {"commits", "accept"} /\ UNCHANGED <<txid, clog, ptxid, kv>>
    BY <1>3 DEF CollectVotes, Answer
  <2>2. wpc' = "commits" => \A p \in PId : wslot'[p].phase = "posted"
    <3>1. Log(txid, "COMMIT", cmd) \in Task
      BY <2>1, TaskType DEF IInv, TypeOK, CoordinatorLog, LogState
    <3> QED BY <1>3, <3>1, PostedSlotType DEF CollectVotes, PostAll, Answer
  <2> QED BY <2>1, <2>2, WorkStore
<1>4. ASSUME StartRequest \/ RequestNext PROVE StoreInv'
  <2>1. /\ wpc # "commits" /\ wpc' = "get" /\ UNCHANGED <<txid, clog, ptxid, kv, cmd>>
        /\ isRequest(cmd)
    BY <1>4 DEF StartRequest, RequestNext, StoreInv
  <2>2. ASSUME NEW p \in PId PROVE wslot'[p].phase \in {"idle", "posted"}
    <3>1. Log(SUPER_TXID, "COMMIT", cmd) \in Task /\ wslot \in [PId -> Slot] /\ asked \in PId
      BY TaskType DEF IInv, TypeOK
    <3>2. PostedSlot(Log(SUPER_TXID, "COMMIT", cmd)).phase = "posted"
      BY <3>1, PostedSlotType
    <3>3. p = asked \/ wslot[p].phase = "idle" \/ StartRequest
      BY <1>4, NotCommitted DEF RequestNext, PInv, SlotUse, AgreeInv
    <3>4. StartRequest => wslot[p].phase = "idle"
      BY NotCommitted DEF StartRequest, PInv, SlotUse, AgreeInv
    <3> QED BY <1>4, <3>1, <3>2, <3>3, <3>4, IdleSlotType DEF StartRequest, RequestNext
  <2>3. isRequest(cmd')
    BY <2>1
  <2> QED BY <2>1, <2>2, <2>3, WorkStore
<1> QED BY <1>1, <1>2, <1>3, <1>4, CollectCommitsStore DEF work

\* The threads of the coordinator move answers, and change none.
LEMMA ThreadStore ==
  ASSUME IInv, SyncInv, AgreeInv, StoreInv, NEW p \in PId,
         keepAlive(p) \/ pWorking(p) \/ pRecovery(p)
  PROVE  StoreInv'
<1> USE DEF pwUnchanged, prUnchanged, participantVars, workVars, lockVars, stateVars,
            Deliver, TakeReply, CloseLink, Connect
<1>1. UNCHANGED <<workVars, txid, clog, ptxid, kv>>
  BY DEF keepAlive, Reconnect, MarkTemp, pWorking, PWSkip, PWSend, PWReceive, PWFail,
     PWGiveUp, pRecovery, PRSkip, PRSend, PRReceive, PRFail, PRGiveUp
<1>2. wslot \in [PId -> Slot] /\ resp \in [PId -> Reply \cup {None}]
  BY DEF IInv, TypeOK, ParticipantTypeOK
<1>3. ASSUME NEW q \in PId, keepAlive(p) \/ pRecovery(p)
      PROVE  wslot'[q] = wslot[q] /\ resp'[q] \in {resp[q], None}
  BY <1>2, <1>3 DEF keepAlive, Reconnect, MarkTemp, pRecovery, PRSkip, PRSend, PRReceive,
     PRFail, PRGiveUp
<1>4. ASSUME NEW q \in PId, pWorking(p)
      PROVE  /\ wslot'[q].phase = "sent" /\ resp'[q] # None =>
                  wslot[q].phase = "sent" /\ resp[q] = resp'[q]
             /\ wslot'[q].phase = "done" /\ wslot'[q].ret = "OK" =>
                  \/ wslot'[q] = wslot[q]
                  \/ wslot[q].phase = "sent" /\ resp[q] # None /\ wslot'[q].data = resp[q]
  <2>1. CASE q # p
    BY <1>2, <1>4, <2>1 DEF pWorking, PWSkip, PWSend, PWReceive, PWFail, PWGiveUp
  <2>2. CASE q = p /\ (PWSkip(p) \/ PWFail(p) \/ PWGiveUp(p))
    <3>1. DoneSlot("SKIP", None).ret = "SKIP" /\ DoneSlot("FAIL", None).ret = "FAIL"
          /\ [IdleSlot EXCEPT !.phase = "closing"].phase = "closing"
          /\ DoneSlot("SKIP", None).phase = "done" /\ DoneSlot("FAIL", None).phase = "done"
      BY DoneSlotType DEF Ret, IdleSlot
    <3> QED BY <1>2, <2>2, <3>1 DEF PWSkip, PWFail, PWGiveUp
  <2>3. CASE q = p /\ PWSend(p)
    <3>1. wslot[p].phase = "posted" /\ rslot[p].phase = "idle"
      BY <2>3, NotCommitted DEF PWSend
    <3>2. resp'[p] = None /\ wslot'[p].phase = "sent"
      BY <1>2, <2>3, <3>1, NotCommitted DEF PWSend, PInv, Channel, Slot
    <3> QED BY <2>3, <3>2
  <2>4. CASE q = p /\ PWReceive(p)
    <3>1. wslot'[p] = DoneSlot("OK", resp[p]) /\ wslot[p].phase = "sent" /\ resp[p] # None
      BY <1>2, <2>4 DEF PWReceive
    <3>2. DoneSlot("OK", resp[p]).phase = "done" /\ DoneSlot("OK", resp[p]).data = resp[p]
      BY <1>2, DoneSlotType DEF Ret
    <3> QED BY <2>4, <3>1, <3>2
  <2> QED BY <1>4, <2>1, <2>2, <2>3, <2>4 DEF pWorking
<1> QED BY <1>1, <1>3, <1>4, ExchangeStore

LEMMA RecoveryStepStore ==
  ASSUME IInv, SyncInv, AgreeInv, StoreInv, recovery
  PROVE  StoreInv'
<1> USE DEF recoveryUnchanged, participantVars, stateVars
<1>1. ~(TakeEntry \/ LeaderLost \/ PushNext \/ AskNext \/ ElectLeader)
  BY NoLeader DEF AgreeInv, TakeEntry, LeaderLost, PushNext, AskNext
<1>2. UNCHANGED <<workVars, txid, clog, ptxid, kv, wslot, resp>>
  BY <1>1 DEF recovery, StartRecovery, SuspendWork, LockRecovery, QueryAll, BuildTable,
     ReplayLog, ReplayNext, MarkWorking, ResumeWork
<1> QED BY <1>2, ExchangeStore

LEMMA InitStore == Init => StoreInv
<1> SUFFICES ASSUME Init PROVE StoreInv
  OBVIOUS
<1>1. /\ wpc = "accept" /\ txid = TXID_START
      /\ \A p \in PId : kv[p] = EmptyDatabase /\ ptxid[p] = TXID_START
  BY DEF Init, ParticipantInit, CoordinatorInit
<1>2. committedDB[TXID_START - 1] = EmptyDatabase
  BY CommittedDB DEF Before
<1> QED BY <1>1, <1>2 DEF StoreInv, KvSync, AnswerSync

LEMMA NextStore ==
  ASSUME IInv, SyncInv, AgreeInv, StoreInv, [Next]_vars, ~CoordinatorCrash
  PROVE  StoreInv'
<1> USE DEF coordinatorVars, participantVars, workVars, stateVars
<1>1. ASSUME NEW p \in PId,
             \/ keepAlive(p) \/ pWorking(p) \/ pRecovery(p)
             \/ participant(p) \/ crash(p) \/ restart(p)
      PROVE  StoreInv'
  <2>1. ASSUME PKeepAlive(p) \/ PRestart(p), UNCHANGED coordinatorVars PROVE StoreInv'
    BY <2>1, ExchangeStore DEF PKeepAlive, PRestart
  <2> QED BY <1>1, <2>1, ThreadStore, PWorkingStore, PCrashStore
        DEF participant, crash, restart
<1>2. ASSUME UNCHANGED vars PROVE StoreInv'
  BY <1>2, ExchangeStore DEF vars
<1> QED BY <1>1, <1>2, WorkStepStore, RecoveryStepStore DEF Next

-----------------------------------------------------------------------------
(***************************************************************************)
(* One atomic store                                                        *)
(***************************************************************************)
LEMMA StoreEvent == \A db, c : Store!eventParser(db, c) = eventParser(db, c)
<1> SUFFICES ASSUME NEW db, NEW c PROVE Store!eventParser(db, c) = eventParser(db, c)
  OBVIOUS
<1>1. Store!Verb(c) = Verb(c) /\ Store!DelKeys(c) = DelKeys(c) /\ Store!Nil = Nil
  BY DEF Store!Verb, Verb, Store!DelKeys, DelKeys, Store!Nil, Nil
<1>2. Store!kvSET(db, c[2], c[3]) = kvSET(db, c[2], c[3]) /\ Store!kvGET(db, c[2]) = kvGET(db, c[2])
  BY DEF Store!kvSET, kvSET, Store!kvGET, kvGET
<1>3. Store!kvDELArry(db, DelKeys(c)) = kvDELArry(db, DelKeys(c))
  BY <1>1 DEF Store!kvDELArry, kvDELArry
<1>4. Store!deletedNumber(db, DelKeys(c)) = deletedNumber(db, DelKeys(c))
  <2>1. \A S : Store!Cardinality(S) = Cardinality(S)
    BY DEF Store!Cardinality, Cardinality
  <2> QED BY <1>1, <2>1 DEF Store!deletedNumber, deletedNumber
<1>5. /\ \A n : Store!CountReply(n) = CountReply(n)
      /\ \A v : Store!ValueReply(v) = ValueReply(v)
      /\ Store!OkReply = OkReply /\ Store!PreReply = PreReply /\ Store!ErrorReply = ErrorReply
  BY DEF Store!CountReply, CountReply, Store!ValueReply, ValueReply, Store!OkReply, OkReply,
     Store!PreReply, PreReply, Store!ErrorReply, ErrorReply
<1> QED BY <1>1, <1>2, <1>3, <1>4, <1>5 DEF Store!eventParser, eventParser

LEMMA StoreRefuse ==
  ASSUME wpc # "accept", wpc' = "accept", cmd' = <<>>, reply' = ErrorReply,
         committedDB'[txid' - 1] = committedDB[txid - 1]
  PROVE  Store!StoreNext
BY DEF Store!StoreNext, Store!Refuse, Store!ErrorReply, ErrorReply

LEMMA StorePerform ==
  ASSUME wpc # "accept", wpc' = "accept", cmd' = <<>>,
         run.reply # ErrorReply, reply' = run.reply,
         committedDB'[txid' - 1] = run.db
  PROVE  Store!StoreNext
<1>1. Store!eventParser(committedDB[txid - 1], cmd) = run
  BY StoreEvent, Run
<1>2. Store!ErrorReply = ErrorReply
  BY DEF Store!ErrorReply, ErrorReply
<1>3. Store!Perform
  BY <1>1, <1>2 DEF Store!Perform
<1> QED BY <1>3 DEF Store!StoreNext

\* What an answer to a client is worth.
LEMMA Answers ==
  ASSUME IInv, SyncInv, AgreeInv, StoreInv, NEW p \in PId
  PROVE  /\ CollectCommits /\ p \in committers => wslot[p].data = run.reply
         /\ RequestAnswered /\ p = asked => wslot[p].data = run.reply
BY StoreFacts DEF CollectCommits, AllDone, committers, RequestAnswered, answered, AnswerSync

LEMMA WorkSimulation ==
  ASSUME IInv, SyncInv, AgreeInv, StoreInv, work
  PROVE  [Store!StoreNext]_(Store!storeVars)
<1> USE DEF Store!storeVars, Answer
<1>1. ASSUME NEW c \in Command, AcceptClient(c) PROVE Store!StoreNext
  <2>1. committedDB'[txid' - 1] = committedDB[txid - 1]
    BY <1>1, SameStore DEF AcceptClient
  <2>2. Store!Submit
    BY <1>1, <2>1 DEF AcceptClient, Store!Submit, Store!ErrorReply, ErrorReply
  <2> QED BY <2>2 DEF Store!StoreNext
<1>2. ASSUME Refuse \/ BadCommand \/ RequestFails \/ (CollectVotes /\ ~voted)
      PROVE  Store!StoreNext
  <2>1. /\ wpc # "accept" /\ wpc' = "accept" /\ cmd' = <<>> /\ reply' = ErrorReply
        /\ UNCHANGED <<txid, clog>>
    BY <1>2 DEF Refuse, BadCommand, RequestFails, CollectVotes
  <2> QED BY <2>1, SameStore, StoreRefuse
<1>3. ASSUME Admit \/ StartUpdate \/ (CollectVotes /\ voted) \/ StartRequest \/ RequestNext
      PROVE  UNCHANGED Store!storeVars
  <2>1. /\ (wpc # "accept") = (wpc' # "accept") /\ cmd' = cmd /\ reply' = reply
        /\ txid' = txid /\ \A t \in Txid : t < txid => clog'[t] = clog[t]
    BY <1>3 DEF Admit, StartUpdate, voteSlot, CollectVotes, StartRequest, RequestNext,
       IInv, TypeOK
  <2> QED BY <2>1, SameStore
<1>4. ASSUME CollectCommits, committers # {} PROVE Store!StoreNext
  <2>1. PICK last \in committers : reply' = wslot[last].data
    BY <1>4 DEF CollectCommits
  <2>2. last \in PId /\ wslot[last].data # ErrorReply
    BY DEF committers
  <2>3. reply' = run.reply /\ run.reply # ErrorReply
    BY <1>4, <2>1, <2>2, Answers
  <2>4. wpc = "commits" /\ wpc' = "accept" /\ cmd' = <<>>
    BY <1>4 DEF CollectCommits
  <2> QED BY <1>4, <2>3, <2>4, CollectCommitsStore, StorePerform
<1>5. ASSUME CollectCommits, committers = {} PROVE Store!StoreNext
  <2>1. wpc = "commits" /\ wpc' = "accept" /\ cmd' = <<>> /\ reply' = ErrorReply
    BY <1>5 DEF CollectCommits
  <2> QED BY <1>5, <2>1, CollectCommitsStore, StoreRefuse
<1>6. ASSUME RequestAnswered PROVE Store!StoreNext
  <2>1. /\ wpc = "get" /\ wpc' = "accept" /\ cmd' = <<>>
        /\ reply' = wslot[asked].data /\ UNCHANGED <<txid, clog>>
    BY <1>6 DEF RequestAnswered
  <2>2. asked \in PId
    BY DEF IInv, TypeOK
  <2>3. reply' = run.reply
    BY <1>6, <2>1, <2>2, Answers
  <2>4. run.db = committedDB[txid - 1]
    BY <2>1, Run, Unchanging DEF StoreInv
  <2>5. committedDB'[txid' - 1] = committedDB[txid - 1]
    BY <2>1, SameStore
  <2> QED BY <2>1, <2>3, <2>4, <2>5, StorePerform, StoreRefuse
<1> QED BY <1>1, <1>2, <1>3, <1>4, <1>5, <1>6 DEF work

\* Whatever else happens is invisible.
LEMMA Simulation ==
  ASSUME IInv, SyncInv, AgreeInv, StoreInv, [Next]_vars, ~CoordinatorCrash
  PROVE  [Store!StoreNext]_(Store!storeVars)
<1> USE DEF workVars, stateVars, coordinatorVars, pwUnchanged, prUnchanged, recoveryUnchanged
<1>1. ASSUME ~work PROVE UNCHANGED <<workVars, txid, clog>>
  <2>1. ASSUME recovery PROVE UNCHANGED <<workVars, txid, clog>>
    <3>1. ~(TakeEntry \/ LeaderLost \/ PushNext \/ AskNext \/ ElectLeader)
      BY NoLeader DEF AgreeInv, TakeEntry, LeaderLost, PushNext, AskNext
    <3> QED BY <2>1, <3>1 DEF recovery, StartRecovery, SuspendWork, LockRecovery, QueryAll,
          BuildTable, ReplayLog, ReplayNext, MarkWorking, ResumeWork
  <2>2. ASSUME NEW p \in PId,
               \/ keepAlive(p) \/ pWorking(p) \/ pRecovery(p)
               \/ participant(p) \/ crash(p) \/ restart(p)
        PROVE  UNCHANGED <<workVars, txid, clog>>
    BY <2>2 DEF keepAlive, Reconnect, MarkTemp, pWorking, PWSkip, PWSend, PWReceive,
       PWFail, PWGiveUp, pRecovery, PRSkip, PRSend, PRReceive, PRFail, PRGiveUp,
       participant, crash, restart
  <2> QED BY <1>1, <2>1, <2>2 DEF Next, vars
<1>2. ASSUME UNCHANGED <<workVars, txid, clog>> PROVE UNCHANGED Store!storeVars
  BY <1>2, SameStore DEF Store!storeVars
<1> QED BY <1>1, <1>2, WorkSimulation

\* However often participants die and return, as long as answers are in time
\* (network.cc:75-80) and the coordinator is not started again, clients see one
\* database: a GET returns the latest committed value (coordinator.cc:298-327),
\* an OK is a commit, and an error is no effect (coordinator.cc:252-295).
THEOREM AtomicStoreRefinement ==
  ASSUME ~Timeouts, ~CoordinatorCrash
  PROVE  Spec => ImplementsAtomicStore
<1>1. Init => AgreeInv /\ StoreInv
  BY InitAgree, InitStore
<1>2. IInv /\ SyncInv /\ AgreeInv /\ StoreInv /\ [Next]_vars => AgreeInv' /\ StoreInv'
  BY NextAgree, NextStore
<1>3. Init => Store!StoreInit
  <2> SUFFICES ASSUME Init PROVE Store!StoreInit
    OBVIOUS
  <2>1. TXID_START - 1 \in Before /\ TXID_START - 1 < TXID_START
    BY DEF Before
  <2>2. committedDB[TXID_START - 1] = EmptyDatabase
    BY <2>1, CommittedDB
  <2> QED BY <2>2 DEF Init, CoordinatorInit, Store!StoreInit, Store!EmptyDatabase,
        EmptyDatabase, Store!ErrorReply, ErrorReply, Store!Nil, Nil
<1>4. IInv /\ SyncInv /\ AgreeInv /\ StoreInv /\ [Next]_vars
        => [Store!StoreNext]_(Store!storeVars)
  BY Simulation
<1> QED BY <1>1, <1>2, <1>3, <1>4, SyncInvariance, PTL
      DEF Spec, ImplementsAtomicStore, Store!StoreSpec

===============================================================================
