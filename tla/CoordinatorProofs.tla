-------------------------- MODULE CoordinatorProofs ---------------------------
(***************************************************************************)
(* Every step of Coordinator keeps its invariant: those that belong to one *)
(* participant (its three threads in the coordinator and its own process), *)
(* those of work and those of recovery; and what follows from it for any   *)
(* number of participants and transactions and under all faults.           *)
(***************************************************************************)
EXTENDS CoordinatorInvariant, FiniteSetTheorems, TLAPS

-----------------------------------------------------------------------------
(***************************************************************************)
(* The database stays a database, and a command gives a reply of its kind. *)
(***************************************************************************)
\* DEL counts a finite number of keys (kv.cc:37-46).
LEMMA DeletedNumberType ==
  ASSUME NEW db, NEW c \in Seq(STRING)
  PROVE  deletedNumber(db, DelKeys(c)) \in Nat
<1>1. IsFiniteSet(2 .. Len(c))
  BY FS_Interval
<1>2. IsFiniteSet(DelKeys(c))
  <2> DEFINE word == [i \in 2 .. Len(c) |-> c[i]]
  <2>1. word \in Surjection(2 .. Len(c), DelKeys(c))
    BY DEF Surjection, DelKeys
  <2> QED BY <1>1, <2>1, FS_Surjection
<1>3. IsFiniteSet({k \in DelKeys(c) \cap Key : db[k] # Nil})
  <2>1. {k \in DelKeys(c) \cap Key : db[k] # Nil} \subseteq DelKeys(c)
    OBVIOUS
  <2> QED BY <1>2, <2>1, FS_Subset
<1> QED BY <1>3, FS_CardinalityType DEF deletedNumber

\* A command, or the empty event of a vote request, turns a database into a
\* database and gives a reply a participant sends (participant.cc:87-135).
LEMMA EventParserType ==
  ASSUME NEW db \in Database, NEW c \in Command \cup {<<>>}
  PROVE  /\ eventParser(db, c).reply \in KVReply
         /\ eventParser(db, c).db \in Database
<1>1. CASE Verb(c) = "DEL"
  <2>1. c \in Seq(STRING)
    BY <1>1, CommandAssumption DEF Verb
  <2>2. deletedNumber(db, DelKeys(c)) \in Nat
    BY <2>1, DeletedNumberType
  <2>3. kvDELArry(db, DelKeys(c)) \in Database
    BY DEF kvDELArry, Database
  <2> QED BY <1>1, <2>2, <2>3 DEF eventParser, CountReply, KVReply
<1>2. CASE Verb(c) = "SET" /\ Len(c) = 3
  <2>1. c[2] \in Key /\ c[3] \in Value
    BY <1>2, CommandAssumption DEF Verb
  <2>2. kvSET(db, c[2], c[3]) \in Database
    BY <2>1 DEF kvSET, Database
  <2> QED BY <1>2, <2>2 DEF eventParser, OkReply, KVReply
<1>3. CASE Verb(c) = "GET" /\ Len(c) = 2
  <2>1. c[2] \in Key
    BY <1>3, CommandAssumption DEF Verb
  <2>2. kvGET(db, c[2]) \in Value \cup {Nil}
    BY <2>1 DEF kvGET, Database
  <2> QED BY <1>3, <2>2 DEF eventParser, ValueReply, KVReply
<1>4. CASE Verb(c) = "PRE"
  BY <1>4 DEF eventParser, PreReply, KVReply
<1>5. CASE /\ Verb(c) # "DEL" /\ ~(Verb(c) = "SET" /\ Len(c) = 3)
           /\ ~(Verb(c) = "GET" /\ Len(c) = 2) /\ Verb(c) # "PRE"
  BY <1>5 DEF eventParser, ErrorReply, KVReply
<1> QED BY <1>1, <1>2, <1>3, <1>4, <1>5

USE PNumAssumption, MaxTxidAssumption DEF PId, Txid, TXID_START

-----------------------------------------------------------------------------
(***************************************************************************)
(* The slots.                                                              *)
(***************************************************************************)
LEMMA IdleSlotType ==
  /\ IdleSlot \in Slot
  /\ IdleSlot.phase = "idle" /\ IdleSlot.ret = "SKIP" /\ IdleSlot.data = None
BY DEF IdleSlot, Slot, Phase, Ret

LEMMA PostedSlotType ==
  ASSUME NEW task \in Task
  PROVE  /\ PostedSlot(task) \in Slot
         /\ PostedSlot(task).phase = "posted" /\ PostedSlot(task).task = task
         /\ PostedSlot(task).ret = "SKIP"
BY DEF PostedSlot, IdleSlot, Slot, Phase, Ret

LEMMA DoneSlotType ==
  ASSUME NEW r \in Ret, NEW data \in Reply \cup {None}
  PROVE  /\ DoneSlot(r, data) \in Slot
         /\ DoneSlot(r, data).phase = "done"
         /\ DoneSlot(r, data).ret = r /\ DoneSlot(r, data).data = data
BY DEF DoneSlot, IdleSlot, Slot, Phase, Ret

LEMMA TaskType ==
  /\ \A t \in Txid, c \in Command \cup {<<>>}, s \in LogState :
        Log(t, s, c) \in LogEntry /\ Log(t, s, c).ID = t
  /\ \A c \in Command \cup {<<>>} : Log(SUPER_TXID, "COMMIT", c) \in Task
  /\ Log(RECOVERY_TXID, "PRE", <<>>) \in Task
  /\ \A t \in Txid : AskLog(t) \in Task
  /\ LogEntry \subseteq Task
BY DEF Log, AskLog, LogEntry, Task, LogState, SUPER_TXID, RECOVERY_TXID, ASK_DATA_TXID

\* The mutex keeps the two threads of a participant apart: only one of them
\* has anything to do.
LEMMA OneSlotInUse ==
  ASSUME Locks, NEW p \in PId, SlotUse(p)
  PROVE  wslot[p].phase = "idle" \/ rslot[p].phase = "idle"
BY DEF Locks, SlotUse, InRound

-----------------------------------------------------------------------------
(***************************************************************************)
(* What a step leaves alone.                                               *)
(***************************************************************************)
SameParticipant(q) ==
  /\ wslot'[q] = wslot[q] /\ rslot'[q] = rslot[q]
  /\ pstate'[q] = pstate[q] /\ ka'[q] = ka[q] /\ maxTxidTB'[q] = maxTxidTB[q]
  /\ ptxid'[q] = ptxid[q] /\ plog'[q] = plog[q]
  /\ link'[q] = link[q] /\ req'[q] = req[q] /\ resp'[q] = resp[q]

\* A step of one participant's threads does not disturb another participant.
LEMMA OtherParticipant ==
  ASSUME NEW q \in PId, PInv(q), SameParticipant(q),
         UNCHANGED <<workVars, recoveryVars, txid>>
  PROVE  PInv(q)'
<1> USE DEF workVars, recoveryVars, SameParticipant
<1>1. SlotUse(q)' BY DEF PInv, SlotUse
<1>2. ActiveState(q)' BY DEF PInv, ActiveState
<1>3. ParticipantLog(q)' BY DEF PInv, ParticipantLog, CommittedEntry
<1>4. WorkTask(q)' BY DEF PInv, WorkTask, Log, AskLog
<1>5. RecoveryTask(q)' BY DEF PInv, RecoveryTask, Log
<1>6. Channel(q)' BY DEF PInv, Channel, Carries, Matches, CommittedEntry
<1>7. Result(q)' BY DEF PInv, Result, Matches, AskLog, CommittedEntry
<1>8. Table(q)' BY DEF PInv, Table, InRound
<1> QED BY <1>1, <1>2, <1>3, <1>4, <1>5, <1>6, <1>7, <1>8 DEF PInv

\* So a step of p's threads, of its process or of its connection keeps the
\* invariant when it keeps p's part of it.
LEMMA LocalStep ==
  ASSUME IInv, NEW p \in PId, TypeOK', PInv(p)',
         \A q \in PId : q # p => SameParticipant(q),
         rpc \notin InRound => maxTxidTB'[p] = maxTxidTB[p],
         rpc \in InRound \ {"query"} =>
           (maxTxidTB'[p] # 0 => maxTxidTB'[p] >= TXID_START - 1),
         UNCHANGED <<workVars, recoveryVars, lockVars, txid, clog>>
  PROVE  IInv'
<1> USE DEF workVars, recoveryVars, lockVars
<1>1. Locks'
  BY DEF IInv, Locks
<1>2. CoordinatorLog'
  BY DEF IInv, CoordinatorLog, CommittedEntry
<1>3. Progress'
  BY DEF IInv, Progress, SameParticipant, InRound
<1>4. \A q \in PId : PInv(q)'
  BY OtherParticipant DEF IInv
<1> QED BY <1>1, <1>2, <1>3, <1>4 DEF IInv

-----------------------------------------------------------------------------
(***************************************************************************)
(* keepAlive                                                               *)
(***************************************************************************)
LEMMA ReconnectInv ==
  ASSUME IInv, NEW p \in PId, Reconnect(p)
  PROVE  IInv'
<1> USE DEF Reconnect, Connect, workVars, recoveryVars, lockVars, stateVars
<1>1. TypeOK'
  BY DEF IInv, TypeOK, ParticipantTypeOK, LinkState
<1>2. link'[p] = "up" /\ ka'[p] = "connected"
  BY DEF IInv, TypeOK, ParticipantTypeOK
<1>3. PInv(p)
  BY DEF IInv
<1>4. wslot[p].phase \notin {"sent", "closing"} /\ rslot[p].phase \notin {"sent", "closing"}
  BY <1>3 DEF PInv, ActiveState
<1>5. PInv(p)'
  <2>1. SlotUse(p)' BY <1>3 DEF PInv, SlotUse
  <2>2. ActiveState(p)' BY <1>2, <1>4 DEF ActiveState
  <2>3. ParticipantLog(p)' BY <1>3 DEF PInv, ParticipantLog, CommittedEntry
  <2>4. WorkTask(p)' BY <1>3 DEF PInv, WorkTask, Log, AskLog
  <2>5. RecoveryTask(p)' BY <1>3 DEF PInv, RecoveryTask, Log
  <2>6. Channel(p)' BY <1>2, <1>3, <1>4 DEF PInv, Channel
  <2>7. Result(p)' BY <1>3 DEF PInv, Result, Matches, AskLog, CommittedEntry
  <2>8. Table(p)' BY <1>3 DEF PInv, Table
  <2> QED BY <2>1, <2>2, <2>3, <2>4, <2>5, <2>6, <2>7, <2>8 DEF PInv
<1>6. \A q \in PId : q # p => SameParticipant(q)
  BY DEF IInv, TypeOK, ParticipantTypeOK, SameParticipant
<1> QED BY <1>1, <1>5, <1>6, LocalStep DEF IInv, Progress

LEMMA MarkTempInv ==
  ASSUME IInv, NEW p \in PId, MarkTemp(p)
  PROVE  IInv'
<1> USE DEF MarkTemp, participantVars, workVars, recoveryVars, lockVars
<1>1. TypeOK'
  BY DEF IInv, TypeOK, ParticipantTypeOK, PState
<1>2. ka'[p] = "poll" /\ pstate'[p] = "TEMP"
  BY DEF IInv, TypeOK
<1>3. PInv(p)
  BY DEF IInv
<1>4. wslot[p].phase \notin {"sent", "closing"} /\ rslot[p].phase \notin {"sent", "closing"}
  BY <1>3 DEF PInv, ActiveState
<1>5. PInv(p)'
  <2>1. SlotUse(p)' BY <1>3 DEF PInv, SlotUse
  <2>2. ActiveState(p)' BY <1>2, <1>4 DEF ActiveState
  <2>3. ParticipantLog(p)' BY <1>3 DEF PInv, ParticipantLog, CommittedEntry
  <2>4. WorkTask(p)' BY <1>3 DEF PInv, WorkTask, Log, AskLog
  <2>5. RecoveryTask(p)' BY <1>3 DEF PInv, RecoveryTask, Log
  <2>6. Channel(p)' BY <1>3, <1>4 DEF PInv, Channel
  <2>7. Result(p)' BY <1>3 DEF PInv, Result, Matches, AskLog, CommittedEntry
  <2>8. Table(p)' BY <1>3 DEF IInv, Locks, Table, InRound
  <2> QED BY <2>1, <2>2, <2>3, <2>4, <2>5, <2>6, <2>7, <2>8 DEF PInv
<1>6. \A q \in PId : q # p => SameParticipant(q)
  BY DEF IInv, TypeOK, ParticipantTypeOK, SameParticipant
<1> QED BY <1>1, <1>5, <1>6, LocalStep DEF IInv, Progress

-----------------------------------------------------------------------------
(***************************************************************************)
(* pWorking                                                                *)
(***************************************************************************)
LEMMA PWSkipInv ==
  ASSUME IInv, NEW p \in PId, PWSkip(p)
  PROVE  IInv'
<1> USE DEF workVars, recoveryVars, lockVars
<1>1. PInv(p) /\ rslot[p].phase = "idle"
  BY OneSlotInUse DEF IInv, PInv, SlotUse, PWSkip
<1>3. /\ wslot'[p] = DoneSlot("SKIP", None) /\ wslot'[p].phase = "done"
      /\ wslot'[p].ret = "SKIP" /\ wslot'[p] \in Slot /\ wslot[p].phase = "posted"
  BY <1>1, DoneSlotType DEF IInv, TypeOK, ParticipantTypeOK, Ret, PWSkip,
       participantVars, pwUnchanged
<1>4. /\ rslot'[p] = rslot[p] /\ pstate'[p] = pstate[p] /\ ka'[p] = ka[p]
      /\ maxTxidTB'[p] = maxTxidTB[p] /\ ptxid'[p] = ptxid[p] /\ plog'[p] = plog[p]
      /\ link'[p] = link[p] /\ req'[p] = req[p] /\ resp'[p] = resp[p]
      /\ UNCHANGED <<workVars, recoveryVars, lockVars, txid, clog>>
  BY DEF IInv, TypeOK, ParticipantTypeOK, PWSkip, participantVars, pwUnchanged
<1>5. TypeOK'
  BY <1>1, <1>3 DEF IInv, TypeOK, ParticipantTypeOK, PWSkip, participantVars,
       pwUnchanged
<1>6. PInv(p)'
  <2>1. SlotUse(p)' BY <1>1, <1>3, <1>4 DEF PInv, SlotUse
  <2>2. ActiveState(p)' BY <1>1, <1>3, <1>4 DEF PInv, ActiveState
  <2>3. ParticipantLog(p)' BY <1>1, <1>4 DEF PInv, ParticipantLog, CommittedEntry
  <2>4. WorkTask(p)' BY <1>1, <1>3, <1>4 DEF PInv, WorkTask, Log, AskLog
  <2>5. RecoveryTask(p)' BY <1>1, <1>3, <1>4 DEF PInv, RecoveryTask, Log
  <2>6. Channel(p)'
    BY <1>1, <1>3, <1>4 DEF PInv, Channel, Carries, Matches, CommittedEntry
  <2>7. Result(p)' BY <1>1, <1>3, <1>4 DEF PInv, Result, Matches, AskLog, CommittedEntry
  <2>8. Table(p)' BY <1>1, <1>3, <1>4 DEF PInv, Table
  <2> QED BY <2>1, <2>2, <2>3, <2>4, <2>5, <2>6, <2>7, <2>8 DEF PInv
<1>7. \A q \in PId : q # p => SameParticipant(q)
  BY DEF IInv, TypeOK, ParticipantTypeOK, SameParticipant, PWSkip, participantVars,
       pwUnchanged
<1> QED BY <1>1, <1>3, <1>4, <1>5, <1>6, <1>7, LocalStep
   DEF IInv, Progress, PInv, SlotUse, InRound

LEMMA PWSendInv ==
  ASSUME IInv, NEW p \in PId, PWSend(p)
  PROVE  IInv'
<1> USE DEF workVars, recoveryVars, lockVars
<1>1. PInv(p) /\ rslot[p].phase = "idle"
  BY OneSlotInUse DEF IInv, PInv, SlotUse, PWSend
<1>3. /\ wslot'[p].phase = "sent" /\ wslot'[p].task = wslot[p].task
      /\ wslot'[p].ret = wslot[p].ret /\ wslot'[p].data = wslot[p].data
      /\ wslot[p].task \in Task /\ req'[p] = wslot[p].task /\ wslot'[p] \in Slot
      /\ link[p] = "up" /\ wslot[p].phase = "posted" /\ pstate[p] = "WORKING"
  BY <1>1, NoneAssumption DEF IInv, TypeOK, ParticipantTypeOK, Ret, PWSend, Deliver,
       SendFails, pwUnchanged, Slot, Phase, PInv, WorkTask
<1>4. /\ rslot'[p] = rslot[p] /\ pstate'[p] = pstate[p] /\ ka'[p] = ka[p]
      /\ maxTxidTB'[p] = maxTxidTB[p] /\ ptxid'[p] = ptxid[p] /\ plog'[p] = plog[p]
      /\ link'[p] = link[p] /\ resp'[p] = resp[p]
      /\ UNCHANGED <<workVars, recoveryVars, lockVars, txid, clog>>
  BY DEF IInv, TypeOK, ParticipantTypeOK, PWSend, Deliver, SendFails, pwUnchanged
<1>5. TypeOK'
  BY <1>1, <1>3 DEF IInv, TypeOK, ParticipantTypeOK, PWSend, Deliver, SendFails,
       pwUnchanged
<1>6. PInv(p)'
  <2>1. SlotUse(p)' BY <1>1, <1>3, <1>4 DEF PInv, SlotUse
  <2>2. ActiveState(p)' BY <1>1, <1>3, <1>4 DEF PInv, ActiveState
  <2>3. ParticipantLog(p)' BY <1>1, <1>4 DEF PInv, ParticipantLog, CommittedEntry
  <2>4. WorkTask(p)' BY <1>1, <1>3, <1>4 DEF PInv, WorkTask, Log, AskLog
  <2>5. RecoveryTask(p)' BY <1>1, <1>3, <1>4 DEF PInv, RecoveryTask, Log
  <2>6. Channel(p)'
    BY <1>1, <1>3, <1>4 DEF PInv, Channel, Carries, Matches, CommittedEntry
  <2>7. Result(p)' BY <1>1, <1>3, <1>4 DEF PInv, Result, Matches, AskLog, CommittedEntry
  <2>8. Table(p)' BY <1>1, <1>3, <1>4 DEF PInv, Table
  <2> QED BY <2>1, <2>2, <2>3, <2>4, <2>5, <2>6, <2>7, <2>8 DEF PInv
<1>7. \A q \in PId : q # p => SameParticipant(q)
  BY DEF IInv, TypeOK, ParticipantTypeOK, SameParticipant, PWSend, Deliver,
       SendFails, pwUnchanged
<1> QED BY <1>1, <1>3, <1>4, <1>5, <1>6, <1>7, LocalStep
   DEF IInv, Progress, PInv, SlotUse, InRound

LEMMA PWReceiveInv ==
  ASSUME IInv, NEW p \in PId, PWReceive(p)
  PROVE  IInv'
<1> USE DEF workVars, recoveryVars, lockVars
<1>1. PInv(p) /\ rslot[p].phase = "idle"
  BY OneSlotInUse DEF IInv, PInv, SlotUse, PWReceive
<1>2. /\ resp[p] \in Reply /\ req[p] = None
      /\ (rpc = "ask" => Matches(AskLog(minID), resp[p]))
  BY <1>1, NoneAssumption DEF IInv, TypeOK, ParticipantTypeOK, PInv, WorkTask,
       Channel, Carries,
       PWReceive
<1>3. /\ wslot[p].phase = "sent" /\ wslot'[p] = DoneSlot("OK", resp[p])
      /\ wslot'[p].phase = "done" /\ wslot'[p].ret = "OK" /\ wslot'[p].data = resp[p]
      /\ resp'[p] = None /\ wslot'[p] \in Slot
  <2>1. /\ DoneSlot("OK", resp[p]) \in Slot /\ DoneSlot("OK", resp[p]).phase = "done"
        /\ DoneSlot("OK", resp[p]).ret = "OK" /\ DoneSlot("OK", resp[p]).data = resp[p]
    BY <1>2, DoneSlotType DEF Ret
  <2>2. wslot'[p] = DoneSlot("OK", resp[p]) /\ resp'[p] = None
    BY DEF IInv, TypeOK, ParticipantTypeOK, PWReceive, TakeReply
  <2> QED BY <2>1, <2>2 DEF PWReceive
<1>4. /\ rslot'[p] = rslot[p] /\ pstate'[p] = pstate[p] /\ ka'[p] = ka[p]
      /\ maxTxidTB'[p] = maxTxidTB[p] /\ ptxid'[p] = ptxid[p] /\ plog'[p] = plog[p]
      /\ link'[p] = link[p] /\ req'[p] = req[p]
      /\ UNCHANGED <<workVars, recoveryVars, lockVars, txid, clog>>
  BY DEF IInv, TypeOK, ParticipantTypeOK, PWReceive, TakeReply, pwUnchanged
<1>5. TypeOK'
  BY <1>1, <1>3 DEF IInv, TypeOK, ParticipantTypeOK, PWReceive, TakeReply, pwUnchanged
<1>6. PInv(p)'
  <2>1. SlotUse(p)' BY <1>1, <1>3, <1>4 DEF PInv, SlotUse
  <2>2. ActiveState(p)' BY <1>1, <1>3, <1>4 DEF PInv, ActiveState
  <2>3. ParticipantLog(p)' BY <1>1, <1>4 DEF PInv, ParticipantLog, CommittedEntry
  <2>4. WorkTask(p)' BY <1>1, <1>3, <1>4 DEF PInv, WorkTask, Log, AskLog
  <2>5. RecoveryTask(p)' BY <1>1, <1>3, <1>4 DEF PInv, RecoveryTask, Log
  <2>6. Channel(p)'
    BY <1>1, <1>2, <1>3, <1>4 DEF PInv, Channel, Carries, Matches, CommittedEntry
  <2>7. Result(p)'
    BY <1>1, <1>2, <1>3, <1>4 DEF PInv, Result, Matches, AskLog, CommittedEntry
  <2>8. Table(p)' BY <1>1, <1>2, <1>3, <1>4 DEF PInv, Table
  <2> QED BY <2>1, <2>2, <2>3, <2>4, <2>5, <2>6, <2>7, <2>8 DEF PInv
<1>7. \A q \in PId : q # p => SameParticipant(q)
  BY DEF IInv, TypeOK, ParticipantTypeOK, SameParticipant, PWReceive, TakeReply,
       pwUnchanged
<1> QED BY <1>1, <1>3, <1>4, <1>5, <1>6, <1>7, LocalStep
   DEF IInv, Progress, PInv, SlotUse, InRound

LEMMA PWFailInv ==
  ASSUME IInv, NEW p \in PId, PWFail(p)
  PROVE  IInv'
<1> USE DEF workVars, recoveryVars, lockVars
<1>1. PInv(p) /\ rslot[p].phase = "idle"
  BY OneSlotInUse DEF IInv, PInv, SlotUse, PWFail
<1>2. pstate[p] = "WORKING" /\ wslot[p].phase \in {"posted", "sent"}
  BY <1>1 DEF PInv, ActiveState, PWFail
<1>3. /\ wslot'[p].phase = "closing" /\ wslot'[p].ret = "SKIP" /\ wslot'[p] \in Slot
      /\ resp'[p] = None /\ link'[p] # "up"
      /\ (link'[p] \in {"down", "listen"} => link[p] = link'[p])
      /\ wslot[p].phase \in {"posted", "sent"} /\ pstate[p] = "WORKING"
  BY <1>1, <1>2 DEF IInv, TypeOK, ParticipantTypeOK, Ret, PWFail, CloseLink,
       SendFails, RecvFails, pwUnchanged, IdleSlot, Slot, Phase, LinkState
<1>4. /\ rslot'[p] = rslot[p] /\ pstate'[p] = pstate[p] /\ ka'[p] = ka[p]
      /\ maxTxidTB'[p] = maxTxidTB[p] /\ ptxid'[p] = ptxid[p] /\ plog'[p] = plog[p]
      /\ req'[p] = req[p] /\ UNCHANGED <<workVars, recoveryVars, lockVars, txid, clog>>
  BY DEF IInv, TypeOK, ParticipantTypeOK, PWFail, CloseLink, SendFails, RecvFails,
       pwUnchanged
<1>5. TypeOK'
  BY <1>1, <1>3 DEF IInv, TypeOK, ParticipantTypeOK, PWFail, CloseLink, SendFails,
       RecvFails, pwUnchanged, LinkState
<1>6. PInv(p)'
  <2>1. SlotUse(p)' BY <1>1, <1>3, <1>4 DEF PInv, SlotUse
  <2>2. ActiveState(p)' BY <1>1, <1>3, <1>4 DEF PInv, ActiveState
  <2>3. ParticipantLog(p)' BY <1>1, <1>4 DEF PInv, ParticipantLog, CommittedEntry
  <2>4. WorkTask(p)' BY <1>1, <1>3, <1>4 DEF PInv, WorkTask, Log, AskLog
  <2>5. RecoveryTask(p)' BY <1>1, <1>3, <1>4 DEF PInv, RecoveryTask, Log
  <2>6. Channel(p)'
    BY <1>1, <1>2, <1>3, <1>4 DEF PInv, Channel, Carries, Matches, CommittedEntry
  <2>7. Result(p)'
    BY <1>1, <1>2, <1>3, <1>4 DEF PInv, Result, Matches, AskLog, CommittedEntry
  <2>8. Table(p)' BY <1>1, <1>2, <1>3, <1>4 DEF PInv, Table
  <2> QED BY <2>1, <2>2, <2>3, <2>4, <2>5, <2>6, <2>7, <2>8 DEF PInv
<1>7. \A q \in PId : q # p => SameParticipant(q)
  BY DEF IInv, TypeOK, ParticipantTypeOK, SameParticipant, PWFail, CloseLink,
       SendFails, RecvFails, pwUnchanged
<1> QED BY <1>1, <1>3, <1>4, <1>5, <1>6, <1>7, LocalStep
   DEF IInv, Progress, PInv, SlotUse, InRound

LEMMA PWGiveUpInv ==
  ASSUME IInv, NEW p \in PId, PWGiveUp(p)
  PROVE  IInv'
<1> USE DEF workVars, recoveryVars, lockVars
<1>1. PInv(p) /\ rslot[p].phase = "idle"
  BY OneSlotInUse DEF IInv, PInv, SlotUse, PWGiveUp
<1>3. /\ wslot'[p] = DoneSlot("FAIL", None) /\ wslot'[p].phase = "done"
      /\ wslot'[p].ret = "FAIL" /\ wslot'[p] \in Slot /\ wslot[p].phase = "closing"
      /\ pstate'[p] = "WAITING"
  BY <1>1, DoneSlotType DEF IInv, TypeOK, ParticipantTypeOK, Ret, PWGiveUp,
       participantVars, pwUnchanged
<1>4. /\ rslot'[p] = rslot[p] /\ ka'[p] = ka[p] /\ maxTxidTB'[p] = maxTxidTB[p]
      /\ ptxid'[p] = ptxid[p] /\ plog'[p] = plog[p] /\ link'[p] = link[p]
      /\ req'[p] = req[p] /\ resp'[p] = resp[p]
      /\ UNCHANGED <<workVars, recoveryVars, lockVars, txid, clog>>
  BY DEF IInv, TypeOK, ParticipantTypeOK, PWGiveUp, participantVars, pwUnchanged
<1>5. TypeOK'
  BY <1>1, <1>3 DEF IInv, TypeOK, ParticipantTypeOK, PWGiveUp, participantVars,
       pwUnchanged, PState
<1>6. PInv(p)'
  <2>1. SlotUse(p)' BY <1>1, <1>3, <1>4 DEF PInv, SlotUse
  <2>2. ActiveState(p)' BY <1>1, <1>3, <1>4 DEF PInv, ActiveState
  <2>3. ParticipantLog(p)' BY <1>1, <1>4 DEF PInv, ParticipantLog, CommittedEntry
  <2>4. WorkTask(p)' BY <1>1, <1>3, <1>4 DEF PInv, WorkTask, Log, AskLog
  <2>5. RecoveryTask(p)' BY <1>1, <1>3, <1>4 DEF PInv, RecoveryTask, Log
  <2>6. Channel(p)'
    BY <1>1, <1>3, <1>4 DEF PInv, Channel, Carries, Matches, CommittedEntry
  <2>7. Result(p)' BY <1>1, <1>3, <1>4 DEF PInv, Result, Matches, AskLog, CommittedEntry
  <2>8. Table(p)' BY <1>1, <1>3, <1>4 DEF PInv, Table, ActiveState
  <2> QED BY <2>1, <2>2, <2>3, <2>4, <2>5, <2>6, <2>7, <2>8 DEF PInv
<1>7. \A q \in PId : q # p => SameParticipant(q)
  BY DEF IInv, TypeOK, ParticipantTypeOK, SameParticipant, PWGiveUp, participantVars,
       pwUnchanged
<1> QED BY <1>1, <1>3, <1>4, <1>5, <1>6, <1>7, LocalStep
   DEF IInv, Progress, PInv, SlotUse, InRound

-----------------------------------------------------------------------------
(***************************************************************************)
(* pRecovery                                                               *)
(***************************************************************************)
LEMMA PRSkipInv ==
  ASSUME IInv, NEW p \in PId, PRSkip(p)
  PROVE  IInv'
<1> USE DEF workVars, recoveryVars, lockVars
<1>1. PInv(p) /\ wslot[p].phase = "idle"
  BY OneSlotInUse DEF IInv, PInv, SlotUse, PRSkip
<1>3. /\ rslot'[p] = DoneSlot("SKIP", None) /\ rslot'[p].phase = "done"
      /\ rslot'[p].ret = "SKIP" /\ rslot'[p] \in Slot /\ rslot[p].phase = "posted"
  BY <1>1, DoneSlotType DEF IInv, TypeOK, ParticipantTypeOK, Ret, PRSkip,
       participantVars, prUnchanged
<1>4. /\ wslot'[p] = wslot[p] /\ pstate'[p] = pstate[p] /\ ka'[p] = ka[p]
      /\ maxTxidTB'[p] = maxTxidTB[p] /\ ptxid'[p] = ptxid[p] /\ plog'[p] = plog[p]
      /\ link'[p] = link[p] /\ req'[p] = req[p] /\ resp'[p] = resp[p]
      /\ UNCHANGED <<workVars, recoveryVars, lockVars, txid, clog>>
  BY DEF IInv, TypeOK, ParticipantTypeOK, PRSkip, participantVars, prUnchanged
<1>5. TypeOK'
  BY <1>1, <1>3 DEF IInv, TypeOK, ParticipantTypeOK, PRSkip, participantVars,
       prUnchanged
<1>6. PInv(p)'
  <2>1. SlotUse(p)' BY <1>1, <1>3, <1>4 DEF PInv, SlotUse
  <2>2. ActiveState(p)' BY <1>1, <1>3, <1>4 DEF PInv, ActiveState
  <2>3. ParticipantLog(p)' BY <1>1, <1>4 DEF PInv, ParticipantLog, CommittedEntry
  <2>4. WorkTask(p)' BY <1>1, <1>3, <1>4 DEF PInv, WorkTask, Log, AskLog
  <2>5. RecoveryTask(p)' BY <1>1, <1>3, <1>4 DEF PInv, RecoveryTask, Log
  <2>6. Channel(p)'
    BY <1>1, <1>3, <1>4 DEF PInv, Channel, Carries, Matches, CommittedEntry
  <2>7. Result(p)' BY <1>1, <1>3, <1>4 DEF PInv, Result, Matches, AskLog, CommittedEntry
  <2>8. Table(p)' BY <1>1, <1>3, <1>4 DEF PInv, Table, RecoveryTask
  <2> QED BY <2>1, <2>2, <2>3, <2>4, <2>5, <2>6, <2>7, <2>8 DEF PInv
<1>7. \A q \in PId : q # p => SameParticipant(q)
  BY DEF IInv, TypeOK, ParticipantTypeOK, SameParticipant, PRSkip, participantVars,
       prUnchanged
<1> QED BY <1>1, <1>3, <1>4, <1>5, <1>6, <1>7, LocalStep
   DEF IInv, Progress, PInv, SlotUse, InRound

LEMMA PRSendInv ==
  ASSUME IInv, NEW p \in PId, PRSend(p)
  PROVE  IInv'
<1> USE DEF workVars, recoveryVars, lockVars
<1>1. PInv(p) /\ wslot[p].phase = "idle"
  BY OneSlotInUse DEF IInv, PInv, SlotUse, PRSend
<1>2. /\ rslot[p].task \in Task
      /\ (rslot[p].task \in LogEntry => rslot[p].task.ID = maxTxidTB[p] + 1)
  BY <1>1 DEF PInv, RecoveryTask, PRSend, inSequence, LogEntry
<1>3. /\ rslot'[p].phase = "sent" /\ rslot'[p].task = rslot[p].task
      /\ rslot'[p].ret = rslot[p].ret /\ rslot'[p].data = rslot[p].data
      /\ rslot[p].task \in Task /\ req'[p] = rslot[p].task /\ rslot'[p] \in Slot
      /\ link[p] = "up" /\ rslot[p].phase = "posted" /\ pstate[p] = "RECOVERY"
  BY <1>1, NoneAssumption, <1>2 DEF IInv, TypeOK, ParticipantTypeOK, Ret, PRSend,
       Deliver, SendFails, prUnchanged, Slot, Phase
<1>4. /\ wslot'[p] = wslot[p] /\ pstate'[p] = pstate[p] /\ ka'[p] = ka[p]
      /\ maxTxidTB'[p] = maxTxidTB[p] /\ ptxid'[p] = ptxid[p] /\ plog'[p] = plog[p]
      /\ link'[p] = link[p] /\ resp'[p] = resp[p]
      /\ UNCHANGED <<workVars, recoveryVars, lockVars, txid, clog>>
  BY DEF IInv, TypeOK, ParticipantTypeOK, PRSend, Deliver, SendFails, prUnchanged
<1>5. TypeOK'
  BY <1>1, <1>3 DEF IInv, TypeOK, ParticipantTypeOK, PRSend, Deliver, SendFails,
       prUnchanged
<1>6. PInv(p)'
  <2>1. SlotUse(p)' BY <1>1, <1>3, <1>4 DEF PInv, SlotUse
  <2>2. ActiveState(p)' BY <1>1, <1>3, <1>4 DEF PInv, ActiveState
  <2>3. ParticipantLog(p)' BY <1>1, <1>4 DEF PInv, ParticipantLog, CommittedEntry
  <2>4. WorkTask(p)' BY <1>1, <1>3, <1>4 DEF PInv, WorkTask, Log, AskLog
  <2>5. RecoveryTask(p)' BY <1>1, <1>2, <1>3, <1>4 DEF PInv, RecoveryTask, Log
  <2>6. Channel(p)'
    BY <1>1, <1>2, <1>3, <1>4 DEF PInv, Channel, Carries, Matches, CommittedEntry
  <2>7. Result(p)'
    BY <1>1, <1>2, <1>3, <1>4 DEF PInv, Result, Matches, AskLog, CommittedEntry
  <2>8. Table(p)' BY <1>1, <1>2, <1>3, <1>4 DEF PInv, Table
  <2> QED BY <2>1, <2>2, <2>3, <2>4, <2>5, <2>6, <2>7, <2>8 DEF PInv
<1>7. \A q \in PId : q # p => SameParticipant(q)
  BY DEF IInv, TypeOK, ParticipantTypeOK, SameParticipant, PRSend, Deliver,
       SendFails, prUnchanged
<1> QED BY <1>1, <1>3, <1>4, <1>5, <1>6, <1>7, LocalStep
   DEF IInv, Progress, PInv, SlotUse, InRound

LEMMA PRReceiveInv ==
  ASSUME IInv, NEW p \in PId, PRReceive(p)
  PROVE  IInv'
<1> USE DEF workVars, recoveryVars, lockVars
<1>1. PInv(p) /\ wslot[p].phase = "idle"
  BY OneSlotInUse DEF IInv, PInv, SlotUse, PRReceive
<1>2. /\ resp[p] \in Reply /\ req[p] = None
      /\ (rpc = "query" => resp[p].kind = "TXID")
  <2>1. Carries(p, rslot[p].task) /\ resp[p] # None
    BY <1>1 DEF PInv, Channel, PRReceive
  <2>2. ASSUME rpc = "query" PROVE resp[p].kind = "TXID"
    <3>1. rslot[p].task.ID = RECOVERY_TXID
      BY <1>1, <2>2 DEF PInv, RecoveryTask, PRReceive, Log
    <3> QED BY <2>1, <3>1 DEF Carries, Matches
  <2> QED BY <2>1, <2>2 DEF IInv, TypeOK, ParticipantTypeOK, Carries
<1>2a. /\ maxTxidTB'[p] \in 0 .. MaxTxid /\ rpc \in InRound
       /\ rpc # "query" => (maxTxidTB'[p] # 0 => maxTxidTB'[p] >= TXID_START - 1)
  <2>1. rpc \in {"query", "push", "replay"}
    BY <1>1 DEF PInv, SlotUse, PRReceive
  <2>2. /\ maxTxidTB \in [PId -> 0 .. MaxTxid]
        /\ maxTxidTB'[p] \in {maxTxidTB[p], maxTxidTB[p] + 1}
    BY DEF IInv, TypeOK, PRReceive
  <2>3. CASE rpc = "query"
    <3>1. maxTxidTB[p] = 0
      BY <1>1, <2>3 DEF PInv, RecoveryTask, PRReceive
    <3> QED BY <2>2, <2>3, <3>1 DEF InRound
  <2>4. CASE rpc \in {"push", "replay"}
    <3>1. maxTxidTB[p] + 1 \in Txid
      BY <1>1, <2>4 DEF PInv, RecoveryTask, PRReceive, LogEntry
    <3> QED BY <2>2, <2>4, <3>1 DEF InRound
  <2> QED BY <2>1, <2>3, <2>4
<1>3. /\ rslot[p].phase = "sent" /\ rslot'[p] = DoneSlot("OK", resp[p])
      /\ rslot'[p].phase = "done" /\ rslot'[p].ret = "OK" /\ rslot'[p].data = resp[p]
      /\ resp'[p] = None /\ rslot'[p] \in Slot
  <2>1. /\ DoneSlot("OK", resp[p]) \in Slot /\ DoneSlot("OK", resp[p]).phase = "done"
        /\ DoneSlot("OK", resp[p]).ret = "OK" /\ DoneSlot("OK", resp[p]).data = resp[p]
    BY <1>2, DoneSlotType DEF Ret
  <2>2. rslot'[p] = DoneSlot("OK", resp[p]) /\ resp'[p] = None
    BY DEF IInv, TypeOK, ParticipantTypeOK, PRReceive, TakeReply
  <2> QED BY <2>1, <2>2 DEF PRReceive
<1>4. /\ wslot'[p] = wslot[p] /\ pstate'[p] = pstate[p] /\ ka'[p] = ka[p]
      /\ ptxid'[p] = ptxid[p] /\ plog'[p] = plog[p] /\ link'[p] = link[p]
      /\ req'[p] = req[p] /\ UNCHANGED <<workVars, recoveryVars, lockVars, txid, clog>>
  BY DEF IInv, TypeOK, ParticipantTypeOK, PRReceive, TakeReply, prUnchanged
<1>5. TypeOK'
  BY <1>1, <1>3, <1>2a DEF IInv, TypeOK, ParticipantTypeOK, PRReceive, TakeReply,
       prUnchanged
<1>6. PInv(p)'
  <2>1. SlotUse(p)' BY <1>1, <1>3, <1>4 DEF PInv, SlotUse
  <2>2. ActiveState(p)' BY <1>1, <1>3, <1>4 DEF PInv, ActiveState
  <2>3. ParticipantLog(p)' BY <1>1, <1>4 DEF PInv, ParticipantLog, CommittedEntry
  <2>4. WorkTask(p)' BY <1>1, <1>3, <1>4 DEF PInv, WorkTask, Log, AskLog
  <2>5. RecoveryTask(p)' BY <1>1, <1>3, <1>4 DEF PInv, RecoveryTask, Log
  <2>6. Channel(p)'
    BY <1>1, <1>2, <1>3, <1>4 DEF PInv, Channel, Carries, Matches, CommittedEntry
  <2>7. Result(p)'
    BY <1>1, <1>2, <1>3, <1>4 DEF PInv, Result, Matches, AskLog, CommittedEntry
  <2>8. Table(p)' BY <1>1, <1>2, <1>3, <1>4 DEF PInv, Table, ActiveState
  <2> QED BY <2>1, <2>2, <2>3, <2>4, <2>5, <2>6, <2>7, <2>8 DEF PInv
<1>7. \A q \in PId : q # p => SameParticipant(q)
  BY DEF IInv, TypeOK, ParticipantTypeOK, SameParticipant, PRReceive, TakeReply,
       prUnchanged
<1> QED BY <1>4, <1>5, <1>6, <1>7, <1>2a, LocalStep
   DEF IInv, Progress, PInv, SlotUse, InRound

LEMMA PRFailInv ==
  ASSUME IInv, NEW p \in PId, PRFail(p)
  PROVE  IInv'
<1> USE DEF workVars, recoveryVars, lockVars
<1>1. PInv(p) /\ wslot[p].phase = "idle"
  BY OneSlotInUse DEF IInv, PInv, SlotUse, PRFail
<1>2. pstate[p] = "RECOVERY" /\ rslot[p].phase \in {"posted", "sent"}
  BY <1>1 DEF PInv, ActiveState, PRFail
<1>3. /\ rslot'[p].phase = "closing" /\ rslot'[p].ret = "SKIP" /\ rslot'[p] \in Slot
      /\ resp'[p] = None /\ link'[p] # "up"
      /\ (link'[p] \in {"down", "listen"} => link[p] = link'[p])
      /\ rslot[p].phase \in {"posted", "sent"} /\ pstate[p] = "RECOVERY"
  BY <1>1, <1>2 DEF IInv, TypeOK, ParticipantTypeOK, Ret, PRFail, CloseLink,
       SendFails, RecvFails, prUnchanged, IdleSlot, Slot, Phase, LinkState
<1>4. /\ wslot'[p] = wslot[p] /\ pstate'[p] = pstate[p] /\ ka'[p] = ka[p]
      /\ maxTxidTB'[p] = maxTxidTB[p] /\ ptxid'[p] = ptxid[p] /\ plog'[p] = plog[p]
      /\ req'[p] = req[p] /\ UNCHANGED <<workVars, recoveryVars, lockVars, txid, clog>>
  BY DEF IInv, TypeOK, ParticipantTypeOK, PRFail, CloseLink, SendFails, RecvFails,
       prUnchanged
<1>5. TypeOK'
  BY <1>1, <1>3 DEF IInv, TypeOK, ParticipantTypeOK, PRFail, CloseLink, SendFails,
       RecvFails, prUnchanged, LinkState
<1>6. PInv(p)'
  <2>1. SlotUse(p)' BY <1>1, <1>3, <1>4 DEF PInv, SlotUse
  <2>2. ActiveState(p)' BY <1>1, <1>3, <1>4 DEF PInv, ActiveState
  <2>3. ParticipantLog(p)' BY <1>1, <1>4 DEF PInv, ParticipantLog, CommittedEntry
  <2>4. WorkTask(p)' BY <1>1, <1>3, <1>4 DEF PInv, WorkTask, Log, AskLog
  <2>5. RecoveryTask(p)' BY <1>1, <1>3, <1>4 DEF PInv, RecoveryTask, Log
  <2>6. Channel(p)'
    BY <1>1, <1>2, <1>3, <1>4 DEF PInv, Channel, Carries, Matches, CommittedEntry
  <2>7. Result(p)'
    BY <1>1, <1>2, <1>3, <1>4 DEF PInv, Result, Matches, AskLog, CommittedEntry
  <2>8. Table(p)' BY <1>1, <1>2, <1>3, <1>4 DEF PInv, Table
  <2> QED BY <2>1, <2>2, <2>3, <2>4, <2>5, <2>6, <2>7, <2>8 DEF PInv
<1>7. \A q \in PId : q # p => SameParticipant(q)
  BY DEF IInv, TypeOK, ParticipantTypeOK, SameParticipant, PRFail, CloseLink,
       SendFails, RecvFails, prUnchanged
<1> QED BY <1>1, <1>3, <1>4, <1>5, <1>6, <1>7, LocalStep
   DEF IInv, Progress, PInv, SlotUse, InRound

LEMMA PRGiveUpInv ==
  ASSUME IInv, NEW p \in PId, PRGiveUp(p)
  PROVE  IInv'
<1> USE DEF workVars, recoveryVars, lockVars
<1>1. PInv(p) /\ wslot[p].phase = "idle"
  BY OneSlotInUse DEF IInv, PInv, SlotUse, PRGiveUp
<1>3. /\ rslot'[p] = DoneSlot("FAIL", None) /\ rslot'[p].phase = "done"
      /\ rslot'[p].ret = "FAIL" /\ rslot'[p] \in Slot /\ rslot[p].phase = "closing"
      /\ pstate'[p] = "WAITING" /\ maxTxidTB'[p] = 0
  BY <1>1, DoneSlotType DEF IInv, TypeOK, ParticipantTypeOK, Ret, PRGiveUp,
       participantVars, prUnchanged
<1>4. /\ wslot'[p] = wslot[p] /\ ka'[p] = ka[p] /\ ptxid'[p] = ptxid[p]
      /\ plog'[p] = plog[p] /\ link'[p] = link[p] /\ req'[p] = req[p] /\ resp'[p] = resp[p]
      /\ UNCHANGED <<workVars, recoveryVars, lockVars, txid, clog>>
  BY DEF IInv, TypeOK, ParticipantTypeOK, PRGiveUp, participantVars, prUnchanged
<1>5. TypeOK'
  BY <1>1, <1>3 DEF IInv, TypeOK, ParticipantTypeOK, PRGiveUp, participantVars,
       prUnchanged, PState
<1>6. PInv(p)'
  <2>1. SlotUse(p)' BY <1>1, <1>3, <1>4 DEF PInv, SlotUse
  <2>2. ActiveState(p)' BY <1>1, <1>3, <1>4 DEF PInv, ActiveState
  <2>3. ParticipantLog(p)' BY <1>1, <1>4 DEF PInv, ParticipantLog, CommittedEntry
  <2>4. WorkTask(p)' BY <1>1, <1>3, <1>4 DEF PInv, WorkTask, Log, AskLog
  <2>5. RecoveryTask(p)' BY <1>1, <1>3, <1>4 DEF PInv, RecoveryTask, Log
  <2>6. Channel(p)'
    BY <1>1, <1>3, <1>4 DEF PInv, Channel, Carries, Matches, CommittedEntry
  <2>7. Result(p)' BY <1>1, <1>3, <1>4 DEF PInv, Result, Matches, AskLog, CommittedEntry
  <2>8. Table(p)' BY <1>1, <1>3, <1>4 DEF PInv, Table
  <2> QED BY <2>1, <2>2, <2>3, <2>4, <2>5, <2>6, <2>7, <2>8 DEF PInv
<1>7. \A q \in PId : q # p => SameParticipant(q)
  BY DEF IInv, TypeOK, ParticipantTypeOK, SameParticipant, PRGiveUp, participantVars,
       prUnchanged
<1> QED BY <1>1, <1>3, <1>4, <1>5, <1>6, <1>7, LocalStep
   DEF IInv, Progress, PInv, SlotUse, InRound

-----------------------------------------------------------------------------
(***************************************************************************)
(* The participants                                                        *)
(***************************************************************************)
\* A connection that works carries a task only for the slot that was sent.
LEMMA TaskOnItsWay ==
  ASSUME IInv, NEW p \in PId, link[p] = "up", req[p] # None
  PROVE  /\ \/ wslot[p].phase = "sent" /\ req[p] = wslot[p].task
            \/ rslot[p].phase = "sent" /\ req[p] = rslot[p].task
         /\ req[p].ID = ASK_DATA_TXID => req[p].asks \in Txid
<1> USE DEF SUPER_TXID, RECOVERY_TXID, ASK_DATA_TXID
<1>1. PInv(p)
  BY DEF IInv
<1>2. CASE wslot[p].phase = "sent"
  <2>1. req[p] = wslot[p].task
    BY <1>1, <1>2 DEF PInv, Channel, Carries
  <2>2. wpc \in {"votes", "commits"} \/ wpc = "get" \/ rpc = "ask"
    BY <1>1, <1>2 DEF PInv, SlotUse
  <2>3. ASSUME wpc \in {"votes", "commits"} \/ wpc = "get"
        PROVE  req[p].ID # ASK_DATA_TXID
    <3>1. txid >= TXID_START
      BY DEF IInv, TypeOK
    <3> QED BY <1>1, <1>2, <2>1, <2>3, <3>1 DEF PInv, WorkTask, Log
  <2>4. ASSUME rpc = "ask"
        PROVE  req[p].asks \in Txid
    <3>1. minID \in Txid
      BY <2>4 DEF IInv, TypeOK, Progress
    <3> QED BY <1>1, <1>2, <2>1, <2>4, <3>1 DEF PInv, WorkTask, AskLog
  <2> QED BY <1>2, <2>1, <2>2, <2>3, <2>4
<1>3. CASE rslot[p].phase = "sent"
  <2>1. req[p] = rslot[p].task
    BY <1>1, <1>3 DEF PInv, Channel, Carries
  <2>2. rpc \in {"query", "push", "replay"}
    BY <1>1, <1>3 DEF PInv, SlotUse
  <2>3. req[p].ID # ASK_DATA_TXID
    BY <1>1, <1>3, <2>1, <2>2 DEF PInv, RecoveryTask, Log, LogEntry
  <2> QED BY <1>3, <2>1, <2>3
<1> QED BY <1>1, <1>2, <1>3 DEF PInv, Channel

\* What a participant answers is a reply, and the right kind of reply.
LEMMA WorkerReplyType ==
  ASSUME IInv, NEW p \in PId, NEW l \in Task, l.ID = ASK_DATA_TXID => l.asks \in Txid
  PROVE  workerReply(p, l) \in Reply /\ Matches(l, workerReply(p, l))
<1> USE DEF SUPER_TXID, RECOVERY_TXID, ASK_DATA_TXID
<1>1. /\ l.event \in Command \cup {<<>>} /\ kv[p] \in Database
      /\ ptxid[p] \in TXID_START .. MaxTxid + 1
  BY DEF Task, IInv, TypeOK, ParticipantTypeOK
<1>2. eventParser(kv[p], l.event).reply \in KVReply
  BY <1>1, EventParserType
<1>3. CASE l.ID = SUPER_TXID
  BY <1>1, <1>2, <1>3 DEF workerReply, commits, Reply, Matches
<1>4. CASE l.ID = RECOVERY_TXID
  <2>1. ptxid[p] - 1 \in (TXID_START - 1) .. MaxTxid
    BY DEF IInv, TypeOK, ParticipantTypeOK
  <2>2. workerReply(p, l) = [kind |-> "TXID", txid |-> ptxid[p] - 1]
    BY <1>1, <1>4 DEF workerReply, commits, TxidReply
  <2> QED BY <1>4, <2>1, <2>2 DEF Reply, Matches
<1>5. CASE l.ID = ASK_DATA_TXID /\ l.asks >= ptxid[p]
  BY <1>1, <1>5 DEF workerReply, commits, Reply, Matches
<1>6. CASE l.ID = ASK_DATA_TXID /\ ~(l.asks >= ptxid[p])
  <2>1. plog[p][l.asks] \in CommittedEntry(l.asks)
    BY <1>6 DEF IInv, TypeOK, ParticipantTypeOK, PInv, ParticipantLog
  <2>2. workerReply(p, l) = [kind |-> "LOG", log |-> plog[p][l.asks]]
    BY <1>1, <1>6 DEF workerReply, commits, LogReply
  <2> QED BY <1>6, <2>1, <2>2 DEF Reply, Matches, CommittedEntry
<1>7. CASE l.ID \notin {SUPER_TXID, RECOVERY_TXID, ASK_DATA_TXID}
  <2>1. workerReply(p, l) \in {PreReply, ErrorReply, eventParser(kv[p], l.event).reply}
    BY <1>7 DEF workerReply
  <2> QED BY <1>2, <1>7, <2>1 DEF Reply, Matches, KVReply
<1> QED BY <1>3, <1>4, <1>5, <1>6, <1>7

LEMMA PWorkingInv ==
  ASSUME IInv, NEW p \in PId, PWorking(p), UNCHANGED coordinatorVars
  PROVE  IInv'
<1> DEFINE l == req[p]
<1> USE DEF coordinatorVars, workVars, recoveryVars, lockVars, stateVars
<1>1. PInv(p)
  BY DEF IInv
<1>2. /\ l \in Task /\ l.event \in Command \cup {<<>>}
      /\ ptxid[p] \in TXID_START .. MaxTxid + 1
  BY DEF PWorking, IInv, TypeOK, ParticipantTypeOK, Task
<1>3. eventParser(kv[p], l.event).db \in Database
  BY <1>2, EventParserType DEF IInv, TypeOK, ParticipantTypeOK
<1>4. logsTask(p, l) => l \in CommittedEntry(ptxid[p]) /\ ptxid[p] \in Txid
  BY <1>2 DEF logsTask, commits, CommittedEntry, LogEntry, Task, SUPER_TXID,
       RECOVERY_TXID, ASK_DATA_TXID
<1>5. /\ link'[p] = link[p] /\ req'[p] = None
      /\ resp'[p] = IF link[p] = "up" THEN workerReply(p, l) ELSE None
  BY DEF PWorking, IInv, TypeOK, ParticipantTypeOK
<1>6. link[p] = "up" => resp'[p] \in Reply /\ Matches(l, resp'[p])
  BY <1>2, <1>5, TaskOnItsWay, WorkerReplyType DEF PWorking
<1>7. ParticipantTypeOK'
  <2>1. /\ plog' \in [PId -> [Txid -> LogEntry \cup {None}]]
        /\ ptxid' \in [PId -> TXID_START .. MaxTxid + 1]
    <3>1. CASE logsTask(p, l)
      <4>1. l \in LogEntry /\ l.ID \in Txid
        BY <1>4, <3>1 DEF CommittedEntry, LogEntry
      <4>2. ptxid[p] + 1 \in TXID_START .. MaxTxid + 1
        BY <1>4, <3>1
      <4>3. /\ plog' = [plog EXCEPT ![p] = [plog[p] EXCEPT ![l.ID] = l]]
            /\ ptxid' = [ptxid EXCEPT ![p] = ptxid[p] + 1]
        BY <3>1 DEF PWorking
      <4>4. plog \in [PId -> [Txid -> LogEntry \cup {None}]] /\ ptxid \in [PId -> TXID_START .. MaxTxid + 1]
        BY DEF IInv, TypeOK, ParticipantTypeOK
      <4>5. [plog[p] EXCEPT ![l.ID] = l] \in [Txid -> LogEntry \cup {None}]
        BY <4>1, <4>4
      <4> QED BY <4>2, <4>3, <4>4, <4>5
    <3>2. CASE ~logsTask(p, l)
      BY <3>2 DEF PWorking, IInv, TypeOK, ParticipantTypeOK
    <3> QED BY <3>1, <3>2
  <2>2. kv' \in [PId -> Database]
    BY <1>3 DEF PWorking, IInv, TypeOK, ParticipantTypeOK
  <2>3. resp' \in [PId -> Reply \cup {None}] /\ req' \in [PId -> Task \cup {None}]
    BY <1>5, <1>6 DEF PWorking, IInv, TypeOK, ParticipantTypeOK
  <2> QED BY <2>1, <2>2, <2>3 DEF PWorking, IInv, TypeOK, ParticipantTypeOK
<1>8. TypeOK'
  BY <1>7 DEF IInv, TypeOK
<1>9. PInv(p)'
  <2>1. SlotUse(p)' BY <1>1 DEF PInv, SlotUse
  <2>2. ActiveState(p)' BY <1>1 DEF PInv, ActiveState
  <2>3. ParticipantLog(p)'
    <3>1. CASE logsTask(p, l)
      <4>1. ptxid'[p] = ptxid[p] + 1 /\ plog'[p] = [plog[p] EXCEPT ![l.ID] = l]
        BY <3>1 DEF PWorking, IInv, TypeOK, ParticipantTypeOK
      <4>2. plog[p] \in [Txid -> LogEntry \cup {None}]
        BY DEF IInv, TypeOK, ParticipantTypeOK
      <4> QED BY <1>1, <1>2, <1>4, <3>1, <4>1, <4>2
         DEF PInv, ParticipantLog, CommittedEntry, logsTask, commits
    <3>2. CASE ~logsTask(p, l)
      BY <1>1, <3>2 DEF PWorking, PInv, ParticipantLog, CommittedEntry
    <3> QED BY <3>1, <3>2
  <2>4. WorkTask(p)' BY <1>1 DEF PInv, WorkTask, Log, AskLog
  <2>5. RecoveryTask(p)' BY <1>1 DEF PInv, RecoveryTask, Log
  <2>6. Channel(p)'
    <3>1. CASE link[p] = "up"
      <4>1. \/ wslot[p].phase = "sent" /\ l = wslot[p].task
            \/ rslot[p].phase = "sent" /\ l = rslot[p].task
        BY <3>1, TaskOnItsWay DEF PWorking
      <4>2. wslot[p].phase = "idle" \/ rslot[p].phase = "idle"
        BY <1>1, OneSlotInUse DEF IInv, PInv
      <4> QED BY <1>5, <1>6, <3>1, <4>1, <4>2
         DEF Channel, Carries, Matches, CommittedEntry
    <3>2. CASE link[p] = "half"
      BY <1>1, <1>5, <3>2 DEF PInv, Channel, Carries
    <3> QED BY <3>1, <3>2 DEF PWorking
  <2>7. Result(p)' BY <1>1 DEF PInv, Result, Matches, AskLog, CommittedEntry
  <2>8. Table(p)' BY <1>1 DEF PInv, Table
  <2> QED BY <2>1, <2>2, <2>3, <2>4, <2>5, <2>6, <2>7, <2>8 DEF PInv
<1>10. \A q \in PId : q # p => SameParticipant(q)
  BY DEF PWorking, IInv, TypeOK, ParticipantTypeOK, SameParticipant
<1> QED BY <1>8, <1>9, <1>10, LocalStep DEF IInv, Progress

LEMMA PKeepAliveInv ==
  ASSUME IInv, NEW p \in PId, PKeepAlive(p), UNCHANGED coordinatorVars
  PROVE  IInv'
<1> USE DEF coordinatorVars, workVars, recoveryVars, lockVars, stateVars
<1>1. PInv(p)
  BY DEF IInv
<1>2. /\ link[p] = "half" /\ link'[p] = "listen" /\ req'[p] = None /\ resp'[p] = resp[p]
      /\ ptxid'[p] = ptxid[p] /\ plog'[p] = plog[p]
  BY DEF PKeepAlive, IInv, TypeOK, ParticipantTypeOK
<1>3. TypeOK'
  BY DEF PKeepAlive, IInv, TypeOK, ParticipantTypeOK, LinkState, EmptyDatabase, Database
<1>4. PInv(p)'
  <2>1. SlotUse(p)' BY <1>1 DEF PInv, SlotUse
  <2>2. ActiveState(p)' BY <1>1 DEF PInv, ActiveState
  <2>3. ParticipantLog(p)' BY <1>1, <1>2 DEF PInv, ParticipantLog, CommittedEntry
  <2>4. WorkTask(p)' BY <1>1 DEF PInv, WorkTask, Log, AskLog
  <2>5. RecoveryTask(p)' BY <1>1 DEF PInv, RecoveryTask, Log
  <2>6. Channel(p)' BY <1>1, <1>2 DEF PInv, Channel, Carries, Matches, CommittedEntry
  <2>7. Result(p)' BY <1>1 DEF PInv, Result, Matches, AskLog, CommittedEntry
  <2>8. Table(p)' BY <1>1 DEF PInv, Table
  <2> QED BY <2>1, <2>2, <2>3, <2>4, <2>5, <2>6, <2>7, <2>8 DEF PInv
<1>5. \A q \in PId : q # p => SameParticipant(q)
  BY DEF PKeepAlive, IInv, TypeOK, ParticipantTypeOK, SameParticipant
<1> QED BY <1>3, <1>4, <1>5, LocalStep DEF IInv, Progress

LEMMA PCrashInv ==
  ASSUME IInv, NEW p \in PId, PCrash(p), UNCHANGED coordinatorVars
  PROVE  IInv'
<1> USE DEF coordinatorVars, workVars, recoveryVars, lockVars, stateVars
<1>1. PInv(p)
  BY DEF IInv
<1>2. /\ link'[p] = "down" /\ req'[p] = None /\ resp'[p] = resp[p]
      /\ ptxid'[p] = TXID_START
  BY DEF PCrash, IInv, TypeOK, ParticipantTypeOK
<1>3. TypeOK'
  BY DEF PCrash, IInv, TypeOK, ParticipantTypeOK, LinkState, EmptyDatabase, Database
<1>4. PInv(p)'
  <2>1. SlotUse(p)' BY <1>1 DEF PInv, SlotUse
  <2>2. ActiveState(p)' BY <1>1 DEF PInv, ActiveState
  <2>3. ParticipantLog(p)' BY <1>1, <1>2 DEF PInv, ParticipantLog, CommittedEntry
  <2>4. WorkTask(p)' BY <1>1 DEF PInv, WorkTask, Log, AskLog
  <2>5. RecoveryTask(p)' BY <1>1 DEF PInv, RecoveryTask, Log
  <2>6. Channel(p)' BY <1>1, <1>2 DEF PInv, Channel, Carries, Matches, CommittedEntry
  <2>7. Result(p)' BY <1>1 DEF PInv, Result, Matches, AskLog, CommittedEntry
  <2>8. Table(p)' BY <1>1 DEF PInv, Table
  <2> QED BY <2>1, <2>2, <2>3, <2>4, <2>5, <2>6, <2>7, <2>8 DEF PInv
<1>5. \A q \in PId : q # p => SameParticipant(q)
  BY DEF PCrash, IInv, TypeOK, ParticipantTypeOK, SameParticipant
<1> QED BY <1>3, <1>4, <1>5, LocalStep DEF IInv, Progress

LEMMA PRestartInv ==
  ASSUME IInv, NEW p \in PId, PRestart(p), UNCHANGED coordinatorVars
  PROVE  IInv'
<1> USE DEF coordinatorVars, workVars, recoveryVars, lockVars, stateVars
<1>1. PInv(p)
  BY DEF IInv
<1>2. /\ link[p] = "down" /\ link'[p] = "listen" /\ req'[p] = req[p] /\ resp'[p] = resp[p]
      /\ ptxid'[p] = ptxid[p] /\ plog'[p] = plog[p]
  BY DEF PRestart, IInv, TypeOK, ParticipantTypeOK
<1>3. TypeOK'
  BY DEF PRestart, IInv, TypeOK, ParticipantTypeOK, LinkState, EmptyDatabase, Database
<1>4. PInv(p)'
  <2>1. SlotUse(p)' BY <1>1 DEF PInv, SlotUse
  <2>2. ActiveState(p)' BY <1>1 DEF PInv, ActiveState
  <2>3. ParticipantLog(p)' BY <1>1, <1>2 DEF PInv, ParticipantLog, CommittedEntry
  <2>4. WorkTask(p)' BY <1>1 DEF PInv, WorkTask, Log, AskLog
  <2>5. RecoveryTask(p)' BY <1>1 DEF PInv, RecoveryTask, Log
  <2>6. Channel(p)' BY <1>1, <1>2 DEF PInv, Channel, Carries, Matches, CommittedEntry
  <2>7. Result(p)' BY <1>1 DEF PInv, Result, Matches, AskLog, CommittedEntry
  <2>8. Table(p)' BY <1>1 DEF PInv, Table
  <2> QED BY <2>1, <2>2, <2>3, <2>4, <2>5, <2>6, <2>7, <2>8 DEF PInv
<1>5. \A q \in PId : q # p => SameParticipant(q)
  BY DEF PRestart, IInv, TypeOK, ParticipantTypeOK, SameParticipant
<1> QED BY <1>3, <1>4, <1>5, LocalStep DEF IInv, Progress

-----------------------------------------------------------------------------
(***************************************************************************)
(* work                                                                    *)
(***************************************************************************)
Exchanging == {"votes", "commits", "get"}

\* Outside of an exchange, a step of work that hands out nothing disturbs
\* nobody.
LEMMA WorkAlone ==
  ASSUME IInv, TypeOK', wpc \notin Exchanging, wpc' \notin Exchanging,
         UNCHANGED <<participantVars, recoveryVars, lockVars, txid, clog,
                     pstate, maxTxidTB, ka, wslot, rslot>>
  PROVE  IInv'
<1> USE DEF participantVars, recoveryVars, lockVars, Exchanging
<1>1. Locks' BY DEF IInv, Locks
<1>2. CoordinatorLog' BY DEF IInv, CoordinatorLog, CommittedEntry
<1>3. Progress' BY DEF IInv, Progress
<1>4. ASSUME NEW p \in PId PROVE PInv(p)'
  <2>0. PInv(p) BY DEF IInv
  <2>1. SlotUse(p)' BY <2>0 DEF PInv, SlotUse
  <2>2. ActiveState(p)' BY <2>0 DEF PInv, ActiveState
  <2>3. ParticipantLog(p)' BY <2>0 DEF PInv, ParticipantLog, CommittedEntry
  <2>4. WorkTask(p)' BY <2>0 DEF PInv, WorkTask, AskLog
  <2>5. RecoveryTask(p)' BY <2>0 DEF PInv, RecoveryTask, Log
  <2>6. Channel(p)' BY <2>0 DEF PInv, Channel, Carries, Matches, CommittedEntry
  <2>7. Result(p)' BY <2>0 DEF PInv, Result, Matches, AskLog, CommittedEntry
  <2>8. Table(p)' BY <2>0 DEF PInv, Table
  <2> QED BY <2>1, <2>2, <2>3, <2>4, <2>5, <2>6, <2>7, <2>8 DEF PInv
<1> QED BY <1>1, <1>2, <1>3, <1>4 DEF IInv

\* What work may put into the slot of p.
WorkPosts(p) ==
  \/ wslot'[p] = wslot[p] /\ wslot[p].phase = "idle"
  \/ wslot'[p] = IdleSlot
  \/ \E task \in Task :
       /\ wslot'[p] = PostedSlot(task)
       /\ wpc' \in {"votes", "commits"} \/ (wpc' = "get" /\ asked' = p)
       /\ wpc' = "votes" => task = Log(txid', "PRE", <<>>)
       /\ wpc' = "commits" => task = Log(txid', "COMMIT", cmd')
       /\ wpc' = "get" => task = Log(SUPER_TXID, "COMMIT", cmd')

\* A step of work with the mutex, when all results it waited for are there.
LEMMA WorkExchange ==
  ASSUME IInv, TypeOK', Locks', CoordinatorLog', rpc \notin InRound,
         \A p \in PId : wslot[p].phase \in {"idle", "done"} /\ WorkPosts(p),
         UNCHANGED <<participantVars, recoveryVars, pstate, maxTxidTB, ka, rslot>>,
         txid' >= txid
  PROVE  IInv'
<1> USE DEF participantVars, recoveryVars
<1>1. Progress'
  BY DEF IInv, Progress, InRound
<1>2. ASSUME NEW p \in PId PROVE PInv(p)'
  <2>1. PInv(p) BY DEF IInv
  <2>2. rslot[p].phase = "idle" BY <2>1 DEF PInv, SlotUse, InRound
  <2>3. wslot[p].phase \in {"idle", "done"} /\ WorkPosts(p) BY <1>2
  <2>4. /\ wslot'[p].phase \in {"idle", "posted"}
        /\ wslot'[p].phase # "idle" =>
             wpc' \in {"votes", "commits"} \/ (wpc' = "get" /\ asked' = p)
    BY <2>3, IdleSlotType, PostedSlotType DEF WorkPosts
  <2>5. SlotUse(p)' BY <2>2, <2>4 DEF SlotUse
  <2>6. ActiveState(p)' BY <2>1, <2>2, <2>4 DEF PInv, ActiveState
  <2>7. ParticipantLog(p)' BY <2>1 DEF PInv, ParticipantLog, CommittedEntry
  <2>8. WorkTask(p)'
    <3>1. CASE wslot'[p].phase = "idle"
      BY <3>1 DEF WorkTask
    <3>2. CASE wslot'[p].phase = "posted"
      <4>1. PICK task \in Task :
              /\ wslot'[p] = PostedSlot(task)
              /\ wpc' = "votes" => task = Log(txid', "PRE", <<>>)
              /\ wpc' = "commits" => task = Log(txid', "COMMIT", cmd')
              /\ wpc' = "get" => task = Log(SUPER_TXID, "COMMIT", cmd')
        BY <2>3, <3>2, IdleSlotType DEF WorkPosts
      <4>2. wslot'[p].task = task
        BY <4>1, PostedSlotType
      <4>3. rpc' # "ask"
        BY DEF InRound
      <4> QED BY <4>1, <4>2, <4>3 DEF WorkTask, Log
    <3> QED BY <2>4, <3>1, <3>2
  <2>9. RecoveryTask(p)' BY <2>2 DEF RecoveryTask
  <2>10. Channel(p)' BY <2>1, <2>2, <2>3, <2>4 DEF PInv, Channel
  <2>11. Result(p)'
    <3>1. wslot'[p].ret = "OK" => wslot'[p].data \in Reply
      BY <2>1, <2>3, IdleSlotType, PostedSlotType DEF PInv, Result, WorkPosts
    <3>2. rpc' \notin {"query", "ask"}
      BY DEF InRound
    <3> QED BY <2>1, <3>1, <3>2 DEF PInv, Result
  <2>12. Table(p)' BY <2>1 DEF PInv, Table
  <2> QED BY <2>5, <2>6, <2>7, <2>8, <2>9, <2>10, <2>11, <2>12 DEF PInv
<1> QED BY <1>1, <1>2 DEF IInv

LEMMA WorkAloneInv ==
  ASSUME IInv, \/ \E c \in Command : AcceptClient(c)
               \/ Refuse \/ Admit \/ BadCommand
  PROVE  IInv'
<1> USE DEF workUnchanged, participantVars, recoveryVars, lockVars, Exchanging
<1>1. ErrorReply \in Reply /\ 1 \in PId
  BY DEF Reply, KVReply
<1>2. CASE \E c \in Command : AcceptClient(c)
  <2>1. TypeOK'
    BY <1>1, <1>2 DEF IInv, TypeOK, ParticipantTypeOK, WorkPC, AcceptClient
  <2> QED BY <1>2, <2>1, WorkAlone DEF AcceptClient
<1>3. CASE Refuse
  <2>1. TypeOK'
    BY <1>1, <1>3 DEF IInv, TypeOK, ParticipantTypeOK, WorkPC, Refuse, Answer
  <2> QED BY <1>3, <2>1, WorkAlone DEF Refuse, Answer
<1>4. CASE Admit
  <2>1. TypeOK'
    BY <1>4 DEF IInv, TypeOK, ParticipantTypeOK, WorkPC, Admit
  <2> QED BY <1>4, <2>1, WorkAlone DEF Admit
<1>5. CASE BadCommand
  <2>1. TypeOK'
    BY <1>1, <1>5 DEF IInv, TypeOK, ParticipantTypeOK, WorkPC, BadCommand, Answer
  <2> QED BY <1>5, <2>1, WorkAlone DEF BadCommand, Answer
<1> QED BY <1>2, <1>3, <1>4, <1>5

LEMMA StartUpdateInv ==
  ASSUME IInv, StartUpdate
  PROVE  IInv'
<1> USE DEF workUnchanged, participantVars, recoveryVars
<1> DEFINE task == Log(txid, "PRE", <<>>)
<1>1. txid \in Txid /\ cmd \in Command \cup {<<>>} /\ wpc = "lock" /\ rpc \notin InRound
  BY DEF IInv, TypeOK, Locks, StartUpdate
<1>2. task \in Task /\ Log(txid, "PRE", cmd) \in LogEntry /\ Log(txid, "PRE", cmd).ID = txid
  BY <1>1, TaskType DEF LogState
<1>3. /\ wslot' = [p \in PId |-> PostedSlot(task)] /\ wpc' = "votes" /\ txid' = txid
      /\ clog' = [clog EXCEPT ![txid] = Log(txid, "PRE", cmd)] /\ workingMutex' = "work"
  BY DEF StartUpdate, PostAll, voteSlot
<1>4. clog \in [Txid -> LogEntry \cup {None}]
  BY DEF IInv, TypeOK
<1>5. TypeOK'
  <2>1. wslot' \in [PId -> Slot]
    BY <1>2, <1>3, PostedSlotType
  <2>2. clog' \in [Txid -> LogEntry \cup {None}]
    BY <1>2, <1>3, <1>4
  <2> QED BY <1>3, <2>1, <2>2 DEF IInv, TypeOK, ParticipantTypeOK, WorkPC, StartUpdate
<1>6. Locks'
  BY <1>1, <1>3 DEF IInv, Locks, InRound, StartUpdate
<1>7. CoordinatorLog'
  BY <1>1, <1>2, <1>3, <1>4 DEF IInv, CoordinatorLog, CommittedEntry
<1>8. \A p \in PId : wslot[p].phase \in {"idle", "done"} /\ WorkPosts(p)
  BY <1>2, <1>3 DEF StartUpdate, AllIdle, WorkPosts
<1> QED BY <1>1, <1>5, <1>6, <1>7, <1>8, WorkExchange DEF IInv, TypeOK, StartUpdate

LEMMA CollectVotesInv ==
  ASSUME IInv, CollectVotes
  PROVE  IInv'
<1> USE DEF workUnchanged, participantVars, recoveryVars
<1> DEFINE task == Log(txid, "COMMIT", cmd)
<1>1. /\ txid \in Txid /\ cmd \in Command \cup {<<>>} /\ wpc = "votes" /\ rpc \notin InRound
      /\ txid' = txid /\ clog' = clog
  BY DEF IInv, TypeOK, Locks, CoordinatorLog, CollectVotes
<1>2. task \in Task
  BY <1>1, TaskType DEF LogState
<1>3. CASE voted
  <2>1. wslot' = [p \in PId |-> PostedSlot(task)] /\ wpc' = "commits" /\ cmd' = cmd
    BY <1>3 DEF CollectVotes, PostAll
  <2>2. wslot' \in [PId -> Slot]
    BY <1>2, <2>1, PostedSlotType
  <2>3. TypeOK'
    BY <1>3, <2>1, <2>2 DEF IInv, TypeOK, ParticipantTypeOK, WorkPC, CollectVotes
  <2>4. Locks'
    BY <1>1, <1>3, <2>1 DEF IInv, Locks, InRound, CollectVotes
  <2>5. CoordinatorLog'
    BY <1>1, <2>1 DEF IInv, CoordinatorLog, CommittedEntry
  <2>6. \A p \in PId : wslot[p].phase \in {"idle", "done"} /\ WorkPosts(p)
    BY <1>1, <1>2, <2>1 DEF CollectVotes, AllDone, WorkPosts
  <2> QED BY <1>1, <2>3, <2>4, <2>5, <2>6, WorkExchange DEF IInv, TypeOK, CollectVotes
<1>4. CASE ~voted
  <2>1. wslot' = [p \in PId |-> IdleSlot] /\ wpc' = "accept" /\ workingMutex' = "free"
    BY <1>4 DEF CollectVotes, CollectAll, Answer
  <2>2. wslot' \in [PId -> Slot]
    BY <2>1, IdleSlotType
  <2>3. TypeOK'
    BY <1>4, <2>2 DEF IInv, TypeOK, ParticipantTypeOK, WorkPC, CollectVotes, Answer,
         Reply, KVReply
  <2>4. Locks'
    BY <1>1, <2>1 DEF IInv, Locks, InRound, CollectVotes
  <2>5. CoordinatorLog'
    BY <1>1, <2>1 DEF IInv, CoordinatorLog, CommittedEntry
  <2>6. \A p \in PId : wslot[p].phase \in {"idle", "done"} /\ WorkPosts(p)
    BY <2>1 DEF CollectVotes, AllDone, WorkPosts
  <2> QED BY <1>1, <2>3, <2>4, <2>5, <2>6, WorkExchange DEF IInv, TypeOK, CollectVotes
<1> QED BY <1>3, <1>4

LEMMA CollectCommitsInv ==
  ASSUME IInv, CollectCommits
  PROVE  IInv'
<1> USE DEF workUnchanged, participantVars, recoveryVars
<1>1. /\ txid \in Txid /\ wpc = "commits" /\ rpc \notin InRound /\ wpc' = "accept"
      /\ clog[txid] \in LogEntry /\ clog[txid].ID = txid
      /\ clog \in [Txid -> LogEntry \cup {None}]
  BY DEF IInv, TypeOK, Locks, CoordinatorLog, CollectCommits, Answer
<1>2. wslot' = [p \in PId |-> IdleSlot] /\ workingMutex' = "free"
  BY DEF CollectCommits, CollectAll
<1>3. \/ /\ clog' = [clog EXCEPT ![txid] = [clog[txid] EXCEPT !.state = "COMMIT"]]
         /\ txid' = txid + 1
      \/ clog' = clog /\ txid' = txid
  BY DEF CollectCommits
<1>4. [clog[txid] EXCEPT !.state = "COMMIT"] \in CommittedEntry(txid)
  BY <1>1 DEF CommittedEntry, LogEntry, Task, LogState
<1>5. /\ txid' \in TXID_START .. MaxTxid + 1 /\ clog' \in [Txid -> LogEntry \cup {None}]
      /\ txid' >= txid
  BY <1>1, <1>3, <1>4 DEF CommittedEntry
<1>6. reply' \in Reply /\ cmd' = <<>> /\ asked' = 1
  <2>1. \A p \in committers : p \in PId /\ wslot[p].data \in Reply
    BY DEF committers, IInv, PInv, Result
  <2> QED BY <2>1 DEF CollectCommits, Answer, Reply, KVReply
<1>7. wslot' \in [PId -> Slot]
  BY <1>2, IdleSlotType
<1>8. TypeOK'
  <2>1. UNCHANGED workUnchanged /\ 1 \in PId
    BY DEF CollectCommits
  <2> QED BY <1>1, <1>2, <1>5, <1>6, <1>7, <2>1
     DEF IInv, TypeOK, ParticipantTypeOK, WorkPC
<1>9. Locks'
  BY <1>1, <1>2 DEF IInv, Locks, InRound, CollectCommits
<1>10. CoordinatorLog'
  BY <1>1, <1>3, <1>4 DEF IInv, CoordinatorLog, CommittedEntry
<1>11. \A p \in PId : wslot[p].phase \in {"idle", "done"} /\ WorkPosts(p)
  BY <1>2 DEF CollectCommits, AllDone, WorkPosts
<1> QED BY <1>1, <1>5, <1>8, <1>9, <1>10, <1>11, WorkExchange DEF CollectCommits

\* A read asks one participant at a time: the other slots are idle.
LEMMA OthersIdle ==
  ASSUME IInv, rpc \notin InRound, wpc \notin {"votes", "commits"}, NEW p \in PId,
         wpc = "get" => asked # p
  PROVE  wslot[p].phase = "idle"
BY DEF IInv, PInv, SlotUse, InRound

LEMMA StartRequestInv ==
  ASSUME IInv, StartRequest
  PROVE  IInv'
<1> USE DEF workUnchanged, participantVars, recoveryVars
<1> DEFINE task == Log(SUPER_TXID, "COMMIT", cmd)
<1>1. cmd \in Command \cup {<<>>} /\ wpc = "lock" /\ rpc \notin InRound
  BY DEF IInv, TypeOK, Locks, StartRequest
<1>2. task \in Task /\ 1 \in PId
  BY <1>1, TaskType
<1>3. /\ wslot \in [PId -> Slot] /\ wslot' = [wslot EXCEPT ![1] = PostedSlot(task)]
      /\ wpc' = "get" /\ asked' = 1 /\ cmd' = cmd /\ txid' = txid /\ clog' = clog
      /\ workingMutex' = "work"
  BY DEF IInv, TypeOK, StartRequest
<1>4. wslot' \in [PId -> Slot]
  BY <1>2, <1>3, PostedSlotType
<1>5. TypeOK'
  BY <1>2, <1>3, <1>4 DEF IInv, TypeOK, ParticipantTypeOK, WorkPC, StartRequest
<1>6. Locks'
  BY <1>1, <1>3 DEF IInv, Locks, InRound, StartRequest
<1>7. CoordinatorLog'
  BY <1>1, <1>3 DEF IInv, CoordinatorLog, CommittedEntry
<1>8. ASSUME NEW p \in PId PROVE wslot[p].phase \in {"idle", "done"} /\ WorkPosts(p)
  <2>1. wslot[p].phase = "idle"
    BY <1>1, OthersIdle
  <2>2. CASE p = 1
    BY <1>2, <1>3, <2>1, <2>2 DEF WorkPosts
  <2>3. CASE p # 1
    BY <1>3, <2>1, <2>3 DEF WorkPosts
  <2> QED BY <2>2, <2>3
<1> QED BY <1>1, <1>3, <1>5, <1>6, <1>7, <1>8, WorkExchange
   DEF IInv, TypeOK, StartRequest

LEMMA RequestNextInv ==
  ASSUME IInv, RequestNext
  PROVE  IInv'
<1> USE DEF workUnchanged, participantVars, recoveryVars
<1> DEFINE task == Log(SUPER_TXID, "COMMIT", cmd)
<1>1. cmd \in Command \cup {<<>>} /\ wpc = "get" /\ rpc \notin InRound
  BY DEF IInv, TypeOK, Locks, RequestNext
<1>2. task \in Task /\ asked \in PId /\ asked + 1 \in PId
  BY <1>1, TaskType DEF IInv, TypeOK, RequestNext
<1>3. /\ wslot \in [PId -> Slot]
      /\ wslot' = [wslot EXCEPT ![asked] = IdleSlot, ![asked + 1] = PostedSlot(task)]
      /\ wpc' = "get" /\ asked' = asked + 1 /\ cmd' = cmd /\ txid' = txid /\ clog' = clog
      /\ workingMutex' = workingMutex
  BY <1>1 DEF IInv, TypeOK, RequestNext
<1>4. wslot' \in [PId -> Slot]
  BY <1>2, <1>3, PostedSlotType, IdleSlotType
<1>5. TypeOK'
  BY <1>1, <1>2, <1>3, <1>4 DEF IInv, TypeOK, ParticipantTypeOK, WorkPC, RequestNext
<1>6. Locks'
  BY <1>1, <1>3 DEF IInv, Locks, InRound, RequestNext
<1>7. CoordinatorLog'
  BY <1>1, <1>3 DEF IInv, CoordinatorLog, CommittedEntry
<1>8. ASSUME NEW p \in PId PROVE wslot[p].phase \in {"idle", "done"} /\ WorkPosts(p)
  <2>1. CASE p = asked
    BY <1>2, <1>3, <2>1 DEF RequestNext, WorkPosts
  <2>2. CASE p # asked
    <3>1. wslot[p].phase = "idle"
      BY <1>1, <2>2, OthersIdle
    <3>2. CASE p = asked + 1
      BY <1>2, <1>3, <3>1, <3>2 DEF WorkPosts
    <3>3. CASE p # asked + 1
      BY <1>2, <1>3, <2>2, <3>1, <3>3 DEF WorkPosts
    <3> QED BY <3>2, <3>3
  <2> QED BY <2>1, <2>2
<1> QED BY <1>1, <1>3, <1>5, <1>6, <1>7, <1>8, WorkExchange
   DEF IInv, TypeOK, RequestNext

LEMMA RequestEndsInv ==
  ASSUME IInv, RequestAnswered \/ RequestFails
  PROVE  IInv'
<1> USE DEF workUnchanged, participantVars, recoveryVars
<1>1. wpc = "get" /\ rpc \notin InRound /\ asked \in PId /\ wslot[asked].phase = "done"
  BY DEF IInv, TypeOK, Locks, RequestAnswered, RequestFails
<1>2. /\ wslot \in [PId -> Slot] /\ wslot' = [wslot EXCEPT ![asked] = IdleSlot]
      /\ wpc' = "accept" /\ asked' = 1 /\ cmd' = <<>> /\ txid' = txid /\ clog' = clog
      /\ workingMutex' = "free"
  BY DEF IInv, TypeOK, RequestAnswered, RequestFails, Answer
<1>3. reply' \in Reply
  <2>1. CASE RequestAnswered
    BY <1>1, <2>1 DEF RequestAnswered, answered, Answer, IInv, PInv, Result
  <2>2. CASE RequestFails
    BY <2>2 DEF RequestFails, Answer, Reply, KVReply
  <2> QED BY <2>1, <2>2
<1>4. wslot' \in [PId -> Slot]
  BY <1>1, <1>2, IdleSlotType
<1>5. TypeOK'
  <2>1. UNCHANGED workUnchanged /\ 1 \in PId
    BY DEF RequestAnswered, RequestFails
  <2> QED BY <1>2, <1>3, <1>4, <2>1 DEF IInv, TypeOK, ParticipantTypeOK, WorkPC
<1>6. Locks'
  BY <1>1, <1>2 DEF IInv, Locks, InRound, RequestAnswered, RequestFails
<1>7. CoordinatorLog'
  BY <1>1, <1>2 DEF IInv, CoordinatorLog, CommittedEntry
<1>8. ASSUME NEW p \in PId PROVE wslot[p].phase \in {"idle", "done"} /\ WorkPosts(p)
  <2>1. CASE p = asked
    BY <1>1, <1>2, <2>1 DEF WorkPosts
  <2>2. CASE p # asked
    <3>1. wslot[p].phase = "idle"
      BY <1>1, <2>2, OthersIdle
    <3> QED BY <1>1, <1>2, <2>2, <3>1 DEF WorkPosts
  <2> QED BY <2>1, <2>2
<1> QED BY <1>1, <1>2, <1>5, <1>6, <1>7, <1>8, WorkExchange
   DEF IInv, TypeOK, RequestAnswered, RequestFails

-----------------------------------------------------------------------------
(***************************************************************************)
(* recovery                                                                *)
(***************************************************************************)
\* Outside of a round, recovery disturbs nobody.
LEMMA RecoveryAlone ==
  ASSUME IInv, TypeOK', Locks', Progress', rpc \notin InRound, rpc' \notin InRound,
         UNCHANGED <<participantVars, workVars, txid, clog, pstate, ka, wslot, rslot>>
  PROVE  IInv'
<1> USE DEF participantVars, workVars
<1>1. CoordinatorLog' BY DEF IInv, CoordinatorLog, CommittedEntry
<1>2. ASSUME NEW p \in PId PROVE PInv(p)'
  <2>0. PInv(p) /\ rslot[p].phase = "idle" BY DEF IInv, PInv, SlotUse, InRound
  <2>1. SlotUse(p)' BY <2>0 DEF PInv, SlotUse, InRound
  <2>2. ActiveState(p)' BY <2>0 DEF PInv, ActiveState
  <2>3. ParticipantLog(p)' BY <2>0 DEF PInv, ParticipantLog, CommittedEntry
  <2>4. WorkTask(p)' BY <2>0 DEF PInv, WorkTask, Log, InRound
  <2>5. RecoveryTask(p)' BY <2>0 DEF RecoveryTask
  <2>6. Channel(p)' BY <2>0 DEF PInv, Channel, Carries, Matches, CommittedEntry
  <2>7. Result(p)' BY <2>0 DEF PInv, Result, InRound
  <2>8. Table(p)' BY <2>0 DEF Table, InRound
  <2> QED BY <2>1, <2>2, <2>3, <2>4, <2>5, <2>6, <2>7, <2>8 DEF PInv
<1> QED BY <1>1, <1>2 DEF IInv

\* What recovery may put into the slots of p.
AsksLeader(p) ==
  \/ wslot'[p] = wslot[p] /\ wslot[p].phase = "idle"
  \/ wslot'[p] = IdleSlot
  \/ wslot'[p] = PostedSlot(AskLog(minID')) /\ rpc' = "ask" /\ leader' = p

RecoveryPosts(p) ==
  \/ rslot'[p] = rslot[p] /\ rslot[p].phase = "idle"
  \/ rslot'[p] = IdleSlot
  \/ \E task \in Task :
       /\ rslot'[p] = PostedSlot(task)
       /\ \/ /\ rpc' = "query" /\ maxTxidTB'[p] = 0
             /\ task = Log(RECOVERY_TXID, "PRE", <<>>)
          \/ rpc' \in {"push", "replay"} /\ fed' = p /\ task \in LogEntry

\* A step of recovery with both mutexes, when all results it waited for are
\* there.
LEMMA RecoveryExchange ==
  ASSUME IInv, TypeOK', Locks', CoordinatorLog', Progress', wpc \notin Exchanging,
         \A p \in PId :
            /\ wslot[p].phase \in {"idle", "done"} /\ AsksLeader(p)
            /\ rslot[p].phase \in {"idle", "done"} /\ RecoveryPosts(p)
            /\ pstate'[p] = pstate[p] \/ pstate[p] # "WAITING"
            /\ Table(p)',
         UNCHANGED <<participantVars, workVars, ka>>
  PROVE  IInv'
<1> USE DEF participantVars, workVars, Exchanging
<1>1. ASSUME NEW p \in PId PROVE PInv(p)'
  <2>1. PInv(p) BY DEF IInv
  <2>2. /\ wslot[p].phase \in {"idle", "done"} /\ AsksLeader(p)
        /\ rslot[p].phase \in {"idle", "done"} /\ RecoveryPosts(p)
        /\ pstate'[p] = pstate[p] \/ pstate[p] # "WAITING"
        /\ Table(p)'
    BY <1>1
  <2>3. /\ wslot'[p].phase \in {"idle", "posted"}
        /\ wslot'[p].phase = "posted" =>
             /\ wslot'[p].task = AskLog(minID') /\ AskLog(minID') \in Task
             /\ rpc' = "ask" /\ leader' = p
        /\ wslot'[p].ret = "OK" => wslot'[p].data \in Reply
    <3>1. rpc' = "ask" => AskLog(minID') \in Task
      <4>1. rpc' = "ask" => minID' \in Txid
        BY DEF TypeOK, Progress
      <4> QED BY <4>1, TaskType
    <3> QED BY <2>1, <2>2, <3>1, IdleSlotType, PostedSlotType
       DEF AsksLeader, PInv, Result
  <2>4. /\ rslot'[p].phase \in {"idle", "posted"}
        /\ rslot'[p].phase = "posted" =>
             /\ rslot'[p].task \in Task
             /\ \/ /\ rpc' = "query" /\ maxTxidTB'[p] = 0
                   /\ rslot'[p].task = Log(RECOVERY_TXID, "PRE", <<>>)
                \/ rpc' \in {"push", "replay"} /\ fed' = p /\ rslot'[p].task \in LogEntry
        /\ rslot'[p].ret = "OK" => rslot'[p].data \in Reply
    BY <2>1, <2>2, IdleSlotType, PostedSlotType DEF RecoveryPosts, PInv, Result
  <2>5. SlotUse(p)' BY <2>3, <2>4 DEF SlotUse
  <2>6. ActiveState(p)' BY <2>1, <2>2, <2>3, <2>4 DEF PInv, ActiveState
  <2>7. ParticipantLog(p)' BY <2>1 DEF PInv, ParticipantLog, CommittedEntry
  <2>8. WorkTask(p)' BY <2>3 DEF WorkTask, AskLog
  <2>9. RecoveryTask(p)' BY <2>4 DEF RecoveryTask, Log
  <2>10. Channel(p)' BY <2>1, <2>2, <2>3, <2>4 DEF PInv, Channel
  <2>11. Result(p)' BY <2>3, <2>4 DEF Result
  <2> QED BY <2>2, <2>5, <2>6, <2>7, <2>8, <2>9, <2>10, <2>11 DEF PInv
<1> QED BY <1>1 DEF IInv

LEMMA RecoveryAloneInv ==
  ASSUME IInv, StartRecovery \/ SuspendWork \/ LockRecovery \/ ResumeWork
  PROVE  IInv'
<1> USE DEF recoveryUnchanged, participantVars, workVars, lockVars, stateVars
<1>1. CASE StartRecovery
  <2>1. TypeOK'
    BY <1>1 DEF IInv, TypeOK, ParticipantTypeOK, RecoveryPC, StartRecovery
  <2>2. Locks' /\ Progress'
    BY <1>1 DEF IInv, TypeOK, Locks, Progress, InRound, StartRecovery
  <2> QED BY <1>1, <2>1, <2>2, RecoveryAlone DEF StartRecovery, InRound
<1>2. CASE SuspendWork
  <2>1. TypeOK'
    BY <1>2 DEF IInv, TypeOK, ParticipantTypeOK, RecoveryPC, SuspendWork
  <2>2. Locks' /\ Progress'
    BY <1>2 DEF IInv, TypeOK, Locks, Progress, InRound, SuspendWork
  <2> QED BY <1>2, <2>1, <2>2, RecoveryAlone DEF SuspendWork, InRound
<1>3. CASE LockRecovery
  <2>1. TypeOK'
    BY <1>3 DEF IInv, TypeOK, ParticipantTypeOK, RecoveryPC, LockRecovery
  <2>2. Locks' /\ Progress'
    BY <1>3 DEF IInv, TypeOK, Locks, Progress, InRound, LockRecovery
  <2> QED BY <1>3, <2>1, <2>2, RecoveryAlone DEF LockRecovery, InRound
<1>4. CASE ResumeWork
  <2>1. TypeOK'
    BY <1>4 DEF IInv, TypeOK, ParticipantTypeOK, RecoveryPC, ResumeWork
  <2>2. Locks' /\ Progress'
    BY <1>4 DEF IInv, TypeOK, Locks, Progress, InRound, ResumeWork
  <2> QED BY <1>4, <2>1, <2>2, RecoveryAlone DEF ResumeWork, InRound
<1> QED BY <1>1, <1>2, <1>3, <1>4

\* During a round work is not in an exchange, and only the slots recovery waits
\* for are in use.
LEMMA RoundSlots ==
  ASSUME IInv, rpc \in InRound
  PROVE  /\ wpc \notin Exchanging
         /\ \A p \in PId : /\ PInv(p)
                           /\ wslot[p].phase # "idle" => rpc = "ask" /\ leader = p
                           /\ rslot[p].phase # "idle" =>
                                rpc = "query" \/ (rpc \in {"push", "replay"} /\ fed = p)
BY DEF IInv, PInv, SlotUse, Locks, Exchanging

LEMMA QueryAllInv ==
  ASSUME IInv, QueryAll
  PROVE  IInv'
<1> USE DEF recoveryUnchanged, participantVars, workVars
<1> DEFINE task == Log(RECOVERY_TXID, "PRE", <<>>)
<1>1. /\ rpc = "lockWorking" /\ rpc' = "query" /\ wpc \notin Exchanging
      /\ \A p \in PId : maxTxidTB[p] = 0
  BY DEF IInv, Locks, Progress, QueryAll, Exchanging
<1>2. task \in Task
  BY TaskType
<1>3. rslot' = [p \in PId |-> PostedSlot(task)] /\ rslot' \in [PId -> Slot]
  BY <1>2, PostedSlotType DEF QueryAll, PostAll
<1>4. /\ pstate' \in [PId -> PState]
      /\ \A p \in PId : pstate'[p] = pstate[p] \/ pstate[p] # "WAITING"
  BY DEF IInv, TypeOK, PState, QueryAll
<1>5. TypeOK'
  <2>1. UNCHANGED <<participantVars, recoveryMutex, txid, clog, cstate, tmpNum,
                    maxTxidTB, minID, maxID, leader, entry, fed, tid, wslot, workVars, ka>>
        /\ workingMutex' = "recovery"
    BY DEF QueryAll
  <2> QED BY <1>1, <1>3, <1>4, <2>1 DEF IInv, TypeOK, ParticipantTypeOK, RecoveryPC
<1>6. Locks' /\ CoordinatorLog' /\ Progress'
  BY <1>1 DEF IInv, Locks, CoordinatorLog, CommittedEntry, Progress, InRound,
       QueryAll, Exchanging
<1>7. ASSUME NEW p \in PId
      PROVE  /\ wslot[p].phase \in {"idle", "done"} /\ AsksLeader(p)
             /\ rslot[p].phase \in {"idle", "done"} /\ RecoveryPosts(p)
             /\ Table(p)'
  <2>1. wslot[p].phase = "idle" /\ wslot'[p] = wslot[p]
    BY <1>1 DEF IInv, PInv, SlotUse, QueryAll, Exchanging
  <2>2. rslot[p].phase = "idle" /\ RecoveryPosts(p)
    BY <1>1, <1>2, <1>3 DEF QueryAll, AllIdle, RecoveryPosts
  <2>3. Table(p)'
    BY <1>1, <1>2, <1>3, PostedSlotType DEF Table, QueryAll
  <2> QED BY <2>1, <2>2, <2>3 DEF AsksLeader
<1> QED BY <1>1, <1>4, <1>5, <1>6, <1>7, RecoveryExchange DEF QueryAll

\* The numbers participants report.
LEMMA TableType ==
  ASSUME IInv, rpc = "query", AllDone(rslot), NEW p \in PId
  PROVE  /\ tableFrom(rslot)[p] \in 0 .. MaxTxid
         /\ tableFrom(rslot)[p] # 0 =>
              tableFrom(rslot)[p] >= TXID_START - 1 /\ pstate[p] = "RECOVERY"
<1>1. rslot[p].phase = "done" /\ PInv(p)
  BY DEF IInv, AllDone
<1>2. CASE reported(p)
  <2>1. rslot[p].data \in Reply /\ rslot[p].data.kind = "TXID"
    BY <1>1, <1>2 DEF reported, PInv, Result
  <2>2. rslot[p].data.txid \in (TXID_START - 1) .. MaxTxid
    BY <2>1 DEF Reply, KVReply, ErrorReply, OkReply, PreReply, EmptyReply
  <2> QED BY <1>1, <1>2, <2>2 DEF tableFrom, reported, PInv, Table
<1>3. CASE ~reported(p)
  <2>1. rslot[p].ret # "OK"
    BY <1>1, <1>3 DEF reported, PInv, Result, EmptyReply
  <2> QED BY <1>1, <1>3, <2>1 DEF tableFrom, PInv, Table
<1> QED BY <1>2, <1>3

LEMMA BuildTableInv ==
  ASSUME IInv, BuildTable
  PROVE  IInv'
<1> USE DEF recoveryUnchanged, participantVars, workVars, lockVars
<1>1. /\ rpc = "query" /\ rpc' \in {"mark", "elect"} /\ AllDone(rslot)
      /\ wpc \notin Exchanging /\ rpc \in InRound
      /\ minID \in TXID_START - 1 .. MaxTxid
  BY RoundSlots DEF IInv, TypeOK, Progress, InRound, BuildTable
<1>2. /\ maxTxidTB' = tableFrom(rslot) /\ rslot' = [p \in PId |-> IdleSlot]
      /\ maxTxidTB' \in [PId -> 0 .. MaxTxid] /\ rslot' \in [PId -> Slot]
  BY <1>1, TableType, IdleSlotType DEF BuildTable, CollectAll, tableFrom
<1>3. /\ minID' = minID \/ minID' \in TXID_START .. MaxTxid + 1
      /\ rpc' = "elect" => minID' \in TXID_START .. MaxTxid + 1
  <2>1. CASE consistent
    BY <1>1, <2>1 DEF BuildTable
  <2>2. CASE ~consistent
    <3>1. \E least \in {minID} \cup {tableFrom(rslot)[p] : p \in {q \in PId : tableFrom(rslot)[q] # 0}} :
             least <= minID /\ minID' = least + 1
      BY <2>2 DEF BuildTable
    <3> QED BY <1>1, <3>1, TableType
  <2> QED BY <2>1, <2>2
<1>4. TypeOK'
  <2>1. UNCHANGED <<participantVars, lockVars, txid, clog, cstate, pstate, tmpNum,
                    maxID, leader, entry, fed, tid, wslot, workVars, ka>>
    BY DEF BuildTable
  <2>2. minID' \in TXID_START - 1 .. MaxTxid + 1 /\ rpc' \in RecoveryPC
    BY <1>1, <1>3 DEF RecoveryPC
  <2> QED BY <1>2, <2>1, <2>2 DEF IInv, TypeOK, ParticipantTypeOK
<1>5. Locks' /\ CoordinatorLog'
  BY <1>1 DEF IInv, Locks, CoordinatorLog, CommittedEntry, InRound, BuildTable
<1>6. Progress'
  BY <1>1, <1>2, <1>3, TableType DEF Progress, InRound
<1>7. ASSUME NEW p \in PId
      PROVE  /\ wslot[p].phase \in {"idle", "done"} /\ AsksLeader(p)
             /\ rslot[p].phase \in {"idle", "done"} /\ RecoveryPosts(p)
             /\ pstate'[p] = pstate[p]
             /\ Table(p)'
  <2>1. wslot[p].phase = "idle" /\ wslot'[p] = wslot[p] /\ pstate'[p] = pstate[p]
    BY <1>1, RoundSlots DEF BuildTable
  <2>2. rslot[p].phase = "done" /\ RecoveryPosts(p)
    BY <1>1, <1>2 DEF AllDone, RecoveryPosts
  <2>3. Table(p)'
    BY <1>1, <1>2, <2>1, TableType DEF Table
  <2> QED BY <2>1, <2>2, <2>3 DEF AsksLeader
<1> QED BY <1>1, <1>4, <1>5, <1>6, <1>7, RecoveryExchange DEF BuildTable

LEMMA ElectLeaderInv ==
  ASSUME IInv, ElectLeader
  PROVE  IInv'
<1> USE DEF recoveryUnchanged, participantVars, workVars, lockVars
<1>1. PICK l \in PId :
        /\ isLeader(l) /\ leader' = l /\ maxID' = maxTxidTB[l]
        /\ pstate' = [pstate EXCEPT ![l] = "WORKING"]
        /\ maxTxidTB' = [maxTxidTB EXCEPT ![l] = 0]
        /\ \/ /\ minID <= maxTxidTB[l] /\ rpc' = "ask"
              /\ wslot' = [wslot EXCEPT ![l] = PostedSlot(AskLog(minID))]
           \/ UNCHANGED <<wslot, rpc>>
  BY DEF ElectLeader
<1>2. /\ rpc = "elect" /\ rpc \in InRound /\ rpc' \in {"elect", "ask"} /\ minID' = minID
      /\ wpc \notin Exchanging /\ UNCHANGED <<participantVars, workVars, ka, rslot>>
  BY <1>1, RoundSlots DEF ElectLeader, InRound
<1>3. /\ maxTxidTB \in [PId -> 0 .. MaxTxid] /\ pstate \in [PId -> PState]
      /\ wslot \in [PId -> Slot] /\ txid \in TXID_START .. MaxTxid + 1
      /\ minID \in TXID_START .. MaxTxid + 1
  BY <1>2 DEF IInv, TypeOK, Progress
<1>4. maxTxidTB[l] # 0 /\ pstate[l] = "RECOVERY"
  <2>1. maxTxidTB[l] # 0
    BY <1>1, <1>3 DEF isLeader, ahead
  <2> QED BY <1>2, <2>1, RoundSlots DEF PInv, Table
<1>5. rpc' = "ask" => AskLog(minID) \in Task /\ minID <= maxID'
  BY <1>1, <1>2, <1>3, TaskType
<1>6. /\ wslot' \in [PId -> Slot]
      /\ rpc' = "elect" => wslot' = wslot
      /\ rpc' = "ask" => wslot' = [wslot EXCEPT ![l] = PostedSlot(AskLog(minID))]
  BY <1>1, <1>2, <1>3, <1>5, PostedSlotType
<1>7. TypeOK'
  <2>1. UNCHANGED <<participantVars, lockVars, txid, clog, cstate, tmpNum, minID,
                    entry, fed, tid, rslot, workVars, ka>>
    BY DEF ElectLeader
  <2>2. pstate' \in [PId -> PState] /\ maxTxidTB' \in [PId -> 0 .. MaxTxid]
    BY <1>1, <1>3 DEF PState
  <2> QED BY <1>1, <1>2, <1>3, <1>6, <2>1, <2>2
     DEF IInv, TypeOK, ParticipantTypeOK, RecoveryPC
<1>8. Locks' /\ CoordinatorLog'
  BY <1>2 DEF IInv, Locks, CoordinatorLog, CommittedEntry, InRound, ElectLeader
<1>9. Progress'
  BY <1>1, <1>2, <1>3, <1>5 DEF IInv, Progress, InRound
<1>10. ASSUME NEW p \in PId
      PROVE  /\ wslot[p].phase \in {"idle", "done"} /\ AsksLeader(p)
             /\ rslot[p].phase \in {"idle", "done"} /\ RecoveryPosts(p)
             /\ pstate'[p] = pstate[p] \/ pstate[p] # "WAITING"
             /\ Table(p)'
  <2>1. wslot[p].phase = "idle" /\ rslot[p].phase = "idle"
    BY <1>2, RoundSlots
  <2>2. AsksLeader(p)
    BY <1>1, <1>2, <1>3, <1>6, <2>1 DEF AsksLeader
  <2>3. RecoveryPosts(p)
    BY <1>2, <2>1 DEF RecoveryPosts
  <2>4. pstate'[p] = pstate[p] \/ pstate[p] # "WAITING"
    BY <1>1, <1>3, <1>4
  <2>5. Table(p)'
    BY <1>1, <1>2, <1>3, RoundSlots DEF PInv, Table
  <2> QED BY <2>1, <2>2, <2>3, <2>4, <2>5
<1> QED BY <1>2, <1>7, <1>8, <1>9, <1>10, RecoveryExchange

LEMMA TakeEntryInv ==
  ASSUME IInv, TakeEntry
  PROVE  IInv'
<1> USE DEF recoveryUnchanged, participantVars, workVars, lockVars
<1> DEFINE l == wslot[leader].data.log
<1>1. /\ rpc = "ask" /\ rpc \in InRound /\ rpc' = "push" /\ leader \in PId /\ minID <= maxID
      /\ wslot[leader].phase = "done" /\ wpc \notin Exchanging /\ fed' = 1 /\ entry' = l
      /\ UNCHANGED <<participantVars, lockVars, workVars, ka, cstate, pstate, tmpNum,
                     maxTxidTB, minID, maxID, leader, tid>>
  BY RoundSlots DEF IInv, Progress, InRound, TakeEntry
<1>2. \E t \in Txid : l \in CommittedEntry(t)
  <2>1. Matches(AskLog(minID), wslot[leader].data) /\ wslot[leader].data # EmptyReply
    BY <1>1 DEF TakeEntry, answered, IInv, PInv, Result
  <2> QED BY <2>1 DEF Matches, AskLog
<1>3. l \in LogEntry /\ l \in Task /\ l.ID \in Txid /\ l \in CommittedEntry(l.ID)
  BY <1>2 DEF CommittedEntry, LogEntry
<1>4. /\ wslot \in [PId -> Slot] /\ rslot \in [PId -> Slot] /\ 1 \in PId
      /\ clog \in [Txid -> LogEntry \cup {None}] /\ txid \in TXID_START .. MaxTxid + 1
  BY DEF IInv, TypeOK
<1>5. /\ wslot' = [wslot EXCEPT ![leader] = IdleSlot]
      /\ rslot' = [rslot EXCEPT ![1] = PostedSlot(l)]
      /\ wslot' \in [PId -> Slot] /\ rslot' \in [PId -> Slot]
  BY <1>1, <1>3, <1>4, IdleSlotType, PostedSlotType DEF TakeEntry, Post
<1>6. \/ clog' = [clog EXCEPT ![l.ID] = l] /\ txid' = txid + 1 /\ txid = l.ID
      \/ clog' = clog /\ txid' = txid
  BY DEF TakeEntry, extendsLog
<1>7. txid' \in TXID_START .. MaxTxid + 1 /\ clog' \in [Txid -> LogEntry \cup {None}]
  BY <1>3, <1>4, <1>6
<1>8. TypeOK'
  BY <1>1, <1>3, <1>4, <1>5, <1>7 DEF IInv, TypeOK, ParticipantTypeOK, RecoveryPC
<1>9. Locks' /\ CoordinatorLog'
  <2>1. Locks'
    BY <1>1 DEF IInv, Locks, InRound
  <2>2. ASSUME NEW t \in Txid, t < txid' PROVE clog'[t] \in CommittedEntry(t)
    <3>1. CASE t < txid
      BY <1>3, <1>4, <1>6, <3>1 DEF IInv, CoordinatorLog
    <3>2. CASE ~(t < txid)
      <4>1. txid = l.ID /\ t = l.ID /\ clog' = [clog EXCEPT ![l.ID] = l]
        BY <1>3, <1>4, <1>6, <2>2, <3>2
      <4> QED BY <1>3, <1>4, <4>1
    <3> QED BY <3>1, <3>2
  <2>3. wpc' \notin {"votes", "commits"}
    BY <1>1 DEF Exchanging
  <2> QED BY <2>1, <2>2, <2>3 DEF CoordinatorLog, CommittedEntry
<1>10. Progress'
  BY <1>1, <1>3, <1>4, <1>6 DEF IInv, Progress, InRound
<1>11. ASSUME NEW p \in PId
      PROVE  /\ wslot[p].phase \in {"idle", "done"} /\ AsksLeader(p)
             /\ rslot[p].phase \in {"idle", "done"} /\ RecoveryPosts(p)
             /\ pstate'[p] = pstate[p] \/ pstate[p] # "WAITING"
             /\ Table(p)'
  <2>1. wslot[p].phase \in {"idle", "done"} /\ AsksLeader(p)
    BY <1>1, <1>4, <1>5, RoundSlots DEF AsksLeader
  <2>2. rslot[p].phase = "idle"
    BY <1>1, RoundSlots
  <2>3. RecoveryPosts(p)
    BY <1>1, <1>3, <1>4, <1>5, <2>2 DEF RecoveryPosts
  <2>4. Table(p)'
    BY <1>1, RoundSlots DEF PInv, Table
  <2> QED BY <1>1, <2>1, <2>2, <2>3, <2>4
<1> QED BY <1>1, <1>8, <1>9, <1>10, <1>11, RecoveryExchange

LEMMA LeaderLostInv ==
  ASSUME IInv, LeaderLost
  PROVE  IInv'
<1> USE DEF recoveryUnchanged, participantVars, workVars, lockVars, stateVars
<1>1. /\ rpc = "ask" /\ rpc \in InRound /\ rpc' = "elect" /\ leader \in PId
      /\ wslot[leader].phase = "done" /\ wpc \notin Exchanging
      /\ UNCHANGED <<participantVars, lockVars, stateVars, minID, maxID, leader,
                     entry, fed, tid, rslot, workVars, ka>>
  BY RoundSlots DEF IInv, Progress, InRound, LeaderLost
<1>2. /\ wslot' = [wslot EXCEPT ![leader] = IdleSlot] /\ wslot \in [PId -> Slot]
      /\ wslot' \in [PId -> Slot]
  BY <1>1, IdleSlotType DEF IInv, TypeOK, LeaderLost
<1>3. TypeOK'
  BY <1>1, <1>2 DEF IInv, TypeOK, ParticipantTypeOK, RecoveryPC
<1>4. Locks' /\ CoordinatorLog' /\ Progress'
  BY <1>1 DEF IInv, Locks, CoordinatorLog, CommittedEntry, Progress, InRound
<1>5. ASSUME NEW p \in PId
      PROVE  /\ wslot[p].phase \in {"idle", "done"} /\ AsksLeader(p)
             /\ rslot[p].phase \in {"idle", "done"} /\ RecoveryPosts(p)
             /\ pstate'[p] = pstate[p] \/ pstate[p] # "WAITING"
             /\ Table(p)'
  <2>1. wslot[p].phase \in {"idle", "done"} /\ AsksLeader(p)
    BY <1>1, <1>2, RoundSlots DEF AsksLeader
  <2>2. rslot[p].phase = "idle" /\ RecoveryPosts(p)
    BY <1>1, RoundSlots DEF RecoveryPosts
  <2>3. Table(p)'
    BY <1>1, RoundSlots DEF PInv, Table
  <2> QED BY <1>1, <2>1, <2>2, <2>3
<1> QED BY <1>1, <1>3, <1>4, <1>5, RecoveryExchange

\* When an entry is being pushed, only the participant it is pushed to has
\* something to do.
LEMMA Pushing ==
  ASSUME IInv, rpc \in {"push", "replay"}, rslot[fed].phase = "done", NEW p \in PId
  PROVE  /\ wslot[p].phase = "idle"
         /\ rslot[p].phase \in {"idle", "done"}
         /\ p # fed => rslot[p].phase = "idle"
BY RoundSlots DEF InRound

LEMMA PushNextInv ==
  ASSUME IInv, PushNext
  PROVE  IInv'
<1> USE DEF recoveryUnchanged, participantVars, workVars, lockVars, stateVars
<1>1. /\ rpc = "push" /\ rpc \in InRound /\ rpc' = rpc /\ wpc \notin Exchanging
      /\ fed' = fed + 1 /\ rslot[fed].phase = "done"
      /\ UNCHANGED <<participantVars, lockVars, stateVars, minID, maxID, leader,
                     entry, tid, wslot, workVars, ka>>
  BY RoundSlots DEF InRound, PushNext
<1>2. /\ entry \in LogEntry /\ entry \in Task /\ fed \in PId /\ fed + 1 \in PId
      /\ rslot \in [PId -> Slot]
  BY <1>1, TaskType DEF IInv, TypeOK, Progress, PushNext
<1>3. /\ rslot' = [rslot EXCEPT ![fed] = IdleSlot, ![fed + 1] = PostedSlot(entry)]
      /\ rslot' \in [PId -> Slot]
  BY <1>2, IdleSlotType, PostedSlotType DEF PushNext
<1>4. TypeOK'
  BY <1>1, <1>2, <1>3 DEF IInv, TypeOK, ParticipantTypeOK
<1>5. Locks' /\ CoordinatorLog' /\ Progress'
  BY <1>1 DEF IInv, Locks, CoordinatorLog, CommittedEntry, Progress, InRound
<1>6. ASSUME NEW p \in PId
      PROVE  /\ wslot[p].phase \in {"idle", "done"} /\ AsksLeader(p)
             /\ rslot[p].phase \in {"idle", "done"} /\ RecoveryPosts(p)
             /\ pstate'[p] = pstate[p] \/ pstate[p] # "WAITING"
             /\ Table(p)'
  <2>1. wslot[p].phase = "idle" /\ AsksLeader(p) /\ rslot[p].phase \in {"idle", "done"}
    BY <1>1, Pushing DEF AsksLeader
  <2>2. RecoveryPosts(p)
    <3>1. CASE p = fed
      BY <1>2, <1>3, <3>1 DEF RecoveryPosts
    <3>2. CASE p = fed + 1
      BY <1>1, <1>2, <1>3, <3>2 DEF RecoveryPosts
    <3>3. CASE p # fed /\ p # fed + 1
      BY <1>1, <1>2, <1>3, <3>3, Pushing DEF RecoveryPosts
    <3> QED BY <3>1, <3>2, <3>3
  <2>3. Table(p)'
    BY <1>1, RoundSlots DEF PInv, Table
  <2> QED BY <1>1, <2>1, <2>2, <2>3
<1> QED BY <1>1, <1>4, <1>5, <1>6, RecoveryExchange

LEMMA AskNextInv ==
  ASSUME IInv, AskNext
  PROVE  IInv'
<1> USE DEF recoveryUnchanged, participantVars, workVars, lockVars, stateVars
<1>1. /\ rpc = "push" /\ rpc \in InRound /\ wpc \notin Exchanging
      /\ minID' = minID + 1 /\ rslot[fed].phase = "done" /\ fed' = 1 /\ entry' = None
      /\ UNCHANGED <<participantVars, lockVars, stateVars, maxID, leader, tid, workVars, ka>>
  BY RoundSlots DEF InRound, AskNext
<1>2. /\ \/ /\ minID + 1 <= maxID /\ rpc' = "ask"
            /\ wslot' = [wslot EXCEPT ![leader] = PostedSlot(AskLog(minID + 1))]
         \/ rpc' = "elect" /\ wslot' = wslot
      /\ rslot' = [rslot EXCEPT ![fed] = IdleSlot]
  BY DEF AskNext
<1>3. /\ leader \in PId /\ minID \in TXID_START .. MaxTxid /\ maxID \in 0 .. MaxTxid
      /\ fed \in PId /\ 1 \in PId /\ rslot \in [PId -> Slot] /\ wslot \in [PId -> Slot]
  BY <1>1 DEF IInv, TypeOK, Progress
<1>4. rpc' = "ask" => AskLog(minID') \in Task
  BY <1>1, <1>2, <1>3, TaskType
<1>5. rslot' \in [PId -> Slot] /\ wslot' \in [PId -> Slot]
  BY <1>1, <1>2, <1>3, <1>4, IdleSlotType, PostedSlotType
<1>6. TypeOK'
  BY <1>1, <1>2, <1>3, <1>5 DEF IInv, TypeOK, ParticipantTypeOK, RecoveryPC
<1>7. Locks' /\ CoordinatorLog' /\ Progress'
  BY <1>1, <1>2, <1>3 DEF IInv, Locks, CoordinatorLog, CommittedEntry, Progress, InRound
<1>8. ASSUME NEW p \in PId
      PROVE  /\ wslot[p].phase \in {"idle", "done"} /\ AsksLeader(p)
             /\ rslot[p].phase \in {"idle", "done"} /\ RecoveryPosts(p)
             /\ pstate'[p] = pstate[p] \/ pstate[p] # "WAITING"
             /\ Table(p)'
  <2>1. wslot[p].phase = "idle" /\ rslot[p].phase \in {"idle", "done"}
    BY <1>1, Pushing
  <2>2. AsksLeader(p)
    BY <1>1, <1>2, <1>3, <2>1 DEF AsksLeader
  <2>3. RecoveryPosts(p)
    <3>1. CASE p = fed
      BY <1>2, <1>3, <3>1 DEF RecoveryPosts
    <3>2. CASE p # fed
      BY <1>1, <1>2, <1>3, <3>2, Pushing DEF RecoveryPosts
    <3> QED BY <3>1, <3>2
  <2>4. Table(p)'
    BY <1>1, <1>2, RoundSlots DEF PInv, Table
  <2> QED BY <1>1, <2>1, <2>2, <2>3, <2>4
<1> QED BY <1>1, <1>6, <1>7, <1>8, RecoveryExchange

\* The entries of the coordinator's own log can be sent.
LEMMA OwnEntry ==
  ASSUME IInv, NEW t \in Txid, t < txid
  PROVE  clog[t] \in LogEntry /\ clog[t] \in Task
BY TaskType DEF IInv, CoordinatorLog, CommittedEntry

LEMMA ReplayLogInv ==
  ASSUME IInv, ReplayLog
  PROVE  IInv'
<1> USE DEF recoveryUnchanged, participantVars, workVars, lockVars, stateVars
<1>1. /\ rpc = "elect" /\ rpc \in InRound /\ wpc \notin Exchanging
      /\ leader' = 0 /\ maxID' = 0 /\ minID' = TXID_START - 1 /\ tid' = TXID_START /\ fed' = 1
      /\ UNCHANGED <<participantVars, lockVars, stateVars, entry, wslot, workVars, ka>>
  BY RoundSlots DEF InRound, ReplayLog
<1>2. \/ /\ TXID_START < txid /\ rpc' = "replay"
         /\ rslot' = [rslot EXCEPT ![1] = PostedSlot(clog[TXID_START])]
      \/ rpc' = "mark" /\ rslot' = rslot
  BY DEF ReplayLog, Post
<1>3. 1 \in PId /\ rslot \in [PId -> Slot] /\ TXID_START \in Txid
  BY DEF IInv, TypeOK
<1>4. rpc' = "replay" => clog[TXID_START] \in LogEntry /\ clog[TXID_START] \in Task
  BY <1>2, <1>3, OwnEntry
<1>5. rslot' \in [PId -> Slot]
  BY <1>2, <1>3, <1>4, PostedSlotType
<1>6. TypeOK'
  BY <1>1, <1>2, <1>3, <1>5 DEF IInv, TypeOK, ParticipantTypeOK, RecoveryPC
<1>7. Locks' /\ CoordinatorLog' /\ Progress'
  BY <1>1, <1>2 DEF IInv, Locks, CoordinatorLog, CommittedEntry, Progress, InRound
<1>8. ASSUME NEW p \in PId
      PROVE  /\ wslot[p].phase \in {"idle", "done"} /\ AsksLeader(p)
             /\ rslot[p].phase \in {"idle", "done"} /\ RecoveryPosts(p)
             /\ pstate'[p] = pstate[p] \/ pstate[p] # "WAITING"
             /\ Table(p)'
  <2>1. wslot[p].phase = "idle" /\ rslot[p].phase = "idle" /\ AsksLeader(p)
    BY <1>1, RoundSlots DEF AsksLeader
  <2>2. RecoveryPosts(p)
    BY <1>1, <1>2, <1>3, <1>4, <2>1 DEF RecoveryPosts
  <2>3. Table(p)'
    BY <1>1, <1>2, RoundSlots DEF PInv, Table
  <2> QED BY <1>1, <2>1, <2>2, <2>3
<1> QED BY <1>1, <1>6, <1>7, <1>8, RecoveryExchange

LEMMA ReplayNextInv ==
  ASSUME IInv, ReplayNext
  PROVE  IInv'
<1> USE DEF recoveryUnchanged, participantVars, workVars, lockVars, stateVars
<1>1. /\ rpc = "replay" /\ rpc \in InRound /\ wpc \notin Exchanging
      /\ rslot[fed].phase = "done"
      /\ UNCHANGED <<participantVars, lockVars, stateVars, minID, maxID, leader,
                     entry, wslot, workVars, ka>>
  BY RoundSlots DEF InRound, ReplayNext
<1>2. /\ fed \in PId /\ 1 \in PId /\ rslot \in [PId -> Slot]
      /\ tid \in Txid /\ tid < txid /\ txid \in TXID_START .. MaxTxid + 1
  BY <1>1 DEF IInv, TypeOK, Progress
<1>3. /\ rpc' \in {"replay", "mark"} /\ fed' \in PId /\ tid' \in Txid /\ rslot' \in [PId -> Slot]
      /\ rpc' = "replay" => tid' < txid
      /\ \A p \in PId :
           \/ rslot'[p] = rslot[p] /\ p # fed
           \/ rslot'[p] = IdleSlot
           \/ \E t \in Txid : /\ t < txid /\ rslot'[p] = PostedSlot(clog[t])
                              /\ rpc' = "replay" /\ fed' = p
  <2>1. CASE /\ fed < PNum
             /\ rslot' = [rslot EXCEPT ![fed] = IdleSlot, ![fed + 1] = PostedSlot(clog[tid])]
             /\ fed' = fed + 1 /\ UNCHANGED <<tid, rpc>>
    <3>1. fed + 1 \in PId /\ PostedSlot(clog[tid]) \in Slot
      BY <1>2, <2>1, OwnEntry, PostedSlotType
    <3> QED BY <1>1, <1>2, <2>1, <3>1, IdleSlotType
  <2>2. CASE /\ tid + 1 < txid
             /\ rslot' = [p \in PId |-> IF p = 1 THEN PostedSlot(clog[tid + 1]) ELSE IdleSlot]
             /\ tid' = tid + 1 /\ fed' = 1 /\ UNCHANGED rpc
    <3>1. tid + 1 \in Txid /\ PostedSlot(clog[tid + 1]) \in Slot
      BY <1>2, <2>2, OwnEntry, PostedSlotType
    <3> QED BY <1>1, <1>2, <2>2, <3>1, IdleSlotType
  <2>3. CASE /\ rslot' = [rslot EXCEPT ![fed] = IdleSlot]
             /\ rpc' = "mark" /\ tid' = TXID_START /\ fed' = 1
    BY <1>2, <2>3, IdleSlotType
  <2> QED BY <2>1, <2>2, <2>3 DEF ReplayNext
<1>4. TypeOK'
  BY <1>1, <1>3 DEF IInv, TypeOK, ParticipantTypeOK, RecoveryPC
<1>5. Locks' /\ CoordinatorLog' /\ Progress'
  BY <1>1, <1>3 DEF IInv, Locks, CoordinatorLog, CommittedEntry, Progress, InRound
<1>6. ASSUME NEW p \in PId
      PROVE  /\ wslot[p].phase \in {"idle", "done"} /\ AsksLeader(p)
             /\ rslot[p].phase \in {"idle", "done"} /\ RecoveryPosts(p)
             /\ pstate'[p] = pstate[p] \/ pstate[p] # "WAITING"
             /\ Table(p)'
  <2>1. wslot[p].phase = "idle" /\ rslot[p].phase \in {"idle", "done"} /\ AsksLeader(p)
    BY <1>1, Pushing DEF AsksLeader
  <2>2. RecoveryPosts(p)
    BY <1>1, <1>3, Pushing, OwnEntry DEF RecoveryPosts
  <2>3. Table(p)'
    BY <1>1, <1>3, RoundSlots DEF PInv, Table
  <2> QED BY <1>1, <2>1, <2>2, <2>3
<1> QED BY <1>1, <1>4, <1>5, <1>6, RecoveryExchange

LEMMA MarkWorkingInv ==
  ASSUME IInv, MarkWorking
  PROVE  IInv'
<1> USE DEF recoveryUnchanged, participantVars, workVars
<1>1. /\ rpc = "mark" /\ rpc \in InRound /\ rpc' = "finish" /\ wpc \notin Exchanging
      /\ workingMutex' = "free" /\ recoveryMutex' = "free" /\ tmpNum' = 0
      /\ UNCHANGED <<participantVars, txid, clog, cstate, maxTxidTB, minID, maxID,
                     leader, entry, fed, tid, wslot, rslot, workVars, ka>>
  BY RoundSlots DEF InRound, MarkWorking
<1>2. /\ pstate' \in [PId -> PState]
      /\ \A p \in PId : pstate'[p] = pstate[p] \/ maxTxidTB[p] # 0
  BY DEF IInv, TypeOK, PState, Known, MarkWorking
<1>3. TypeOK'
  BY <1>1, <1>2 DEF IInv, TypeOK, ParticipantTypeOK, RecoveryPC
<1>4. Locks' /\ CoordinatorLog' /\ Progress'
  BY <1>1 DEF IInv, Locks, CoordinatorLog, CommittedEntry, Progress, InRound, Exchanging
<1>5. ASSUME NEW p \in PId
      PROVE  /\ wslot[p].phase \in {"idle", "done"} /\ AsksLeader(p)
             /\ rslot[p].phase \in {"idle", "done"} /\ RecoveryPosts(p)
             /\ pstate'[p] = pstate[p] \/ pstate[p] # "WAITING"
             /\ Table(p)'
  <2>1. wslot[p].phase = "idle" /\ rslot[p].phase = "idle"
    BY <1>1, RoundSlots
  <2>2. pstate'[p] = pstate[p] \/ pstate[p] # "WAITING"
    BY <1>1, <1>2, RoundSlots DEF PInv, Table
  <2>3. Table(p)'
    BY <1>1 DEF Table, InRound
  <2> QED BY <1>1, <2>1, <2>2, <2>3 DEF AsksLeader, RecoveryPosts
<1> QED BY <1>1, <1>3, <1>4, <1>5, RecoveryExchange

-----------------------------------------------------------------------------
(***************************************************************************)
(* The coordinator starts, and starts again.                               *)
(***************************************************************************)
LEMMA InitInv == Init => IInv
<1> SUFFICES ASSUME Init PROVE IInv
  OBVIOUS
<1> USE DEF Init, ParticipantInit, CoordinatorInit
<1>1. TypeOK
  BY IdleSlotType DEF TypeOK, ParticipantTypeOK, Database, EmptyDatabase, LinkState,
       PState, WorkPC, RecoveryPC, Reply, KVReply
<1>2. Locks /\ CoordinatorLog /\ Progress
  BY DEF Locks, CoordinatorLog, Progress, InRound
<1>3. ASSUME NEW p \in PId PROVE PInv(p)
  <2>1. wslot[p].phase = "idle" /\ wslot[p].ret = "SKIP" /\ rslot[p].phase = "idle" /\ rslot[p].ret = "SKIP"
    BY IdleSlotType
  <2>2. ParticipantLog(p)
    BY DEF ParticipantLog
  <2>3. SlotUse(p) /\ ActiveState(p) /\ WorkTask(p) /\ RecoveryTask(p)
    BY <2>1 DEF SlotUse, ActiveState, WorkTask, RecoveryTask
  <2>4. Channel(p) /\ Result(p) /\ Table(p)
    BY <2>1 DEF Channel, Result, Table, InRound
  <2> QED BY <2>2, <2>3, <2>4 DEF PInv
<1> QED BY <1>1, <1>2, <1>3 DEF IInv

LEMMA CrashCoordinatorInv ==
  ASSUME IInv, CrashCoordinator
  PROVE  IInv'
<1>1. TypeOK'
  BY IdleSlotType DEF CrashCoordinator, IInv, TypeOK, ParticipantTypeOK, LinkState,
       PState, WorkPC, RecoveryPC, Reply, KVReply
<1>2. Locks' /\ CoordinatorLog' /\ Progress'
  BY DEF CrashCoordinator, Locks, CoordinatorLog, Progress, InRound
<1>3. ASSUME NEW p \in PId PROVE PInv(p)'
  <2>0. PInv(p) BY DEF IInv
  <2>1. /\ wslot'[p].phase = "idle" /\ wslot'[p].ret = "SKIP"
        /\ rslot'[p].phase = "idle" /\ rslot'[p].ret = "SKIP"
        /\ ka'[p] = "poll" /\ maxTxidTB'[p] = 0 /\ resp'[p] = None /\ req' = req
        /\ link'[p] # "up" /\ (link'[p] \in {"down", "listen"} => link[p] = link'[p])
        /\ ptxid' = ptxid /\ plog' = plog /\ rpc' = "start"
    BY IdleSlotType DEF CrashCoordinator
  <2>2. ParticipantLog(p)'
    BY <2>0, <2>1 DEF PInv, ParticipantLog, CommittedEntry
  <2>3. SlotUse(p)' /\ ActiveState(p)' /\ WorkTask(p)' /\ RecoveryTask(p)'
    BY <2>1 DEF SlotUse, ActiveState, WorkTask, RecoveryTask
  <2>4. Channel(p)' /\ Result(p)' /\ Table(p)'
    BY <2>0, <2>1 DEF PInv, Channel, Result, Table, InRound
  <2> QED BY <2>2, <2>3, <2>4 DEF PInv
<1> QED BY <1>1, <1>2, <1>3 DEF IInv

LEMMA StutterInv ==
  ASSUME IInv, UNCHANGED vars
  PROVE  IInv'
<1> USE DEF vars, participantVars, workVars, recoveryVars, lockVars, stateVars
<1>1. TypeOK' /\ Locks' /\ CoordinatorLog' /\ Progress'
  BY DEF IInv, TypeOK, ParticipantTypeOK, Locks, CoordinatorLog, CommittedEntry,
       Progress
<1>2. ASSUME NEW p \in PId PROVE PInv(p)'
  BY <1>2, OtherParticipant DEF IInv, SameParticipant
<1> QED BY <1>1, <1>2 DEF IInv

-----------------------------------------------------------------------------
(***************************************************************************)
(* Theorems                                                                *)
(***************************************************************************)
LEMMA NextInv ==
  ASSUME IInv, [Next]_vars
  PROVE  IInv'
<1>1. ASSUME work PROVE IInv'
  BY <1>1, WorkAloneInv, StartUpdateInv, CollectVotesInv, CollectCommitsInv,
     StartRequestInv, RequestNextInv, RequestEndsInv DEF work
<1>2. ASSUME recovery PROVE IInv'
  BY <1>2, RecoveryAloneInv, QueryAllInv, BuildTableInv, ElectLeaderInv, TakeEntryInv,
     LeaderLostInv, PushNextInv, AskNextInv, ReplayLogInv, ReplayNextInv, MarkWorkingInv
     DEF recovery
<1>3. ASSUME NEW p \in PId, keepAlive(p) PROVE IInv'
  BY <1>3, ReconnectInv, MarkTempInv DEF keepAlive
<1>4. ASSUME NEW p \in PId, pWorking(p) PROVE IInv'
  BY <1>4, PWSkipInv, PWSendInv, PWReceiveInv, PWFailInv, PWGiveUpInv DEF pWorking
<1>5. ASSUME NEW p \in PId, pRecovery(p) PROVE IInv'
  BY <1>5, PRSkipInv, PRSendInv, PRReceiveInv, PRFailInv, PRGiveUpInv DEF pRecovery
<1>6. ASSUME NEW p \in PId, participant(p) \/ crash(p) \/ restart(p) PROVE IInv'
  BY <1>6, PWorkingInv, PKeepAliveInv, PCrashInv, PRestartInv
     DEF participant, crash, restart
<1> QED BY <1>1, <1>2, <1>3, <1>4, <1>5, <1>6, CrashCoordinatorInv, StutterInv DEF Next

\* The inductive invariant holds for any number of participants and under all
\* faults.
THEOREM Invariant == Spec => []IInv
<1>1. Init => IInv
  BY InitInv
<1>2. IInv /\ [Next]_vars => IInv'
  BY NextInv
<1> QED BY <1>1, <1>2, PTL DEF Spec

\* Every variable of coordinator.cc and participant.cc keeps its type: slots
\* hold tasks and replies, transaction numbers stay in range.
THEOREM TypeCorrect == Spec => []TypeOK
<1>1. IInv => TypeOK
  BY DEF IInv
<1> QED BY <1>1, Invariant, PTL

\* A participant's socket is used by one of its three threads at a time
\* (coordinator.cc:67-77, 84-109, 143-163), although no lock protects it.
THEOREM SocketSafety == Spec => []SocketExclusive
<1>1. IInv => SocketExclusive
  <2>1. ASSUME IInv, NEW p \in PId
        PROVE  /\ wslot[p].phase = "idle" \/ rslot[p].phase = "idle"
               /\ ActiveState(p) /\ ka[p] \in {"poll", "connected"}
    BY <2>1, OneSlotInUse DEF IInv, PInv, TypeOK
  <2> QED BY <2>1 DEF SocketExclusive, ActiveState
<1> QED BY <1>1, Invariant, PTL

\* Recovery finds every transaction it replays in the coordinator's log, and
\* finds it committed (the assertion in logger.cc, getLogByTXID).
THEOREM LogCompleteness == Spec => []LogComplete
<1>1. IInv => LogComplete
  <2>1. ASSUME IInv, NEW t \in TXID_START .. txid - 1
        PROVE  clog[t] # None /\ clog[t].ID = t /\ clog[t].state = "COMMIT"
    <3>1. t \in Txid /\ t < txid
      BY <2>1 DEF IInv, TypeOK
    <3> QED BY <2>1, <3>1, NoneAssumption
       DEF IInv, CoordinatorLog, CommittedEntry, LogEntry
  <2> QED BY <2>1 DEF LogComplete
<1> QED BY <1>1, Invariant, PTL

\* Only three steps write the coordinator's log, and they write the entry of
\* the next transaction.
LEMMA LogWrites ==
  ASSUME IInv, [Next]_vars, ~CrashCoordinator
  PROVE  /\ txid' >= txid
         /\ \A t \in TXID_START .. txid - 1 : clog'[t] = clog[t]
<1>1. txid \in TXID_START .. MaxTxid + 1 /\ clog \in [Txid -> LogEntry \cup {None}]
  BY DEF IInv, TypeOK
<1>2. CASE StartUpdate
  BY <1>1, <1>2 DEF StartUpdate, voteSlot, workUnchanged
<1>3. CASE CollectCommits
  BY <1>1, <1>3 DEF CollectCommits, workUnchanged
<1>4. CASE TakeEntry
  <2>1. \/ /\ clog' = [clog EXCEPT ![wslot[leader].data.log.ID] = wslot[leader].data.log]
           /\ txid' = txid + 1 /\ txid = wslot[leader].data.log.ID
        \/ clog' = clog /\ txid' = txid
    BY <1>4 DEF TakeEntry, extendsLog
  <2> QED BY <1>1, <2>1
<1>5. CASE UNCHANGED <<txid, clog>>
  BY <1>1, <1>5
<1>6. ASSUME [Next]_vars, ~CrashCoordinator, ~StartUpdate, ~CollectCommits, ~TakeEntry
      PROVE  UNCHANGED <<txid, clog>>
  <2> USE DEF stateVars
  <2>1. ASSUME work PROVE UNCHANGED <<txid, clog>>
    BY <1>6, <2>1 DEF work, AcceptClient, Refuse, Admit, BadCommand, CollectVotes,
       StartRequest, RequestAnswered, RequestNext, RequestFails
  <2>2. ASSUME recovery PROVE UNCHANGED <<txid, clog>>
    BY <1>6, <2>2 DEF recovery, StartRecovery, SuspendWork, LockRecovery, QueryAll,
       BuildTable, ElectLeader, LeaderLost, PushNext, AskNext, ReplayLog, ReplayNext,
       MarkWorking, ResumeWork
  <2>3. ASSUME NEW p \in PId, keepAlive(p) \/ pWorking(p)
        PROVE  UNCHANGED <<txid, clog>>
    BY <2>3 DEF keepAlive, Reconnect, MarkTemp, pWorking, PWSkip, PWSend, PWReceive,
       PWFail, PWGiveUp, pwUnchanged
  <2>4. ASSUME NEW p \in PId, pRecovery(p)
        PROVE  UNCHANGED <<txid, clog>>
    BY <2>4 DEF pRecovery, PRSkip, PRSend, PRReceive, PRFail, PRGiveUp, prUnchanged
  <2>5. ASSUME NEW p \in PId, participant(p) \/ crash(p) \/ restart(p)
        PROVE  UNCHANGED <<txid, clog>>
    BY <2>5 DEF participant, crash, restart, coordinatorVars
  <2> QED BY <1>6, <2>1, <2>2, <2>3, <2>4, <2>5 DEF Next, vars
<1> QED BY <1>2, <1>3, <1>4, <1>5, <1>6

\* The coordinator never takes back a transaction while it runs, neither when
\* it commits one (coordinator.cc:292-302) nor when recovery takes the log of a
\* participant (coordinator.cc:484-491).
THEOREM CommittedStability == Spec => CommittedStable
<1>1. IInv /\ [Next]_vars =>
        [\/ CrashCoordinator
         \/ /\ txid' >= txid
            /\ \A t \in TXID_START .. txid - 1 : clog'[t] = clog[t]]_vars
  BY LogWrites
<1> QED BY <1>1, Invariant, PTL DEF Spec, CommittedStable

===============================================================================
