-------------------------------- MODULE Wire --------------------------------
(***************************************************************************)
(* Lab 3 on its sockets: the clients and the work thread of ClientService, *)
(* the packets of Framing, and between them what the coordinator does with *)
(* a command.  Which transaction number it uses, and what Recovery decides,*)
(* is the matter of module Coordinator; here they are any.  Tasks and      *)
(* results are handed over as module Rendezvous promises.                  *)
(***************************************************************************)
EXTENDS ClientService, Framing

VARIABLES
    pstate,    \* pstate[p]: WAITING, TEMP, RECOVERY or WORKING
    ptask,     \* ptask[p]: the task that the work thread hands to p's thread, or None
    pret,      \* pret[p]: what that thread hands back, or None
    cstate,    \* _cstate, C_RECOVERY or C_WORKING
    turn,      \* the participant that Request asks
    mutex      \* who holds _workingMutex

coordinatorVars == <<pstate, cstate, ptask, pret, turn, mutex>>
vars == <<serviceVars, framingVars, coordinatorVars>>

Skipped == [rc |-> "SKIP", rmsg |-> <<>>]
PState == {"WAITING", "TEMP", "RECOVERY", "WORKING"}

Init ==
    /\ ServiceInit /\ FramingInit
    /\ pstate = [p \in PId |-> "WAITING"]
    /\ ptask = [p \in PId |-> None]
    /\ pret = [p \in PId |-> None]
    /\ cstate = "C_RECOVERY"
    /\ turn = 1
    /\ mutex = "free"

(***************************************************************************)
(* Working, once the command is read.                                      *)
(***************************************************************************)
errorAnswer == replyBytes(ErrorReply)
answered(bytes) == [w EXCEPT !.pc = "answer", !.answer = bytes]

words == wordsOf(w.words)
isUpdate == Verb(words) \in {"SET", "DEL"}
isRead == Verb(words) = "GET"

\* Without a word, or while _cstate is C_RECOVERY, a client is turned away.
Reject ==
    /\ w.pc = "dispatch"
    /\ words = <<>> \/ cstate # "C_WORKING"
    /\ w' = answered(errorAnswer)
    /\ UNCHANGED <<client, queue, listening, in, out, framingVars, coordinatorVars>>

\* Recovery can still come before the mutex is taken.
Admit ==
    /\ w.pc = "dispatch" /\ words # <<>> /\ cstate = "C_WORKING"
    /\ w' = [w EXCEPT !.pc = "lock"]
    /\ UNCHANGED <<client, queue, listening, in, out, framingVars, coordinatorVars>>

Refuse ==
    /\ w.pc = "lock" /\ mutex = "free" /\ ~isUpdate /\ ~isRead
    /\ w' = answered(errorAnswer)
    /\ UNCHANGED <<client, queue, listening, in, out, framingVars, coordinatorVars>>

handOver(ps, task) ==
    /\ ptask' = [p \in PId |-> IF p \in ps THEN task ELSE ptask[p]]
    /\ pret' = [p \in PId |-> IF p \in ps THEN None ELSE pret[p]]

\* The answer is there, and the mutex is released.
respond(bytes) ==
    /\ w' = answered(bytes)
    /\ mutex' = "free"
    /\ pret' = [p \in PId |-> None]
    /\ UNCHANGED ptask

read == Log(SUPER_TXID, "COMMIT", words)

\* Request begins: one participant after the other.
Request ==
    /\ w.pc = "lock" /\ isRead /\ mutex = "free"
    /\ mutex' = "work"
    /\ w' = [w EXCEPT !.pc = "request"]
    /\ turn' = 1
    /\ handOver({1}, read)
    /\ UNCHANGED <<client, queue, listening, in, out, framingVars, pstate, cstate>>

\* Mutant: what a failed call has got so far is an answer.
anythingIn(r) == r.rmsg # <<>>
isAnswer(r) == r.rc = "OK" /\ r.rmsg # <<>>

\* An answer ends it, and so does the last participant.
RequestResult ==
    /\ w.pc = "request" /\ pret[turn] # None
    /\ IF isAnswer(pret[turn]) THEN respond(pret[turn].rmsg) /\ turn' = 1
       ELSE IF turn = PNum THEN respond(errorAnswer) /\ turn' = 1
       ELSE turn' = turn + 1 /\ handOver({turn + 1}, read) /\ UNCHANGED <<w, mutex>>
    /\ UNCHANGED <<client, queue, listening, in, out, framingVars, pstate, cstate>>

\* UpdateDB: everybody is asked to vote ...
UpdateDB ==
    /\ w.pc = "lock" /\ isUpdate /\ mutex = "free"
    /\ mutex' = "work"
    /\ \E tid \in Txid : handOver(PId, Log(tid, "PRE", <<>>))
    /\ w' = [w EXCEPT !.pc = "vote"]
    /\ UNCHANGED <<client, queue, listening, in, out, framingVars, pstate, cstate, turn>>

allIn == \A p \in PId : pret[p] # None
succeeded(p) == pret[p].rc = "OK"

\* ... one vote is enough for the commit ...
Vote ==
    /\ w.pc = "vote" /\ allIn
    /\ IF \E p \in PId : succeeded(p) /\ pret[p].rmsg = replyBytes(PreReply)
       THEN /\ \E tid \in Txid : handOver(PId, Log(tid, "COMMIT", words))
            /\ w' = [w EXCEPT !.pc = "commit"]
            /\ UNCHANGED mutex
       ELSE respond(errorAnswer)
    /\ UNCHANGED <<client, queue, listening, in, out, framingVars, pstate, cstate, turn>>

\* ... and of the answers the last one counts that is no error.
Commit ==
    LET committed == {p \in PId : succeeded(p) /\ pret[p].rmsg # errorAnswer}
    IN  /\ w.pc = "commit" /\ allIn
        /\ respond(IF committed = {} THEN errorAnswer
                   ELSE pret[CHOOSE p \in committed : \A q \in committed : q <= p].rmsg)
        /\ UNCHANGED <<client, queue, listening, in, out, framingVars, pstate, cstate, turn>>

(***************************************************************************)
(* pWorking, pRecovery and keepAlive                                       *)
(***************************************************************************)
pSkips(p) ==
    /\ ptask[p] # None /\ pstate[p] # "WORKING"
    /\ ptask' = [ptask EXCEPT ![p] = None]
    /\ pret' = [pret EXCEPT ![p] = Skipped]
    /\ UNCHANGED <<serviceVars, framingVars, pstate, cstate, turn, mutex>>

pCalls(p) ==
    /\ ptask[p] # None /\ pstate[p] = "WORKING"
    /\ Call(p, ptask[p])
    /\ UNCHANGED <<serviceVars, coordinatorVars>>

\* Both threads close the connection after a failure; only pWorking has somebody
\* waiting for the result.
pReturns(p) ==
    /\ Return(p)
    /\ pstate' = IF failed(cx[p]) THEN [pstate EXCEPT ![p] = "WAITING"] ELSE pstate
    /\ IF ptask[p] # None
       THEN /\ ptask' = [ptask EXCEPT ![p] = None]
            /\ pret' = [pret EXCEPT ![p] = [rc |-> cx[p].rc, rmsg |-> cx[p].rmsg]]
       ELSE UNCHANGED <<ptask, pret>>
    /\ UNCHANGED <<serviceVars, cstate, turn, mutex>>

\* _recoveryMutex keeps who comes back out of a recovery that goes on.
keepAlive(p) ==
    /\ pstate[p] = "WAITING" /\ mutex # "recovery"
    /\ Reconnect(p)
    /\ pstate' = [pstate EXCEPT ![p] = "TEMP"]
    /\ UNCHANGED <<serviceVars, cstate, ptask, pret, turn, mutex>>

(***************************************************************************)
(* Recovery: it asks for numbers and log entries and sends log entries, in *)
(* any order, and who is up to date in the end works again.                *)
(***************************************************************************)
recoveryTask ==
    {Log(RECOVERY_TXID, "PRE", <<>>)} \cup {AskLog(tid) : tid \in Txid}
        \cup {Log(tid, "COMMIT", c) : tid \in Txid,
                                      c \in {u \in Command : Verb(u) \in {"SET", "DEL"}}}

RecoveryWakes ==
    /\ mutex # "recovery" /\ \E p \in PId : pstate[p] = "TEMP"
    /\ cstate' = "C_RECOVERY"
    /\ UNCHANGED <<serviceVars, framingVars, pstate, ptask, pret, turn, mutex>>

RecoveryBegins ==
    /\ cstate = "C_RECOVERY" /\ mutex = "free" /\ \E p \in PId : pstate[p] = "TEMP"
    /\ mutex' = "recovery"
    /\ pstate' = [p \in PId |-> IF pstate[p] \in {"TEMP", "WORKING"} THEN "RECOVERY"
                                ELSE pstate[p]]
    /\ UNCHANGED <<serviceVars, framingVars, cstate, ptask, pret, turn>>

\* Bound: recovery has something to ask only while no client is there.
nobodyThere == \A c \in Client : client[c].pc = "line"

RecoveryCalls(p) ==
    /\ mutex = "recovery" /\ pstate[p] = "RECOVERY" /\ nobodyThere
    /\ \E task \in recoveryTask : Call(p, task)
    /\ UNCHANGED <<serviceVars, coordinatorVars>>

RecoveryEnds ==
    /\ mutex = "recovery" /\ \A p \in PId : cx[p].pc = "idle"
    /\ mutex' = "free"
    /\ cstate' = "C_WORKING"
    /\ \E ps \in SUBSET {p \in PId : pstate[p] = "RECOVERY"} :
         pstate' = [p \in PId |-> IF p \in ps THEN "WORKING" ELSE pstate[p]]
    /\ UNCHANGED <<serviceVars, framingVars, ptask, pret, turn>>

transfer(p) ==
    /\ \/ RecvHeader(p) \/ RecvContent(p) \/ RecvTimeout(p) \/ RecvClosed(p)
       \/ participantEnd(p) \/ PKilled(p) \/ PStarted(p)
    /\ UNCHANGED <<serviceVars, coordinatorVars>>

\* Bound: the two sides take turns.  Clients send and get answers only while
\* nothing is on its way to or from a participant, and while the work thread
\* reads or answers, the participants stand still.
onWire == \E p \in PId : cx[p].pc # "idle" \/ down[p] # <<>> \/ px[p] # NewRecv
talking == w.pc \in {"recv", "answer", "close"} /\ ~onWire

Next ==
    \/ ~onWire /\ UNCHANGED <<framingVars, coordinatorVars>>
         /\ (serviceStep \/ \E c \in Client : clientStep(c))
    \/ Reject \/ Admit \/ Refuse \/ Request \/ RequestResult \/ UpdateDB \/ Vote \/ Commit
    \/ ~talking /\ (RecoveryWakes \/ RecoveryBegins \/ RecoveryEnds)
    \/ ~talking /\ \E p \in PId : \/ pSkips(p) \/ pCalls(p) \/ pReturns(p) \/ keepAlive(p)
                                  \/ RecoveryCalls(p) \/ transfer(p)

Spec == Init /\ [][Next]_vars

TypeOK ==
    /\ ServiceTypeOK /\ FramingTypeOK
    /\ pstate \in [PId -> PState]
    /\ \A p \in PId : pret[p] # None => ptask[p] = None
    /\ cstate \in {"C_RECOVERY", "C_WORKING"}
    /\ turn \in PId
    /\ mutex \in {"free", "work", "recovery"}
    /\ (mutex = "work") <=> (w.pc \in {"request", "vote", "commit"})
=============================================================================
