------------------------------- MODULE Framing -------------------------------
(***************************************************************************)
(* The packets between the coordinator and its participants: Network::send,*)
(* recv, reaccept, sendAndRecv, reconnect and close on streams of bytes,   *)
(* which arrive in pieces of any size.                                     *)
(*                                                                         *)
(* kv, plog and ptxid are the participant's, and link is the state of the  *)
(* connection as in Participant, but for the coordinator's end, which is   *)
(* open until the coordinator closes it.  req and resp are history         *)
(* variables: the task that was sent and not yet executed, the reply that  *)
(* was sent and not yet received.  No action looks at them.                *)
(***************************************************************************)
EXTENDS Resp

VARIABLES
    down,      \* down[p]: bytes on their way to p
    up,        \* up[p]: bytes on their way to the coordinator
    cx,        \* cx[p]: the coordinator's call of sendAndRecv, and whether its end is open
    px         \* px[p]: the participant's call of recv

storeVars == <<ptxid, plog, kv>>
framingVars == <<participantVars, down, up, cx, px>>

NoCall == [open |-> FALSE, pc |-> "idle", part |-> <<>>, header |-> <<>>,
           rmsg |-> <<>>, rc |-> "OK"]
NewRecv == [pc |-> "header", header |-> <<>>, content |-> <<>>]

FramingInit ==
    /\ ParticipantInit
    /\ down = [p \in PId |-> <<>>]
    /\ up = [p \in PId |-> <<>>]
    /\ cx = [p \in PId |-> NoCall]
    /\ px = [p \in PId |-> NewRecv]

\* What is before the "~" of a header is thrown away.
fromTilde(bytes) ==
    LET at == {i \in DOMAIN bytes : bytes[i] = TILDE}
    IN  IF at = {} THEN <<>> ELSE rest(bytes, Min(at) - 1)

extended(header, bytes) == IF header = <<>> THEN fromTilde(bytes) ELSE header \o bytes

(***************************************************************************)
(* The coordinator                                                         *)
(***************************************************************************)
\* reconnect: there are new streams, and both ends begin with nothing read.
Reconnect(p) ==
    /\ ~cx[p].open
    /\ link[p] = "listen"
    /\ link' = [link EXCEPT ![p] = "up"]
    /\ cx' = [cx EXCEPT ![p] = [NoCall EXCEPT !.open = TRUE]]
    /\ px' = [px EXCEPT ![p] = NewRecv]
    /\ UNCHANGED <<storeVars, req, resp, down, up>>

\* sendAndRecv sends its packet.  When the participant's end is gone, this
\* fails, or nobody notices yet.
Call(p, task) ==
    /\ cx[p].open /\ cx[p].pc = "idle"
    /\ \/ /\ link[p] = "up"
          /\ down' = [down EXCEPT ![p] = @ \o packet(logToStr(task))]
          /\ req' = [req EXCEPT ![p] = task]
          /\ cx' = [cx EXCEPT ![p] = [NoCall EXCEPT !.open = TRUE, !.pc = "header"]]
       \/ /\ link[p] # "up"
          /\ \/ cx' = [cx EXCEPT ![p] = [NoCall EXCEPT !.open = TRUE, !.pc = "header"]]
             \/ cx' = [cx EXCEPT ![p].pc = "done", ![p].rc = "NETWORK"]
          /\ UNCHANGED <<down, req>>
    /\ UNCHANGED <<storeVars, link, resp, up, px>>

\* The header was read: an empty packet leaves rmsg as it is.
headerRead(x) ==
    LET header == extended(x.header, x.part)
    IN  [x EXCEPT !.header = header,
                  !.part = <<>>,
                  !.pc = IF Len(header) # HeaderLen THEN "header"
                         ELSE IF btonum(header) = 0 THEN "done" ELSE "content"]

\* The header is asked for as a whole, whatever the pieces.
RecvHeader(p) ==
    LET x    == cx[p]
        need == HeaderLen - Len(x.header) - Len(x.part)
    IN  /\ x.pc = "header"
        /\ \E n \in pieces(up[p], need) :
             LET y == [x EXCEPT !.part = @ \o first(up[p], n)]
             IN  /\ cx' = [cx EXCEPT ![p] = IF n = need THEN headerRead(y) ELSE y]
                 /\ up' = [up EXCEPT ![p] = rest(@, n)]
        /\ resp' = IF cx'[p].pc = "done" THEN [resp EXCEPT ![p] = None] ELSE resp
        /\ UNCHANGED <<storeVars, link, req, down, px>>

\* Mutant: the content is what comes in one piece.
firstPiece(x) == TRUE
complete(x) == Len(x.rmsg) = btonum(x.header)

\* The content is taken in pieces.
RecvContent(p) ==
    LET x == cx[p]
    IN  /\ x.pc = "content"
        /\ \E n \in pieces(up[p], btonum(x.header) - Len(x.rmsg)) :
             LET y == [x EXCEPT !.rmsg = @ \o first(up[p], n)]
             IN  /\ cx' = [cx EXCEPT ![p] = IF complete(y) THEN [y EXCEPT !.pc = "done"] ELSE y]
                 /\ up' = [up EXCEPT ![p] = rest(@, n)]
        /\ resp' = IF cx'[p].pc = "done" THEN [resp EXCEPT ![p] = None] ELSE resp
        /\ UNCHANGED <<storeVars, link, req, down, px>>

\* Nothing arrives in time.  There is no limit once a part of a header is there.
RecvTimeout(p) ==
    /\ cx[p].pc = "content" \/ (cx[p].pc = "header" /\ cx[p].part = <<>>)
    /\ cx' = [cx EXCEPT ![p].pc = "done", ![p].rc = "TIMEOUT"]
    /\ UNCHANGED <<participantVars, down, up, px>>

RecvClosed(p) ==
    /\ cx[p].pc \in {"header", "content"}
    /\ link[p] \in {"down", "listen"} /\ up[p] = <<>>
    /\ cx' = [cx EXCEPT ![p].pc = "done", ![p].rc = "CLOSE"]
    /\ UNCHANGED <<participantVars, down, up, px>>

\* Mutant: the connection is used again after a timeout.
mustClose(x) == x.rc \in {"NETWORK", "CLOSE"}
failed(x) == x.rc # "OK"

\* sendAndRecv returns.  After a failure the connection is closed, and what the
\* participant has not read of it may be cut short.
Return(p) ==
    /\ cx[p].pc = "done"
    /\ IF failed(cx[p])
       THEN /\ cx' = [cx EXCEPT ![p] = NoCall]
            /\ link' = [link EXCEPT ![p] = IF @ = "up" THEN "half" ELSE @]
            /\ resp' = [resp EXCEPT ![p] = None]
            /\ up' = [up EXCEPT ![p] = <<>>]
            /\ \E bytes \in torn(down[p]) : down' = [down EXCEPT ![p] = bytes]
       ELSE /\ cx' = [cx EXCEPT ![p] = [NoCall EXCEPT !.open = TRUE]]
            /\ UNCHANGED <<link, resp, up, down>>
    /\ UNCHANGED <<storeVars, req, px>>

(***************************************************************************)
(* The participant                                                         *)
(***************************************************************************)
connected(p) == link[p] \in {"up", "half"}

\* recv: every piece of the header is looked at by itself.
PRecvHeader(p) ==
    LET x == px[p]
    IN  /\ connected(p) /\ x.pc = "header"
        /\ \E n \in pieces(down[p], HeaderLen - Len(x.header)) :
             LET header == extended(x.header, first(down[p], n))
             IN  /\ px' = [px EXCEPT ![p].header = header,
                                     ![p].pc = IF Len(header) # HeaderLen THEN "header"
                                               ELSE IF btonum(header) = 0 THEN "work"
                                               ELSE "content"]
                 /\ down' = [down EXCEPT ![p] = rest(@, n)]
        /\ UNCHANGED <<participantVars, up, cx>>

PRecvContent(p) ==
    LET x    == px[p]
        need == btonum(x.header) - Len(x.content)
    IN  /\ connected(p) /\ x.pc = "content"
        /\ \E n \in pieces(down[p], need) :
             /\ px' = [px EXCEPT ![p].content = @ \o first(down[p], n),
                                 ![p].pc = IF n = need THEN "work" ELSE "content"]
             /\ down' = [down EXCEPT ![p] = rest(@, n)]
        /\ UNCHANGED <<participantVars, up, cx>>

\* pWorker executes what was read, and send ignores that nobody may listen.
PWork(p) ==
    LET l == strToLog(px[p].content)
    IN  /\ connected(p) /\ px[p].pc = "work"
        /\ kv' = IF l.ID = SUPER_TXID \/ commits(p, l)
                 THEN [kv EXCEPT ![p] = eventParser(kv[p], l.event).db] ELSE kv
        /\ IF logsTask(p, l)
           THEN plog' = [plog EXCEPT ![p][l.ID] = l] /\ ptxid' = [ptxid EXCEPT ![p] = @ + 1]
           ELSE UNCHANGED <<plog, ptxid>>
        /\ IF link[p] = "up"
           THEN /\ up' = [up EXCEPT ![p] = @ \o packet(replyBytes(workerReply(p, l)))]
                /\ resp' = [resp EXCEPT ![p] = workerReply(p, l)]
           ELSE UNCHANGED <<up, resp>>
        /\ px' = [px EXCEPT ![p] = NewRecv]
        /\ req' = [req EXCEPT ![p] = None]
        /\ UNCHANGED <<link, down, cx>>

\* Only a closed connection ends recv; a packet cut short is forgotten.
PAcceptAgain(p) ==
    /\ link[p] = "half" /\ down[p] = <<>> /\ px[p].pc \in {"header", "content"}
    /\ link' = [link EXCEPT ![p] = "listen"]
    /\ px' = [px EXCEPT ![p] = NewRecv]
    /\ req' = [req EXCEPT ![p] = None]
    /\ UNCHANGED <<storeVars, resp, down, up, cx>>

\* The process is killed: of its last reply any part may still arrive.
PKilled(p) ==
    /\ PCrash(p)
    /\ down' = [down EXCEPT ![p] = <<>>]
    /\ \E bytes \in torn(up[p]) : up' = [up EXCEPT ![p] = bytes]
    /\ px' = [px EXCEPT ![p] = NewRecv]
    /\ UNCHANGED cx

PStarted(p) == PRestart(p) /\ UNCHANGED <<down, up, cx, px>>

participantEnd(p) == PRecvHeader(p) \/ PRecvContent(p) \/ PWork(p) \/ PAcceptAgain(p)

-----------------------------------------------------------------------------
CallType == [open : BOOLEAN, pc : {"idle", "header", "content", "done"},
             part : Seq(Nat), header : Seq(Nat), rmsg : Seq(Nat),
             rc : {"OK", "NETWORK", "TIMEOUT", "CLOSE"}]
RecvType == [pc : {"header", "content", "work"}, header : Seq(Nat), content : Seq(Nat)]

FramingTypeOK ==
    /\ ptxid \in [PId -> TXID_START .. MaxTxid + 1]
    /\ kv \in [PId -> Database]
    /\ link \in [PId -> LinkState]
    /\ down \in [PId -> Seq(Nat)] /\ up \in [PId -> Seq(Nat)]
    /\ cx \in [PId -> CallType] /\ px \in [PId -> RecvType]
    /\ \A p \in PId : /\ cx[p].open \/ cx[p].pc = "idle"
                      /\ link[p] = "up" => cx[p].open
                      /\ link[p] = "half" => ~cx[p].open

\* What the coordinator's model takes for granted of the connection to a
\* participant: one task or one reply at a time, whole, once, in order; what a
\* failure can destroy; and that the participant executes exactly what was sent
\* (network.cc:229-417, participant.cc:22-42).
linkStep(p) ==
    \/ PWorking(p) \/ PKeepAlive(p) \/ PCrash(p) \/ PRestart(p) \/ Connect(p)
    \/ link[p] = "up" /\ req[p] = None /\ resp[p] = None /\ req'[p] # None /\ Deliver(p, req'[p])
    \/ TakeReply(p) \/ CloseLink(p)

ImplementsParticipant == [][\E p \in PId : linkStep(p)]_participantVars

\* Where sendAndRecv succeeds, rmsg is the reply to the task of this call, all
\* of it and nothing else (network.cc:370-411).
AnswerWhole ==
    [][\A p \in PId : cx[p].pc # "done" /\ cx'[p].pc = "done" /\ cx'[p].rc = "OK" =>
         /\ req[p] = None /\ resp[p] # None
         /\ cx'[p].rmsg = replyBytes(resp[p])]_framingVars

\* Before a call nothing of an earlier one is on the way or half read; a "~" is
\* never searched for in the middle of something (network.cc:276-289, 380-391).
NothingLeft ==
    \A p \in PId : cx[p].open /\ cx[p].pc = "idle" =>
        /\ up[p] = <<>>
        /\ link[p] = "up" => down[p] = <<>> /\ px[p] = NewRecv
=============================================================================
