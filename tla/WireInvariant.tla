---------------------------- MODULE WireInvariant ----------------------------
(***************************************************************************)
(* What the properties of Wire rest on: what was read from a stream and    *)
(* what is still on its way are together the text that was sent, or the    *)
(* beginning of it when a connection broke.                                *)
(***************************************************************************)
EXTENDS Wire

Begins(s, t) == Len(s) <= Len(t) /\ \A i \in 1 .. Len(s) : t[i] = s[i]

(***************************************************************************)
(* What is sent.  A client that goes leaves a part of its command, which   *)
(* is executed.                                                            *)
(***************************************************************************)
Beginnings(c) == {SubSeq(c, 1, n) : n \in 0 .. Len(c)}
PartialCommand == UNION {Beginnings(c) : c \in Command}

Update == {Log(tid, "COMMIT", c) : tid \in Txid, c \in PartialCommand}
WireTask ==
    Update \cup {Log(SUPER_TXID, "COMMIT", c) : c \in PartialCommand}
           \cup {Log(id, "PRE", <<>>) : id \in {RECOVERY_TXID} \cup Txid}
           \cup {AskLog(tid) : tid \in Txid}

Outcome(c) == {ErrorReply} \cup {eventParser(db, c).reply : db \in Database}
WireReply ==
    (UNION {Outcome(c) : c \in PartialCommand \cup {<<>>}}) \cup {PreReply, EmptyReply}
        \cup {TxidReply(tid) : tid \in TXID_START - 1 .. MaxTxid}
        \cup {LogReply(l) : l \in Update}

ASSUME CutOffAssumption ==
    \A c \in Command : /\ Verb(c) = "SET" /\ Len(c) >= 3 => c[2] \in Key /\ c[3] \in Value
                       /\ Verb(c) = "GET" /\ Len(c) >= 2 => c[2] \in Key

ASSUME NothingAssumption == None \notin WireTask \cup WireReply

\* The length of whatever is sent fits into a packet's header.
ASSUME FitsAssumption ==
    \A m \in {logToStr(l) : l \in WireTask} \cup {replyBytes(r) : r \in WireReply} :
        Len(m) < place[NumberLen]

(***************************************************************************)
(* A connection between the coordinator and a participant.  The arguments  *)
(* are the state of link, down, up, cx, px, req and resp.                  *)
(***************************************************************************)
taskPacket(rq) == IF rq = None THEN <<>> ELSE packet(logToStr(rq))
replyPacket(rs) == IF rs = None THEN <<>> ELSE packet(replyBytes(rs))

\* A broken connection may have lost the end of what was sent.
Carries(whole, stream, sent) == IF whole THEN stream = sent ELSE Begins(stream, sent)

ParticipantEnd(lk, dn, y, rq) ==
    /\ rq \in WireTask \cup {None} /\ dn \in Seq(Nat) /\ y \in RecvType
    /\ lk \in {"down", "listen"} => rq = None
    /\ Carries(lk = "up", y.header \o (y.content \o dn), taskPacket(rq))
    /\ y.pc = "header" => Len(y.header) < HeaderLen /\ y.content = <<>>
    /\ y.pc # "header" => Len(y.header) = HeaderLen
    /\ y.pc = "content" => Len(y.content) < btonum(y.header)
    /\ y.pc = "work" => Len(y.content) = btonum(y.header)

quiet(x) == x.pc = "idle" \/ (x.pc = "done" /\ x.rc = "OK")
reading(x) == x.pc \in {"header", "content"}

CoordinatorEnd(lk, u, x, rq, rs) ==
    /\ rs \in WireReply \cup {None} /\ u \in Seq(Nat) /\ x \in CallType
    /\ lk = "up" => x.open
    /\ lk = "half" => ~x.open
    /\ ~x.open => x = NoCall
    /\ quiet(x) => u = <<>> /\ rs = None /\ (lk = "up" => rq = None)
    /\ reading(x) => /\ x.rc = "OK"
                     /\ lk = "up" => rq = None \/ rs = None
    /\ x.pc = "header" => /\ x.header = <<>> /\ x.rmsg = <<>> /\ Len(x.part) < HeaderLen
                          /\ Carries(lk = "up", x.part \o u, replyPacket(rs))
    /\ x.pc = "content" => /\ x.part = <<>> /\ Len(x.header) = HeaderLen
                           /\ Len(x.rmsg) < btonum(x.header)
                           /\ Carries(lk = "up", x.header \o (x.rmsg \o u), replyPacket(rs))

Stored(p) ==
    /\ ptxid[p] \in TXID_START .. MaxTxid + 1
    /\ kv[p] \in Database
    /\ plog[p] \in [Txid -> Update \cup {None}]
    /\ \A t \in Txid : t < ptxid[p] => plog[p][t] \in Update

OfParticipants(f) == f = [p \in PId |-> f[p]]

ConnectionsInv ==
    /\ OfParticipants(ptxid) /\ OfParticipants(plog) /\ OfParticipants(kv)
    /\ OfParticipants(link) /\ OfParticipants(down) /\ OfParticipants(up)
    /\ OfParticipants(cx) /\ OfParticipants(px)
    /\ OfParticipants(req) /\ OfParticipants(resp)

ConnectionInv(p) ==
    /\ link[p] \in LinkState
    /\ Stored(p)
    /\ ParticipantEnd(link[p], down[p], px[p], req[p])
    /\ CoordinatorEnd(link[p], up[p], cx[p], req[p], resp[p])

FramingInv == ConnectionsInv /\ \A p \in PId : ConnectionInv(p)

(***************************************************************************)
(* A connection between a client and the work thread.                      *)
(***************************************************************************)
\* Where the words of a command begin in its text, and where it ends.
starts(ws) ==
    LET start[k \in 0 .. Len(ws)] ==
            IF k = 0 THEN 3 + Len(to_string(Len(ws)))
            ELSE start[k - 1] + Len(getStringMessage(ws[k]))
    IN  start

\* pos bytes of the text of ws are read, and x is what was made of them.
HasRead(x, ws, pos) ==
    LET k    == Len(x.words)
        n    == Len(ws)
        base == starts(ws)[k]
        len  == to_string(Len(ws[k + 1]))
    IN  /\ k <= n /\ \A i \in 1 .. k : x.words[i] = ws[i]
        /\ x.step \in {"star", "count", "countLF"} => k = 0
        /\ x.step \notin {"star", "count", "countLF"} => x.number = n /\ k < n
        /\ CASE x.step = "star"     -> pos = 0 /\ x.digits = <<>>
             [] x.step = "count"    -> pos = 1 + Len(x.digits) /\ Begins(x.digits, to_string(n))
             [] x.step = "countLF"  -> pos = 2 + Len(x.digits) /\ x.digits = to_string(n)
             [] x.step = "dollar"   -> /\ pos \in base - 2 .. base /\ (k = 0 => pos = base)
                                       /\ x.digits = <<>>
             [] x.step = "length"   -> pos = base + 1 + Len(x.digits) /\ Begins(x.digits, len)
             [] x.step = "lengthLF" -> pos = base + 2 + Len(x.digits) /\ x.digits = len
             [] x.step = "content"  -> /\ pos = base + 3 + Len(len) + Len(x.content)
                                       /\ x.digits = len
                                       /\ Begins(x.content, ws[k + 1])
                                       /\ Len(x.content) < Len(ws[k + 1])
        /\ x.step # "content" => x.content = <<>>

ClientInv(c) ==
    LET there == c \in connectedClients
        cl    == client[c]
    IN  /\ cl.pc # "line" => cl.command \in Command
        /\ cl.pc = "line" => ~there
        /\ cl.pc = "done" /\ there => w.pc = "close" /\ w.peer = c
        /\ ~there \/ cl.pc = "send" => in[c] = <<>>
        /\ c \in ToSet(queue) => Begins(in[c], commandBytes(cl.command))
        /\ out[c] # <<>> =>
             /\ cl.pc \in {"send", "recv"}
             /\ there => w.pc = "close" /\ w.peer = c
             /\ \E r \in Outcome(cl.command) : Begins(out[c], replyBytes(r) \o <<NUL>>)
        /\ cl.pc = "done" =>
             \E r \in Outcome(cl.command) : Begins(cl.printed, replyBytes(r) \o <<NUL>>)

WorkInv ==
    LET c  == w.peer
        ws == spelled(client[c].command)
    IN  /\ c \notin ToSet(queue)
        /\ w.pc # "accept" => c \in Client
        /\ w.pc = "recv" =>
             /\ \E pos \in 0 .. Len(getRESPArry(ws)) :
                  HasRead(w, ws, pos) /\ Begins(in[c], from(getRESPArry(ws), pos))
             /\ client[c].pc = "send" => w.step = "star"
        /\ w.pc \notin {"accept", "recv", "close"} =>
             /\ Begins(w.words, ws)
             /\ w.words \in {<<>>, ws} \/ client[c].pc = "gone"
        /\ w.pc \in {"lock", "request", "vote", "commit"} => w.words # <<>>
        /\ w.pc = "answer" /\ client[c].pc # "gone" =>
             \E r \in Outcome(client[c].command) : w.answer = replyBytes(r)

ServiceInv ==
    /\ ServiceTypeOK
    /\ \A c \in Client : ClientInv(c)
    /\ WorkInv

(***************************************************************************)
(* Between the two: whose task and whose reply a call is about.            *)
(***************************************************************************)
inRequest == w.pc \in {"request", "commit"}

Answers(bytes) == \E r \in Outcome(words) : bytes = replyBytes(r)

SlotInv(p) ==
    /\ ptask[p] \in WireTask \cup {None}
    /\ pret[p] # None => ptask[p] = None
    /\ mutex # "work" => ptask[p] = None /\ pret[p] = None
    /\ w.pc = "request" /\ p # turn => ptask[p] = None
    /\ w.pc = "request" /\ ptask[p] # None => ptask[p] = read
    /\ w.pc = "commit" /\ ptask[p] # None =>
         \E tid \in Txid : ptask[p] = Log(tid, "COMMIT", words)
    /\ cx[p].pc # "idle" => mutex = "recovery" \/ (ptask[p] # None /\ pstate[p] = "WORKING")
    /\ reading(cx[p]) /\ ptask[p] # None /\ req[p] # None => req[p] = ptask[p]
    /\ reading(cx[p]) /\ ptask[p] # None /\ resp[p] # None /\ inRequest => resp[p] \in Outcome(words)
    /\ cx[p].pc = "done" /\ cx[p].rc = "OK" /\ ptask[p] # None /\ inRequest => Answers(cx[p].rmsg)
    /\ inRequest /\ pret[p] # None => (pret[p].rc = "OK" => Answers(pret[p].rmsg))

ControlInv ==
    /\ pstate \in [PId -> PState]
    /\ DOMAIN ptask = PId /\ DOMAIN pret = PId
    /\ cstate \in {"C_RECOVERY", "C_WORKING"}
    /\ turn \in PId
    /\ mutex \in {"free", "work", "recovery"}
    /\ (mutex = "work") <=> (w.pc \in {"request", "vote", "commit"})
    /\ \A p \in PId : SlotInv(p)

WireInv == FramingInv /\ ServiceInv /\ ControlInv
=============================================================================
