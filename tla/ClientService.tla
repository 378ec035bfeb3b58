---------------------------- MODULE ClientService ----------------------------
(***************************************************************************)
(* How clients and the coordinator's work thread meet: the client program, *)
(* which opens a connection for every line it reads, and in the thread     *)
(* initBind, acceptWithoutCloseBind, recvCommand, sendResult and close.    *)
(* What happens to a command that was read is the business of the module   *)
(* that extends this one.  A client of the model is one line and its       *)
(* connection; the byte streams are those of module Resp.                  *)
(***************************************************************************)
EXTENDS Resp

CONSTANT Client

VARIABLES
    client,    \* client[c]: where the client is, its command, and what it printed
    queue,     \* the connections that wait for accept
    listening, \* the work thread has bound its port
    in,        \* in[c]: bytes on their way from c
    out,       \* out[c]: bytes on their way to c
    w          \* the work thread: its connection, and its call of recvCommand

serviceVars == <<client, queue, listening, in, out, w>>

NUL == 0
BufferLen == 1024     \* what the client program asks for

NoClient == "nobody"

ASSUME NoClientAssumption == NoClient \notin Client

Idle == [pc |-> "accept", peer |-> NoClient, step |-> "star", words |-> <<>>,
         number |-> 0, digits |-> <<>>, content |-> <<>>, answer |-> <<>>]

NoLine == [pc |-> "line", command |-> <<>>, printed |-> <<>>]

ServiceInit ==
    /\ client = [c \in Client |-> NoLine]
    /\ queue = <<>>
    /\ listening = FALSE
    /\ in = [c \in Client |-> <<>>]
    /\ out = [c \in Client |-> <<>>]
    /\ w = Idle

connectedClients == {w.peer} \cup ToSet(queue)

(***************************************************************************)
(* The client program                                                      *)
(***************************************************************************)
\* It reads a line and tries to connect until somebody listens.
OpenConnection(c) ==
    /\ client[c].pc = "line" /\ listening
    /\ \E command \in Command :
         client' = [client EXCEPT ![c].pc = "send", ![c].command = command]
    /\ queue' = Append(queue, c)
    /\ UNCHANGED <<listening, in, out, w>>

\* That send may fail is ignored; then the connection is reset.
Send(c) ==
    /\ client[c].pc = "send"
    /\ client' = [client EXCEPT ![c].pc = "recv"]
    /\ IF c \in connectedClients
       THEN in' = [in EXCEPT ![c] = commandBytes(client[c].command)] /\ out' = out
       ELSE in' = in /\ \E bytes \in torn(out[c]) : out' = [out EXCEPT ![c] = bytes]
    /\ UNCHANGED <<queue, listening, w>>

\* It prints what comes first, and is content with that.  When nothing ever
\* comes, it asks for ever, even on a connection that is closed.
Receive(c) ==
    /\ client[c].pc = "recv"
    /\ \E n \in pieces(out[c], BufferLen) :
         client' = [client EXCEPT ![c].pc = "done", ![c].printed = first(out[c], n)]
    /\ out' = [out EXCEPT ![c] = <<>>]
    /\ UNCHANGED <<queue, listening, in, w>>

\* It is killed, possibly in the middle of sending.
Quit(c) ==
    /\ client[c].pc \in {"send", "recv"}
    /\ client' = [client EXCEPT ![c].pc = "gone"]
    /\ IF client[c].pc = "send" /\ c \in connectedClients
       THEN \E bytes \in torn(commandBytes(client[c].command)) :
              in' = [in EXCEPT ![c] = bytes]
       ELSE in' = in
    /\ out' = [out EXCEPT ![c] = <<>>]
    /\ UNCHANGED <<queue, listening, w>>

\* The next line is another client.
NextLine(c) ==
    /\ client[c].pc \in {"done", "gone"} /\ c \notin connectedClients
    /\ client' = [client EXCEPT ![c] = NoLine]
    /\ UNCHANGED <<queue, listening, in, out, w>>

(***************************************************************************)
(* The work thread                                                         *)
(***************************************************************************)
initBind ==
    /\ w.pc = "accept" /\ ~listening
    /\ listening' = TRUE
    /\ UNCHANGED <<client, queue, in, out, w>>

acceptWithoutCloseBind ==
    /\ w.pc = "accept" /\ queue # <<>>
    /\ w' = [Idle EXCEPT !.pc = "recv", !.peer = Head(queue)]
    /\ queue' = Tail(queue)
    /\ UNCHANGED <<client, listening, in, out>>

\* Only the words are left of the call.
commandRead(x) == [Idle EXCEPT !.pc = "dispatch", !.peer = x.peer, !.words = x.words]
nextWord(x) == IF Len(x.words) = x.number THEN commandRead(x)
               ELSE [x EXCEPT !.step = "dollar", !.digits = <<>>, !.content = <<>>]

\* Mutant: a word is what comes in one piece.
onePiece(x) == x.content # <<>> \/ strtol(x.digits) = 0
wordComplete(x) == Len(x.content) = strtol(x.digits)

content(x) == IF wordComplete(x)
              THEN nextWord([x EXCEPT !.words = Append(@, x.content)])
              ELSE [x EXCEPT !.step = "content"]

\* The steps of a header: a "*" or a "$", the digits, and the end of the line.
\* Anything else ends the command, with the words read so far.
headerByte(x, b) ==
    LET digitsThen(lf) == IF b = CR THEN [x EXCEPT !.step = lf]
                          ELSE IF isDigit(b) THEN [x EXCEPT !.digits = Append(@, b)]
                          ELSE commandRead(x)
    IN  CASE x.step = "star"     -> IF b = STAR THEN [x EXCEPT !.step = "count"] ELSE x
          [] x.step = "count"    -> digitsThen("countLF")
          [] x.step = "countLF"  -> IF b = LF THEN nextWord([x EXCEPT !.number = strtol(x.digits)])
                                    ELSE commandRead(x)
          [] x.step = "dollar"   -> IF b = DOLLAR THEN [x EXCEPT !.step = "length"] ELSE x
          [] x.step = "length"   -> digitsThen("lengthLF")
          [] x.step = "lengthLF" -> IF b = LF THEN content(x) ELSE commandRead(x)

\* recvCommand gets a byte of a header, or a piece of a word.
RecvByte ==
    /\ w.pc = "recv" /\ w.step # "content" /\ in[w.peer] # <<>>
    /\ w' = headerByte(w, Head(in[w.peer]))
    /\ in' = [in EXCEPT ![w.peer] = Tail(@)]
    /\ UNCHANGED <<client, queue, listening, out>>

RecvWord ==
    /\ w.pc = "recv" /\ w.step = "content"
    /\ \E n \in pieces(in[w.peer], strtol(w.digits) - Len(w.content)) :
         /\ w' = content([w EXCEPT !.content = @ \o first(in[w.peer], n)])
         /\ in' = [in EXCEPT ![w.peer] = rest(@, n)]
    /\ UNCHANGED <<client, queue, listening, out>>

\* Only the first header has to come in time; the end of the connection is
\* the end of the command anywhere.
RecvFails ==
    /\ w.pc = "recv"
    /\ \/ w.step \in {"star", "count", "countLF"}
       \/ in[w.peer] = <<>> /\ client[w.peer].pc = "gone"
    /\ w' = commandRead(w)
    /\ UNCHANGED <<client, queue, listening, in, out>>

\* sendResult: the text and a NUL.
SendResult ==
    /\ w.pc = "answer"
    /\ w' = [Idle EXCEPT !.pc = "close", !.peer = w.peer]
    /\ out' = IF client[w.peer].pc = "gone" THEN out
              ELSE [out EXCEPT ![w.peer] = w.answer \o <<NUL>>]
    /\ UNCHANGED <<client, queue, listening, in>>

\* Mutant: only the connection is closed, and who waits is kept.
keepWaiting == UNCHANGED queue
cutOff == queue' = <<>>

\* close closes the connection and the port with it: who waits for accept is
\* cut off.  A connection closed before everything on it was read is reset,
\* and what the client has not received may be lost.
Close ==
    /\ w.pc = "close"
    /\ \E bytes \in IF in[w.peer] # <<>> THEN torn(out[w.peer]) ELSE {out[w.peer]} :
         out' = [out EXCEPT ![w.peer] = bytes]
    /\ in' = [c \in Client |-> <<>>]
    /\ cutOff
    /\ listening' = FALSE
    /\ w' = Idle
    /\ UNCHANGED client

clientStep(c) == OpenConnection(c) \/ Send(c) \/ Receive(c) \/ Quit(c) \/ NextLine(c)
serviceStep ==
    \/ initBind \/ acceptWithoutCloseBind \/ RecvByte \/ RecvWord \/ RecvFails
    \/ SendResult \/ Close

-----------------------------------------------------------------------------
Bytes == Seq(Nat)

ServiceTypeOK ==
    /\ client \in [Client -> [pc : {"line", "send", "recv", "done", "gone"},
                              command : Command \cup {<<>>}, printed : Bytes]]
    /\ queue \in Seq(Client) /\ IsInjective(queue)
    /\ listening \in BOOLEAN
    /\ in \in [Client -> Bytes] /\ out \in [Client -> Bytes]
    /\ w \in [pc : {"accept", "recv", "dispatch", "lock", "request", "vote", "commit",
                    "answer", "close"},
              peer : Client \cup {NoClient},
              step : {"star", "count", "countLF", "dollar", "length", "lengthLF", "content"},
              words : Seq(Bytes), number : Nat, digits : Bytes, content : Bytes,
              answer : Bytes]
    /\ (w.pc = "accept") <=> (w = Idle)
    /\ ~listening => (w = Idle /\ queue = <<>>)

\* What Working gets of a command is all of it or, when the client does not
\* begin in time, nothing.  A client that goes in the middle leaves the words it
\* has sent, and Working executes those (network.cc:5-128, coordinator.cc:191).
WordsWhole ==
    w.pc \notin {"accept", "recv", "close"} =>
        LET command == client[w.peer].command
            sent    == spelled(command)
        IN  /\ IsPrefix(w.words, sent)
            /\ w.words \in {<<>>, sent} \/ client[w.peer].pc = "gone"

\* What a client prints is the beginning of an answer to its own command
\* (main.cc:25-34, coordinator.cc:193-226).
FitsCommand ==
    \A c \in Client : client[c].pc = "done" =>
        \E r \in {ErrorReply} \cup {eventParser(db, client[c].command).reply : db \in Database} :
            IsPrefix(client[c].printed, replyBytes(r) \o <<NUL>>)
=============================================================================
