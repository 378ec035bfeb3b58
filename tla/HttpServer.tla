------------------------------ MODULE HttpServer ------------------------------
(***************************************************************************)
(* The HTTP server of Lab 2 and its clients.  A client connects, and may   *)
(* send, before main accepts the connection and queues its descriptor; a   *)
(* worker takes one, receives and answers its requests until the client    *)
(* has closed it, and closes the descriptor; the answers go through a      *)
(* second queue to the one output thread, which writes them.  The queues   *)
(* are those of Fifo, which BoundedQueue implements.  The count of         *)
(* requests is left out.                                                   *)
(*                                                                         *)
(* What is on a connection is a sequence of pieces, all of the same size:  *)
(* the head of a request with its first line, the empty line that ends it, *)
(* and the entity of a POST.                                               *)
(***************************************************************************)
EXTENDS Integers, Sequences, FiniteSets

CONSTANTS
    Client,       \* connections, each used once
    Worker,       \* the pool, RunTask of them
    Backlog,      \* connections that listen lets wait for accept
    QueueSize,    \* Size of the two rings
    MaxFd,        \* descriptors the process may have open
    Request,      \* what clients ask for
    Page,         \* the pages that are there
    Name,         \* the entities with a name and an ID
    MaxRequests,  \* bound: requests on one connection
    Patient,      \* does a client wait for an answer before it goes on?
    Segmented,    \* may a request arrive in several pieces?
    None

Get(page)  == [method |-> "GET", what |-> page]
Post(name) == [method |-> "POST", what |-> name]
Put == [method |-> "PUT", what |-> None]

ASSUME RequestAssumption ==
    \A r \in Request : r = Get(r.what) \/ r = Post(r.what) \/ r = Put
ASSUME ClientAssumption == None \notin Client /\ "file" \notin Client
ASSUME BoundAssumption ==
    {Backlog, QueueSize, MaxFd, MaxRequests} \subseteq Nat \ {0} /\ {Patient, Segmented} \subseteq BOOLEAN
\* Otherwise a piece in the middle of the buffer can be taken for a request.
ASSUME SwitchAssumption == Segmented => Patient

Fd == 1 .. MaxFd

ASSUME NoneAssumption == None \notin Fd

VARIABLES
    fd,           \* fd[n]: the client or "file" that descriptor n is, or None
    state,        \* state[c]: "new", "open", or "closed" when c sends no more
    backlog,      \* connections that are not accepted yet
    requests,     \* requests[c]: all that c has sent
    inbox,        \* inbox[c]: pieces on their way to the server
    received,     \* received[c]: the answers c has got
    connections,  \* the queue of descriptors to serve
    responses,    \* the queue of answers to write
    accepted,     \* main: the descriptor to queue, or None
    wpc,          \* wpc[w]: where worker w is
    connfd,       \* connfd[w]: the descriptor it serves
    recv_buf,     \* recv_buf[w]: its buffer, never cleared
    answer,       \* answer[w]: the answer to queue
    TmpOpt,       \* output: the answer to write, or None
    undisturbed   \* history: so far requests were received whole, and there
                  \* was a descriptor for every page

clientVars == <<state, backlog, requests, inbox, received>>
workerVars == <<wpc, connfd, recv_buf, answer>>
queueVars == <<connections, responses>>
vars == <<fd, clientVars, workerVars, queueVars, accepted, TmpOpt, undisturbed>>

Head1(r) == [piece |-> r.method, what |-> IF r.method = "GET" THEN r.what ELSE None]
EmptyLine == [piece |-> "empty", what |-> None]
Entity(r) == [piece |-> "entity", what |-> r.what]
\* A request as it is sent; a POST says how long its entity is.
pieces(r) == IF r.method = "POST" THEN <<Head1(r), EmptyLine, Entity(r)>>
                                  ELSE <<Head1(r), EmptyLine>>

\* An answer: its status, and what it shows; the output thread sends the page
\* after an answer of type 0.
PageAnswer(page) == [type |-> 0, code |-> 200, what |-> page]
NameAnswer(name) == [type |-> 1, code |-> 200, what |-> name]
ErrorAnswer(code) == [type |-> 1, code |-> code, what |-> None]
\* What there is of the answer when the page cannot be opened to be sent.
HeadOnly == [type |-> 0, code |-> 200, what |-> None]

Init ==
    /\ fd = [n \in Fd |-> None]
    /\ state = [c \in Client |-> "new"]
    /\ backlog = {}
    /\ requests = [c \in Client |-> <<>>]
    /\ inbox = [c \in Client |-> <<>>]
    /\ received = [c \in Client |-> <<>>]
    /\ connections = <<>>
    /\ responses = <<>>
    /\ accepted = None
    /\ wpc = [w \in Worker |-> "take"]
    /\ connfd = [w \in Worker |-> 1]
    /\ recv_buf = [w \in Worker |-> <<>>]
    /\ answer = [w \in Worker |-> ErrorAnswer(404)]
    /\ TmpOpt = None
    /\ undisturbed = TRUE

\* The lowest descriptor that is free.
freeFds == {n \in Fd : fd[n] = None}
lowest(n) == n \in freeFds /\ \A k \in freeFds : n <= k

(***************************************************************************)
(* Clients.  A patient one has its answers before it goes on, and the      *)
(* pieces of its last request have arrived.  When only the head of an      *)
(* answer came, it waits for the page for ever.                            *)
(***************************************************************************)
whole(c) == \A i \in 1 .. Len(received[c]) : received[c][i] # HeadOnly
satisfied(c) == Len(received[c]) = Len(requests[c]) /\ whole(c)

\* Clients are called by the order in which they connect.  One whose connection
\* is refused tries again.
Connect(c) ==
    /\ state[c] = "new"
    /\ c = CHOOSE d \in Client : state[d] = "new"
    /\ Cardinality(backlog) < Backlog
    /\ state' = [state EXCEPT ![c] = "open"]
    /\ backlog' = backlog \cup {c}
    /\ UNCHANGED <<fd, requests, inbox, received, workerVars, queueVars, accepted, TmpOpt, undisturbed>>

Send(c) ==
    /\ state[c] = "open"
    /\ Len(requests[c]) < MaxRequests
    /\ Patient => satisfied(c) /\ inbox[c] = <<>>
    /\ \E r \in Request :
         /\ requests' = [requests EXCEPT ![c] = Append(@, r)]
         /\ inbox' = [inbox EXCEPT ![c] = @ \o pieces(r)]
    /\ UNCHANGED <<fd, state, backlog, received, workerVars, queueVars, accepted, TmpOpt, undisturbed>>

\* The client sends no more; one that is not patient may still be waiting.
Finish(c) ==
    /\ state[c] = "open"
    /\ Patient => satisfied(c)
    /\ state' = [state EXCEPT ![c] = "closed"]
    /\ UNCHANGED <<fd, backlog, requests, inbox, received, workerVars, queueVars, accepted, TmpOpt, undisturbed>>

(***************************************************************************)
(* main: accept fails while there is no descriptor, and is tried again;    *)
(* meanwhile the connection stays where it is.                             *)
(***************************************************************************)
Accept(c) ==
    /\ accepted = None
    /\ c \in backlog
    /\ \E n \in Fd : /\ lowest(n)
                     /\ fd' = [fd EXCEPT ![n] = c]
                     /\ accepted' = n
    /\ backlog' = backlog \ {c}
    /\ UNCHANGED <<state, requests, inbox, received, workerVars, queueVars, TmpOpt, undisturbed>>

\* Mutant: off by one.
roomForOneMore(queue) == Len(queue) <= QueueSize
room(queue) == Len(queue) < QueueSize

putTask ==
    /\ accepted # None
    /\ room(connections)
    /\ connections' = Append(connections, accepted)
    /\ accepted' = None
    /\ UNCHANGED <<fd, clientVars, workerVars, responses, TmpOpt, undisturbed>>

(***************************************************************************)
(* A worker                                                                *)
(***************************************************************************)
getTask(w) ==
    /\ wpc[w] = "take"
    /\ connections # <<>>
    /\ connfd' = [connfd EXCEPT ![w] = Head(connections)]
    /\ connections' = Tail(connections)
    /\ wpc' = [wpc EXCEPT ![w] = "recv"]
    /\ UNCHANGED <<fd, clientVars, recv_buf, answer, responses, accepted, TmpOpt, undisturbed>>

\* Mutant: the buffer is appended to.
behind(new, old) == old \o new
\* What is received overwrites the front of the buffer, whatever was there.
overlay(new, old) == new \o SubSeq(old, Len(new) + 1, Len(old))

recv(w) ==
    /\ wpc[w] = "recv"
    /\ LET c == fd[connfd[w]] IN
         /\ inbox[c] # <<>>
         /\ \E n \in 1 .. Len(inbox[c]) :
              /\ Segmented \/ n = Len(inbox[c])
              /\ recv_buf' = [recv_buf EXCEPT
                                ![w] = overlay(SubSeq(inbox[c], 1, n), @)]
              /\ inbox' = [inbox EXCEPT ![c] = SubSeq(@, n + 1, Len(@))]
              /\ undisturbed' = (undisturbed /\ n = Len(inbox[c]))
    /\ wpc' = [wpc EXCEPT ![w] = "deal"]
    /\ UNCHANGED <<fd, state, backlog, requests, received, connfd, answer, queueVars, accepted, TmpOpt>>

\* The request at the front of the buffer.
heads(b) == b[1].piece \in {"GET", "POST", "PUT"}
headEnds(b) == \E i \in DOMAIN b : b[i].piece = "empty"
entityThere(b) == b[1].piece # "POST" \/ Len(b) >= 3

\* Dealer finds no request in the buffer ...
DealNothing(w) ==
    /\ wpc[w] = "deal"
    /\ ~heads(recv_buf[w])
    /\ wpc' = [wpc EXCEPT ![w] = "recv"]
    /\ UNCHANGED <<fd, clientVars, connfd, recv_buf, answer, queueVars, accepted, TmpOpt, undisturbed>>

\* ... or a first line without the rest, and looks again for ever ...
DealIncomplete(w) ==
    /\ wpc[w] = "deal"
    /\ heads(recv_buf[w])
    /\ ~(headEnds(recv_buf[w]) /\ entityThere(recv_buf[w]))
    /\ wpc' = [wpc EXCEPT ![w] = "spin"]
    /\ UNCHANGED <<fd, clientVars, connfd, recv_buf, answer, queueVars, accepted, TmpOpt, undisturbed>>

\* ... or a request, and of what follows it keeps a single character.
dealt(w) ==
    /\ wpc[w] = "deal"
    /\ heads(recv_buf[w])
    /\ headEnds(recv_buf[w])
    /\ entityThere(recv_buf[w])
    /\ wpc' = [wpc EXCEPT ![w] = "answer"]
    /\ UNCHANGED <<clientVars, connfd, recv_buf, queueVars, accepted, TmpOpt>>

answers(w, a) == answer' = [answer EXCEPT ![w] = a]
asksPage(b) == b[1].piece = "GET" /\ b[1].what \in Page
givesName(b) == b[1].piece = "POST" /\ b[3].what \in Name

\* The page is opened to see how long it is, and stays open.
Get_dealer(w) ==
    /\ dealt(w)
    /\ asksPage(recv_buf[w])
    /\ \/ /\ \E n \in Fd : lowest(n) /\ fd' = [fd EXCEPT ![n] = "file"]
          /\ answers(w, PageAnswer(recv_buf[w][1].what))
          /\ UNCHANGED undisturbed
       \/ /\ freeFds = {}
          /\ answers(w, ErrorAnswer(404))
          /\ undisturbed' = FALSE
          /\ UNCHANGED fd

Post_dealer(w) ==
    /\ dealt(w)
    /\ givesName(recv_buf[w])
    /\ answers(w, NameAnswer(recv_buf[w][3].what))
    /\ UNCHANGED <<fd, undisturbed>>

Error_dealer(w) ==
    /\ dealt(w)
    /\ ~asksPage(recv_buf[w]) /\ ~givesName(recv_buf[w])
    /\ answers(w, ErrorAnswer(IF recv_buf[w][1].piece = "PUT" THEN 501 ELSE 404))
    /\ UNCHANGED <<fd, undisturbed>>

putMessage(w) ==
    /\ wpc[w] = "answer"
    /\ room(responses)
    /\ responses' = Append(responses, [sockfd |-> connfd[w], message |-> answer[w]])
    /\ wpc' = [wpc EXCEPT ![w] = "recv"]
    /\ UNCHANGED <<fd, clientVars, connfd, recv_buf, answer, connections, accepted, TmpOpt, undisturbed>>

\* Mutants: the worker does not wait for the next request; it waits for one
\* from a client that has closed.
nothingToRead(c) == inbox[c] = <<>>
neverEnds(c) == inbox[c] = <<>> /\ state[c] = "new"
ended(c) == inbox[c] = <<>> /\ state[c] = "closed"

\* The client has closed: the worker closes its descriptor, even though its
\* answers may still be queued.
closeFd(w) ==
    /\ wpc[w] = "recv"
    /\ ended(fd[connfd[w]])
    /\ fd' = [fd EXCEPT ![connfd[w]] = None]
    /\ wpc' = [wpc EXCEPT ![w] = "take"]
    /\ UNCHANGED <<clientVars, connfd, recv_buf, answer, queueVars, accepted, TmpOpt, undisturbed>>

(***************************************************************************)
(* The output thread                                                       *)
(***************************************************************************)
getTaskOut ==
    /\ TmpOpt = None
    /\ responses # <<>>
    /\ TmpOpt' = Head(responses)
    /\ responses' = Tail(responses)
    /\ UNCHANGED <<fd, clientVars, workerVars, connections, accepted, undisturbed>>

\* The answer is written to whatever its descriptor is now.
writes(message) ==
    LET c == fd[TmpOpt.sockfd] IN
    received' = IF c \in Client THEN [received EXCEPT ![c] = Append(@, message)]
                                ELSE received

\* A page is opened again, and stays open; if it cannot be, nothing follows
\* the head of the answer.
output_page ==
    /\ TmpOpt # None
    /\ TmpOpt.message.type = 0
    /\ \/ /\ \E n \in Fd : lowest(n) /\ fd' = [fd EXCEPT ![n] = "file"]
          /\ writes(TmpOpt.message)
          /\ UNCHANGED undisturbed
       \/ /\ freeFds = {}
          /\ writes(HeadOnly)
          /\ undisturbed' = FALSE
          /\ UNCHANGED fd
    /\ TmpOpt' = None
    /\ UNCHANGED <<state, backlog, requests, inbox, workerVars, queueVars, accepted>>

output_message ==
    /\ TmpOpt # None
    /\ TmpOpt.message.type = 1
    /\ writes(TmpOpt.message)
    /\ TmpOpt' = None
    /\ UNCHANGED <<fd, state, backlog, requests, inbox, workerVars, queueVars, accepted, undisturbed>>

main == (\E c \in Client : Accept(c)) \/ putTask
client_process(w) == \/ getTask(w) \/ recv(w) \/ DealNothing(w) \/ DealIncomplete(w)
                     \/ Get_dealer(w) \/ Post_dealer(w) \/ Error_dealer(w)
                     \/ putMessage(w) \/ closeFd(w)
output_process == getTaskOut \/ output_page \/ output_message

Next == \/ \E c \in Client : Connect(c) \/ Send(c) \/ Finish(c)
        \/ main
        \/ \E w \in Worker : client_process(w)
        \/ output_process

Spec == Init /\ [][Next]_vars

\* The server's threads go on, and clients close their connections in the end.
Fairness ==
    /\ WF_vars(main)
    /\ WF_vars(output_process)
    /\ \A w \in Worker : WF_vars(client_process(w))
    /\ \A c \in Client : WF_vars(Finish(c))

FairSpec == Spec /\ Fairness

-----------------------------------------------------------------------------
Answer == [type : {0, 1}, code : {200, 404, 501}, what : {r.what : r \in Request} \cup {None}]
Piece == {Head1(r) : r \in Request} \cup {Entity(r) : r \in Request} \cup {EmptyLine}

\* Every variable has its type, and no ring holds more than it has slots.
TypeOK ==
    /\ fd \in [Fd -> Client \cup {"file", None}]
    /\ state \in [Client -> {"new", "open", "closed"}]
    /\ backlog \subseteq Client
    /\ requests \in [Client -> Seq(Request)]
    /\ inbox \in [Client -> Seq(Piece)]
    /\ received \in [Client -> Seq(Answer)]
    /\ connections \in Seq(Fd) /\ Len(connections) <= QueueSize
    /\ responses \in Seq([sockfd : Fd, message : Answer]) /\ Len(responses) <= QueueSize
    /\ accepted \in Fd \cup {None}
    /\ wpc \in [Worker -> {"take", "recv", "deal", "answer", "spin"}]
    /\ connfd \in [Worker -> Fd]
    /\ recv_buf \in [Worker -> Seq(Piece)]
    /\ answer \in [Worker -> Answer]
    /\ TmpOpt \in [sockfd : Fd, message : Answer] \cup {None}
    /\ undisturbed \in BOOLEAN

\* The descriptors that threads and queues hold are open connections, and each
\* connection has one place only: it is not served by two workers, and is not
\* closed while an answer to it waits (httpserverMy.cc:287-305, 315-333).
busy(w) == wpc[w] # "take"
DescriptorsLive ==
    /\ accepted # None => fd[accepted] \in Client
    /\ \A i \in DOMAIN connections : fd[connections[i]] \in Client
    /\ \A w \in Worker : busy(w) => fd[connfd[w]] \in Client
    /\ \A i \in DOMAIN responses : fd[responses[i].sockfd] \in Client
    /\ TmpOpt # None => fd[TmpOpt.sockfd] \in Client
    /\ \A v, w \in Worker : busy(v) /\ busy(w) /\ connfd[v] = connfd[w] => v = w
    /\ \A i \in DOMAIN connections :
         /\ connections[i] # accepted
         /\ \A j \in DOMAIN connections : connections[i] = connections[j] => i = j
         /\ \A w \in Worker : busy(w) => connfd[w] # connections[i]

expected(r) ==
    CASE r.method = "GET" /\ r.what \in Page  -> PageAnswer(r.what)
      [] r.method = "POST" /\ r.what \in Name -> NameAnswer(r.what)
      [] r.method = "PUT"                     -> ErrorAnswer(501)
      [] OTHER                                -> ErrorAnswer(404)

\* A client gets the answers to its own requests, in their order: the page it
\* asked for when there is one, the name it sent, or an error (Lab2 report,
\* 1.7).  When requests come in pieces or descriptors run out, this does not
\* hold: an old entity is taken for the one still to come, a page is not found.
AnswersRight ==
    undisturbed =>
        \A c \in Client : \A i \in 1 .. Len(received[c]) :
            i <= Len(requests[c]) /\ received[c][i] = expected(requests[c][i])

\* Every request is answered with all that belongs to the answer, although a
\* worker stays with a connection until its client closes it (line 293), and
\* the others wait in the queue, with main, or in the backlog while accept fails
\* for want of a descriptor (lines 460-465): whoever is served must leave a
\* worker, a slot and a descriptor to those behind, although pages keep theirs.
\* It needs requests that are received whole and a descriptor for every page
\* that is opened (lines 86, 328).
EveryRequestAnswered ==
    []undisturbed => \A c \in Client : ~satisfied(c) ~> satisfied(c)
=============================================================================
