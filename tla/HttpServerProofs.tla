--------------------------- MODULE HttpServerProofs ---------------------------
(***************************************************************************)
(* The HTTP server for any number of clients, workers and descriptors:     *)
(* every connection has one place, and while clients wait for an answer    *)
(* before they go on, every request has one as well.                       *)
(***************************************************************************)
EXTENDS HttpServer, SequenceTheorems, TLAPS

USE ClientAssumption, BoundAssumption, NoneAssumption DEF Fd

-----------------------------------------------------------------------------
(***************************************************************************)
(* Requests and pieces                                                     *)
(***************************************************************************)
isHead(piece) == piece.piece \in {"GET", "POST", "PUT"}

LEMMA RequestPieces ==
  ASSUME NEW r \in Request
  PROVE  /\ r.method \in {"GET", "POST", "PUT"}
         /\ pieces(r) \in Seq(Piece) /\ pieces(r) # <<>>
         /\ DOMAIN pieces(r) = 1 .. Len(pieces(r))
         /\ Len(pieces(r)) = IF r.method = "POST" THEN 3 ELSE 2
         /\ pieces(r)[1] = Head1(r) /\ pieces(r)[2] = EmptyLine
         /\ r.method = "POST" => pieces(r)[3] = Entity(r)
<1> USE DEF Piece, pieces
<1>1. r.method \in {"GET", "POST", "PUT"}
  BY RequestAssumption DEF Get, Post, Put
<1>2. Head1(r) \in Piece /\ EmptyLine \in Piece /\ Entity(r) \in Piece
  OBVIOUS
<1>3. CASE r.method = "POST"
  <2>1. pieces(r) = <<Head1(r), EmptyLine, Entity(r)>>
    BY <1>3
  <2> HIDE DEF Piece, pieces
  <2> QED BY <1>1, <1>2, <1>3, <2>1
<1>4. CASE r.method # "POST"
  <2>1. pieces(r) = <<Head1(r), EmptyLine>>
    BY <1>4
  <2> HIDE DEF Piece, pieces
  <2> QED BY <1>1, <1>2, <1>4, <2>1
<1> QED BY <1>3, <1>4

\* Only the first piece of a request is a head.
LEMMA Heads ==
  ASSUME NEW r \in Request
  PROVE  /\ Head1(r).piece = r.method /\ isHead(Head1(r))
         /\ \A i \in 2 .. Len(pieces(r)) : ~isHead(pieces(r)[i])
<1>1. Head1(r).piece = r.method /\ EmptyLine.piece = "empty" /\ Entity(r).piece = "entity"
  BY DEF Head1, EmptyLine, Entity
<1>2. \A i \in 2 .. Len(pieces(r)) : i = 2 \/ (i = 3 /\ r.method = "POST")
  <2>1. Len(pieces(r)) = IF r.method = "POST" THEN 3 ELSE 2
    BY RequestPieces
  <2> HIDE DEF Fd
  <2> QED BY <2>1
<1> QED BY <1>1, <1>2, RequestPieces DEF isHead

LEMMA AnswerType ==
  /\ \A b \in Piece : PageAnswer(b.what) \in Answer /\ NameAnswer(b.what) \in Answer
  /\ \A code \in {404, 501} : ErrorAnswer(code) \in Answer
  /\ HeadOnly \in Answer
<1>1. \A b \in Piece : b.what \in {r.what : r \in Request} \cup {None}
  BY DEF Piece, Head1, EmptyLine, Entity
<1> QED BY <1>1 DEF Answer, PageAnswer, NameAnswer, ErrorAnswer, HeadOnly

\* What is in the buffer is new in front and old behind.
LEMMA Overlay ==
  ASSUME NEW S, NEW new \in Seq(S), NEW old \in Seq(S)
  PROVE  /\ overlay(new, old) \in Seq(S)
         /\ Len(overlay(new, old)) >= Len(new)
         /\ \A i \in 1 .. Len(new) : overlay(new, old)[i] = new[i]
<1> DEFINE rest == SubSeq(old, Len(new) + 1, Len(old))
<1>1. Len(new) \in Nat /\ Len(old) \in Nat
  BY LenProperties
<1>2. \A i \in Len(new) + 1 .. Len(old) : old[i] \in S
  BY <1>1, ElementOfSeq
<1>3. rest \in Seq(S) /\ Len(rest) \in Nat
  <2>1. rest \in Seq(S)
    BY <1>1, <1>2, SubSeqProperties
  <2> QED BY <2>1, LenProperties
<1> HIDE DEF rest
<1>4. overlay(new, old) = new \o rest
  BY DEF overlay, rest
<1>5. /\ new \o rest \in Seq(S) /\ Len(new \o rest) = Len(new) + Len(rest)
      /\ \A i \in 1 .. Len(new) + Len(rest) :
           (new \o rest)[i] = IF i <= Len(new) THEN new[i] ELSE rest[i - Len(new)]
  BY <1>3, ConcatProperties
<1> QED BY <1>1, <1>3, <1>4, <1>5

-----------------------------------------------------------------------------
(***************************************************************************)
(* Who holds a descriptor: main, the queue, or one worker, and each of     *)
(* them holds that of a client.                                            *)
(***************************************************************************)
Holders ==
    /\ accepted # None => fd[accepted] \in Client
    /\ \A i \in DOMAIN connections : fd[connections[i]] \in Client
    /\ \A w \in Worker : busy(w) => fd[connfd[w]] \in Client /\ connfd[w] # accepted
    /\ \A v, w \in Worker : busy(v) /\ busy(w) /\ connfd[v] = connfd[w] => v = w
    /\ \A i \in DOMAIN connections :
         /\ connections[i] # accepted
         /\ \A j \in DOMAIN connections : connections[i] = connections[j] => i = j
         /\ \A w \in Worker : busy(w) => connfd[w] # connections[i]

\* A client has one descriptor, and none before it is accepted.
waits(c) == state[c] = "new" \/ c \in backlog
OneDescriptor ==
    /\ \A m, n \in Fd : fd[m] \in Client /\ fd[m] = fd[n] => m = n
    /\ \A n \in Fd : fd[n] \in Client => ~waits(fd[n])
    /\ \A c \in backlog : state[c] # "new"

\* A worker deals with something.
Dealing == \A w \in Worker : wpc[w] = "deal" => recv_buf[w] # <<>>

ServerInv == TypeOK /\ Holders /\ OneDescriptor /\ Dealing

\* A step that leaves the descriptors and those who hold them alone.
LEMMA SameHolders ==
  ASSUME ServerInv, UNCHANGED <<fd, connections, accepted, connfd>>,
         \A w \in Worker : busy(w)' => busy(w),
         \/ UNCHANGED <<state, backlog>>
         \/ /\ \A c \in Client : waits(c)' => waits(c)
            /\ \A c \in backlog' : state'[c] # "new"
  PROVE  Holders' /\ OneDescriptor'
<1>1. Holders'
  BY DEF ServerInv, Holders
<1>2. /\ \A c \in Client : waits(c)' => waits(c)
      /\ \A c \in backlog' : state'[c] # "new"
  BY DEF ServerInv, OneDescriptor, waits
<1>3. OneDescriptor'
  BY <1>2 DEF ServerInv, OneDescriptor
<1> QED BY <1>1, <1>3

\* So is a step that opens a page.
LEMMA PageHolders ==
  ASSUME ServerInv, UNCHANGED <<connections, accepted, connfd, state, backlog>>,
         \A w \in Worker : busy(w)' => busy(w),
         \/ fd' = fd
         \/ \E n \in Fd : lowest(n) /\ fd' = [fd EXCEPT ![n] = "file"]
  PROVE  Holders' /\ OneDescriptor'
<1>1. CASE fd' = fd
  BY <1>1, SameHolders
<1>2. ASSUME NEW n \in Fd, lowest(n), fd' = [fd EXCEPT ![n] = "file"]
      PROVE  Holders' /\ OneDescriptor'
  <2>1. fd[n] = None /\ fd \in [Fd -> Client \cup {"file", None}]
    BY <1>2 DEF lowest, freeFds, ServerInv, TypeOK
  <2>2. \A k \in Fd : fd[k] \in Client \/ fd'[k] \in Client => fd'[k] = fd[k]
    BY <1>2, <2>1
  <2>3. /\ accepted \in Fd \cup {None} /\ connfd \in [Worker -> Fd]
        /\ \A i \in DOMAIN connections : connections[i] \in Fd
    <3>1. connections \in Seq(Fd) /\ accepted \in Fd \cup {None} /\ connfd \in [Worker -> Fd]
      BY DEF ServerInv, TypeOK
    <3> QED BY <3>1, ElementOfSeq, LenProperties
  <2>4. Holders'
    BY <2>2, <2>3 DEF ServerInv, Holders
  <2>5. \A j, k \in Fd : fd'[j] \in Client /\ fd'[j] = fd'[k] => j = k
    BY <2>2 DEF ServerInv, OneDescriptor
  <2>6. OneDescriptor'
    BY <2>2, <2>5 DEF ServerInv, OneDescriptor, waits
  <2> QED BY <2>4, <2>6
<1> QED BY <1>1, <1>2

-----------------------------------------------------------------------------
(***************************************************************************)
(* Clients and main                                                        *)
(***************************************************************************)
LEMMA InitServer == Init => ServerInv
<1> SUFFICES ASSUME Init PROVE ServerInv
  OBVIOUS
<1>1. TypeOK
  <2>1. ErrorAnswer(404) \in Answer
    BY AnswerType
  <2> QED BY <2>1 DEF Init, TypeOK
<1> QED BY <1>1 DEF Init, ServerInv, Holders, OneDescriptor, Dealing, busy, waits

LEMMA ConnectServer ==
  ASSUME ServerInv, NEW c \in Client, Connect(c)
  PROVE  ServerInv'
<1> USE DEF workerVars, queueVars
<1>1. TypeOK' /\ Dealing'
  BY DEF Connect, ServerInv, TypeOK, Dealing
<1>2. /\ \A k \in Client : waits(k)' => waits(k)
      /\ \A k \in backlog' : state'[k] # "new"
  BY DEF Connect, ServerInv, TypeOK, OneDescriptor, waits
<1> QED BY <1>1, <1>2, SameHolders DEF Connect, ServerInv, busy

LEMMA SendServer ==
  ASSUME ServerInv, NEW c \in Client, Send(c)
  PROVE  ServerInv'
<1> USE DEF workerVars, queueVars
<1>1. PICK r \in Request : /\ requests' = [requests EXCEPT ![c] = Append(@, r)]
                           /\ inbox' = [inbox EXCEPT ![c] = @ \o pieces(r)]
  BY DEF Send
<1>2. Append(requests[c], r) \in Seq(Request) /\ inbox[c] \o pieces(r) \in Seq(Piece)
  BY AppendProperties, ConcatProperties, RequestPieces DEF ServerInv, TypeOK
<1>3. TypeOK'
  BY <1>1, <1>2 DEF Send, ServerInv, TypeOK
<1>4. Dealing'
  BY DEF Send, ServerInv, Dealing
<1> QED BY <1>3, <1>4, SameHolders DEF Send, ServerInv, busy

LEMMA FinishServer ==
  ASSUME ServerInv, NEW c \in Client, Finish(c)
  PROVE  ServerInv'
<1> USE DEF workerVars, queueVars
<1>1. TypeOK' /\ Dealing'
  BY DEF Finish, ServerInv, TypeOK, Dealing
<1>2. /\ \A k \in Client : waits(k)' => waits(k)
      /\ \A k \in backlog' : state'[k] # "new"
  BY DEF Finish, ServerInv, TypeOK, OneDescriptor, waits
<1> QED BY <1>1, <1>2, SameHolders DEF Finish, ServerInv, busy

\* A descriptor that is given out was nobody's.
LEMMA AcceptServer ==
  ASSUME ServerInv, NEW c \in Client, Accept(c)
  PROVE  ServerInv'
<1> USE DEF workerVars, queueVars
<1>0. c \in backlog /\ backlog' = backlog \ {c} /\ UNCHANGED state
  BY DEF Accept
<1>1. PICK n \in Fd : lowest(n) /\ fd' = [fd EXCEPT ![n] = c] /\ accepted' = n
  BY DEF Accept
<1>2. TypeOK' /\ Dealing'
  BY <1>1 DEF Accept, ServerInv, TypeOK, Dealing
<1>3. /\ fd[n] = None /\ fd \in [Fd -> Client \cup {"file", None}]
      /\ connfd \in [Worker -> Fd] /\ \A i \in DOMAIN connections : connections[i] \in Fd
  BY <1>1 DEF lowest, freeFds, ServerInv, TypeOK
<1>4. fd'[n] = c /\ \A k \in Fd : k # n => fd'[k] = fd[k]
  BY <1>1, <1>3
<1>5. /\ \A i \in DOMAIN connections : connections[i] # n
      /\ \A w \in Worker : busy(w) => connfd[w] # n
  BY <1>3 DEF ServerInv, Holders
<1>6. Holders'
  BY <1>1, <1>3, <1>4, <1>5 DEF Accept, ServerInv, Holders, busy
<1>7. OneDescriptor'
  <2>1. \A k \in Fd : fd[k] # c
    BY <1>0 DEF ServerInv, OneDescriptor, waits
  <2>2. /\ ~waits(c)' /\ \A d \in Client : waits(d)' => waits(d)
        /\ \A d \in backlog' : state'[d] # "new"
    BY <1>0 DEF ServerInv, OneDescriptor, waits
  <2> QED BY <1>3, <1>4, <2>1, <2>2 DEF ServerInv, OneDescriptor
<1> QED BY <1>2, <1>6, <1>7 DEF ServerInv

LEMMA PutTaskServer ==
  ASSUME ServerInv, putTask
  PROVE  ServerInv'
<1> USE DEF clientVars, workerVars
<1>1. /\ accepted \in Fd /\ connections \in Seq(Fd) /\ accepted' = None
      /\ connections' = Append(connections, accepted)
      /\ UNCHANGED <<fd, wpc, connfd, state, backlog>>
  BY DEF putTask, ServerInv, TypeOK
<1>2. /\ connections' \in Seq(Fd) /\ Len(connections') = Len(connections) + 1
      /\ DOMAIN connections' = 1 .. Len(connections) + 1
      /\ DOMAIN connections = 1 .. Len(connections)
      /\ \A i \in DOMAIN connections : connections'[i] = connections[i]
      /\ connections'[Len(connections) + 1] = accepted
  BY <1>1, AppendProperties, LenProperties
<1>3. TypeOK' /\ Dealing'
  <2>1. Len(connections') <= QueueSize
    BY <1>1, <1>2, LenProperties DEF putTask, room
  <2>2. TypeOK'
    BY <1>1, <1>2, <2>1 DEF putTask, ServerInv, TypeOK
  <2>3. Dealing'
    BY DEF putTask, ServerInv, Dealing
  <2> QED BY <2>2, <2>3
<1>4. Len(connections) \in Nat
  BY <1>1, LenProperties
<1>5. \A i \in DOMAIN connections' :
        \/ i \in DOMAIN connections /\ connections'[i] = connections[i]
        \/ i = Len(connections) + 1 /\ connections'[i] = accepted
  BY <1>2, <1>4
<1>6. Holders'
  <2> USE DEF busy
  <2>1. /\ \A i \in DOMAIN connections' : connections'[i] \in Fd
        /\ connfd \in [Worker -> Fd] /\ accepted # None /\ None \notin Fd
    BY <1>1, <1>2, ElementOfSeq, NoneAssumption DEF ServerInv, TypeOK
  <2> HIDE DEF Fd
  <2>2. \A i \in DOMAIN connections' : fd'[connections'[i]] \in Client
    BY <1>1, <1>5, <2>1 DEF ServerInv, Holders
  <2>3. \A w \in Worker : busy(w)' => fd'[connfd'[w]] \in Client /\ connfd'[w] # accepted'
    BY <1>1, <2>1 DEF ServerInv, Holders
  <2>4. \A i, j \in DOMAIN connections' : connections'[i] = connections'[j] => i = j
    BY <1>5 DEF ServerInv, Holders
  <2>5. \A i \in DOMAIN connections' : \A w \in Worker : busy(w)' => connfd'[w] # connections'[i]
    BY <1>1, <1>5 DEF ServerInv, Holders
  <2>6. \A v, w \in Worker : busy(v)' /\ busy(w)' /\ connfd'[v] = connfd'[w] => v = w
    BY <1>1 DEF ServerInv, Holders
  <2>7. \A i \in DOMAIN connections' : connections'[i] # accepted'
    BY <1>1, <2>1
  <2> QED BY <1>1, <2>2, <2>3, <2>4, <2>5, <2>6, <2>7 DEF Holders
<1>7. OneDescriptor'
  BY <1>1 DEF ServerInv, OneDescriptor, waits
<1> QED BY <1>3, <1>6, <1>7 DEF ServerInv

-----------------------------------------------------------------------------
(***************************************************************************)
(* A worker                                                                *)
(***************************************************************************)
LEMMA GetTaskServer ==
  ASSUME ServerInv, NEW w \in Worker, getTask(w)
  PROVE  ServerInv'
<1> USE DEF clientVars
<1>1. /\ connections \in Seq(Fd) /\ connections # <<>> /\ connections' = Tail(connections)
      /\ connfd' = [connfd EXCEPT ![w] = Head(connections)]
      /\ wpc' = [wpc EXCEPT ![w] = "recv"] /\ wpc[w] = "take"
      /\ UNCHANGED <<fd, accepted, state, backlog, recv_buf>>
      /\ connfd \in [Worker -> Fd] /\ wpc \in [Worker -> {"take", "recv", "deal", "answer", "spin"}]
  BY DEF getTask, ServerInv, TypeOK
<1>2. /\ Len(connections) \in Nat \ {0} /\ DOMAIN connections = 1 .. Len(connections)
      /\ Head(connections) = connections[1] /\ Head(connections) \in Fd
      /\ connections' \in Seq(Fd) /\ Len(connections') = Len(connections) - 1
      /\ DOMAIN connections' = 1 .. Len(connections) - 1
      /\ \A i \in 1 .. Len(connections) - 1 : connections'[i] = connections[i + 1]
  <2> HIDE DEF Fd
  <2> QED BY <1>1, HeadTailProperties, LenProperties, EmptySeq, ElementOfSeq
<1>3. TypeOK' /\ Dealing'
  <2>1. Len(connections') <= QueueSize
    BY <1>1, <1>2 DEF ServerInv, TypeOK
  <2>2. connfd' \in [Worker -> Fd] /\ wpc' \in [Worker -> {"take", "recv", "deal", "answer", "spin"}]
    BY <1>1, <1>2
  <2>3. TypeOK'
    BY <1>1, <1>2, <2>1, <2>2 DEF getTask, ServerInv, TypeOK
  <2>4. Dealing'
    BY <1>1 DEF ServerInv, Dealing
  <2> QED BY <2>3, <2>4
<1>4. connfd'[w] = connections[1] /\ \A v \in Worker : v # w => connfd'[v] = connfd[v]
  BY <1>1, <1>2
<1>5. \A v \in Worker : busy(v)' => v = w \/ busy(v)
  BY <1>1 DEF busy
<1>6. /\ 1 \in DOMAIN connections
      /\ \A i \in DOMAIN connections' :
           i + 1 \in DOMAIN connections /\ i + 1 # 1 /\ connections'[i] = connections[i + 1]
  <2> HIDE DEF Fd
  <2> QED BY <1>2
<1>7. Holders'
  <2> HIDE DEF Fd, busy
  <2>1. /\ accepted' # None => fd'[accepted'] \in Client
        /\ \A i \in DOMAIN connections' : fd'[connections'[i]] \in Client
    BY <1>1, <1>6 DEF ServerInv, Holders
  <2>2. \A v \in Worker : busy(v)' => fd'[connfd'[v]] \in Client /\ connfd'[v] # accepted'
    BY <1>1, <1>4, <1>5, <1>6 DEF ServerInv, Holders
  <2>3. \A u, v \in Worker : busy(u)' /\ busy(v)' /\ connfd'[u] = connfd'[v] => u = v
    BY <1>4, <1>5, <1>6 DEF ServerInv, Holders
  <2>4. \A i \in DOMAIN connections' : connections'[i] # accepted'
    BY <1>1, <1>6 DEF ServerInv, Holders
  <2>5. ASSUME NEW i \in DOMAIN connections', NEW j \in DOMAIN connections',
               connections'[i] = connections'[j]
        PROVE  i = j
    <3>1. i + 1 = j + 1
      BY <1>6, <2>5 DEF ServerInv, Holders
    <3>2. i \in Nat /\ j \in Nat
      BY <1>2
    <3> QED BY <3>1, <3>2
  <2>6. \A i \in DOMAIN connections' : \A v \in Worker : busy(v)' => connfd'[v] # connections'[i]
    BY <1>4, <1>5, <1>6 DEF ServerInv, Holders
  <2> QED BY <2>1, <2>2, <2>3, <2>4, <2>5, <2>6 DEF Holders
<1>8. OneDescriptor'
  BY <1>1 DEF ServerInv, OneDescriptor, waits
<1> QED BY <1>3, <1>7, <1>8 DEF ServerInv

LEMMA RecvServer ==
  ASSUME ServerInv, NEW w \in Worker, recv(w)
  PROVE  ServerInv'
<1> USE DEF queueVars
<1> DEFINE c == fd[connfd[w]]
<1>1. c \in Client /\ wpc[w] = "recv" /\ inbox[c] \in Seq(Piece)
  BY DEF recv, ServerInv, TypeOK, Holders, busy
<1>2. PICK n \in 1 .. Len(inbox[c]) :
        /\ recv_buf' = [recv_buf EXCEPT ![w] = overlay(SubSeq(inbox[c], 1, n), @)]
        /\ inbox' = [inbox EXCEPT ![c] = SubSeq(@, n + 1, Len(@))]
        /\ undisturbed' = (undisturbed /\ n = Len(inbox[c]))
  BY DEF recv
<1> DEFINE chunk == SubSeq(inbox[c], 1, n)
           left == SubSeq(inbox[c], n + 1, Len(inbox[c]))
<1>3. Len(inbox[c]) \in Nat /\ \A i \in 1 .. Len(inbox[c]) : inbox[c][i] \in Piece
  BY <1>1, LenProperties, ElementOfSeq
<1>4. chunk \in Seq(Piece) /\ Len(chunk) = n /\ left \in Seq(Piece)
  <2>1. chunk \in Seq(Piece) /\ Len(chunk) = n
    BY <1>3, SubSeqProperties
  <2>2. left \in Seq(Piece)
    BY <1>3, SubSeqProperties
  <2> QED BY <2>1, <2>2
<1>5. recv_buf[w] \in Seq(Piece)
  BY DEF ServerInv, TypeOK
<1> HIDE DEF chunk, left
<1>6. overlay(chunk, recv_buf[w]) \in Seq(Piece) /\ overlay(chunk, recv_buf[w]) # <<>>
  <2>1. /\ overlay(chunk, recv_buf[w]) \in Seq(Piece)
        /\ Len(overlay(chunk, recv_buf[w])) >= Len(chunk)
    BY <1>4, <1>5, Overlay
  <2>2. Len(overlay(chunk, recv_buf[w])) # 0
    BY <1>3, <1>4, <2>1
  <2> QED BY <2>1, <2>2, EmptySeq
<1>7. /\ recv_buf' = [recv_buf EXCEPT ![w] = overlay(chunk, recv_buf[w])]
      /\ inbox' = [inbox EXCEPT ![c] = left]
  BY <1>2 DEF chunk, left
<1> HIDE DEF c
<1>8. TypeOK' /\ Dealing'
  <2>1. inbox' \in [Client -> Seq(Piece)] /\ recv_buf' \in [Worker -> Seq(Piece)]
    BY <1>1, <1>4, <1>6, <1>7 DEF ServerInv, TypeOK
  <2>2. wpc' \in [Worker -> {"take", "recv", "deal", "answer", "spin"}] /\ undisturbed' \in BOOLEAN
    BY <1>2 DEF recv, ServerInv, TypeOK
  <2>3. TypeOK'
    BY <2>1, <2>2 DEF recv, ServerInv, TypeOK
  <2>4. \A v \in Worker : v # w => wpc'[v] = wpc[v] /\ recv_buf'[v] = recv_buf[v]
    BY <1>7 DEF recv, ServerInv, TypeOK
  <2>5. recv_buf'[w] # <<>>
    BY <1>6, <1>7 DEF ServerInv, TypeOK
  <2>6. Dealing'
    BY <2>4, <2>5 DEF ServerInv, Dealing
  <2> QED BY <2>3, <2>6
<1>9. \A v \in Worker : busy(v)' => busy(v)
  BY <1>1 DEF recv, ServerInv, TypeOK, busy
<1> QED BY <1>8, <1>9, SameHolders DEF recv, ServerInv

\* Dealer leaves the buffer as it is, and the worker goes on.
LEMMA DealServer ==
  ASSUME ServerInv, NEW w \in Worker, wpc[w] \in {"deal", "answer"},
         NEW pc \in {"recv", "answer", "spin"}, wpc' = [wpc EXCEPT ![w] = pc],
         UNCHANGED recv_buf
  PROVE  /\ wpc' \in [Worker -> {"take", "recv", "deal", "answer", "spin"}]
         /\ Dealing' /\ \A v \in Worker : busy(v)' => busy(v)
BY DEF ServerInv, TypeOK, Dealing, busy

LEMMA DealNothingServer ==
  ASSUME ServerInv, NEW w \in Worker, DealNothing(w) \/ DealIncomplete(w)
  PROVE  ServerInv'
<1> USE DEF clientVars, queueVars, DealNothing, DealIncomplete
<1>1. /\ wpc' \in [Worker -> {"take", "recv", "deal", "answer", "spin"}]
      /\ Dealing' /\ \A v \in Worker : busy(v)' => busy(v)
  BY DealServer
<1>2. TypeOK'
  BY <1>1 DEF ServerInv, TypeOK
<1> QED BY <1>1, <1>2, SameHolders DEF ServerInv

\* An answer, and perhaps a page opened for it.
LEMMA AnswerServer ==
  ASSUME ServerInv, NEW w \in Worker, dealt(w), NEW a \in Answer, answers(w, a),
         undisturbed' \in BOOLEAN,
         \/ fd' = fd
         \/ \E n \in Fd : lowest(n) /\ fd' = [fd EXCEPT ![n] = "file"]
  PROVE  ServerInv'
<1> USE DEF clientVars, queueVars, dealt, answers
<1>1. /\ wpc' \in [Worker -> {"take", "recv", "deal", "answer", "spin"}]
      /\ Dealing' /\ \A v \in Worker : busy(v)' => busy(v)
  BY DealServer
<1>2. fd' \in [Fd -> Client \cup {"file", None}] /\ answer' \in [Worker -> Answer]
  BY DEF ServerInv, TypeOK
<1>3. TypeOK'
  BY <1>1, <1>2 DEF ServerInv, TypeOK
<1> QED BY <1>1, <1>3, PageHolders DEF ServerInv

\* What a worker that deals finds in its buffer.
LEMMA InBuffer ==
  ASSUME ServerInv, NEW w \in Worker, wpc[w] = "deal"
  PROVE  /\ recv_buf[w] \in Seq(Piece) /\ recv_buf[w][1] \in Piece
         /\ Len(recv_buf[w]) >= 3 => recv_buf[w][3] \in Piece
<1>1. recv_buf[w] \in Seq(Piece) /\ recv_buf[w] # <<>>
  BY DEF ServerInv, TypeOK, Dealing
<1>2. Len(recv_buf[w]) \in Nat \ {0}
  BY <1>1, LenProperties, EmptySeq
<1> QED BY <1>1, <1>2, ElementOfSeq

LEMMA DealersServer ==
  ASSUME ServerInv, NEW w \in Worker, Get_dealer(w) \/ Post_dealer(w) \/ Error_dealer(w)
  PROVE  ServerInv'
<1>1. dealt(w) /\ wpc[w] = "deal" /\ undisturbed' \in BOOLEAN
  BY DEF Get_dealer, Post_dealer, Error_dealer, dealt, ServerInv, TypeOK
<1>2. recv_buf[w][1] \in Piece
  BY <1>1, InBuffer
<1>3. \/ fd' = fd
      \/ \E n \in Fd : lowest(n) /\ fd' = [fd EXCEPT ![n] = "file"]
  BY DEF Get_dealer, Post_dealer, Error_dealer
<1>4. \E a \in Answer : answers(w, a)
  <2>1. CASE Get_dealer(w)
    BY <1>2, <2>1, AnswerType DEF Get_dealer
  <2>2. CASE Post_dealer(w)
    <3>1. recv_buf[w][3] \in Piece
      BY <1>1, <2>2, InBuffer DEF Post_dealer, givesName, dealt, entityThere
    <3> QED BY <2>2, <3>1, AnswerType DEF Post_dealer
  <2>3. CASE Error_dealer(w)
    BY <2>3, AnswerType DEF Error_dealer
  <2> QED BY <2>1, <2>2, <2>3
<1> QED BY <1>1, <1>3, <1>4, AnswerServer

LEMMA PutMessageServer ==
  ASSUME ServerInv, NEW w \in Worker, putMessage(w)
  PROVE  ServerInv'
<1> USE DEF clientVars
<1> DEFINE m == [sockfd |-> connfd[w], message |-> answer[w]]
<1>1. /\ wpc' \in [Worker -> {"take", "recv", "deal", "answer", "spin"}]
      /\ Dealing' /\ \A v \in Worker : busy(v)' => busy(v)
  BY DealServer DEF putMessage
<1>2. m \in [sockfd : Fd, message : Answer]
  BY DEF ServerInv, TypeOK
<1> HIDE DEF m
<1>3. /\ Append(responses, m) \in Seq([sockfd : Fd, message : Answer])
      /\ Len(Append(responses, m)) = Len(responses) + 1 /\ Len(responses) \in Nat
  BY <1>2, AppendProperties, LenProperties DEF ServerInv, TypeOK
<1>4. responses' = Append(responses, m)
  BY DEF putMessage, m
<1>5. TypeOK'
  BY <1>1, <1>3, <1>4 DEF putMessage, room, ServerInv, TypeOK
<1> QED BY <1>1, <1>5, SameHolders DEF putMessage, ServerInv

LEMMA CloseServer ==
  ASSUME ServerInv, NEW w \in Worker, closeFd(w)
  PROVE  ServerInv'
<1> USE DEF clientVars, queueVars
<1>1. /\ fd' = [fd EXCEPT ![connfd[w]] = None] /\ wpc' = [wpc EXCEPT ![w] = "take"]
      /\ UNCHANGED <<connfd, connections, accepted, state, backlog, recv_buf>> /\ wpc[w] = "recv"
      /\ fd \in [Fd -> Client \cup {"file", None}] /\ connfd \in [Worker -> Fd]
      /\ wpc \in [Worker -> {"take", "recv", "deal", "answer", "spin"}]
  BY DEF closeFd, ServerInv, TypeOK
<1>2. TypeOK' /\ Dealing'
  BY <1>1 DEF closeFd, ServerInv, TypeOK, Dealing
<1>3. \A n \in Fd : n # connfd[w] => fd'[n] = fd[n]
  BY <1>1
<1>4. \A v \in Worker : busy(v)' => busy(v) /\ v # w
  BY <1>1 DEF busy
<1>5. /\ busy(w) /\ accepted \in Fd \cup {None}
      /\ \A i \in DOMAIN connections : connections[i] \in Fd
  BY <1>1, ElementOfSeq, LenProperties DEF busy, ServerInv, TypeOK
<1>6. Holders'
  <2> HIDE DEF Fd
  <2>1. accepted # None => fd'[accepted] = fd[accepted]
    BY <1>3, <1>5 DEF ServerInv, Holders
  <2>2. \A i \in DOMAIN connections : fd'[connections[i]] = fd[connections[i]]
    BY <1>1, <1>3, <1>5 DEF ServerInv, Holders
  <2>3. \A v \in Worker : busy(v)' => fd'[connfd[v]] = fd[connfd[v]]
    BY <1>1, <1>3, <1>4, <1>5 DEF ServerInv, Holders
  <2> QED BY <1>1, <1>4, <2>1, <2>2, <2>3 DEF ServerInv, Holders
<1>7. OneDescriptor'
  <2>1. \A n \in Fd : fd'[n] \in Client => fd'[n] = fd[n]
    BY <1>1
  <2> QED BY <1>1, <2>1 DEF ServerInv, OneDescriptor, waits
<1> QED BY <1>2, <1>6, <1>7 DEF ServerInv

-----------------------------------------------------------------------------
(***************************************************************************)
(* The output thread, and the theorem on types                             *)
(***************************************************************************)
LEMMA GetTaskOutServer ==
  ASSUME ServerInv, getTaskOut
  PROVE  ServerInv'
<1> USE DEF clientVars, workerVars
<1> DEFINE M == [sockfd : Fd, message : Answer]
<1>1. responses \in Seq(M) /\ responses # <<>>
  BY DEF getTaskOut, ServerInv, TypeOK
<1>2. /\ Head(responses) \in M /\ Tail(responses) \in Seq(M)
      /\ Len(Tail(responses)) = Len(responses) - 1 /\ Len(responses) \in Nat
  <2> HIDE DEF M
  <2>1. Len(responses) \in Nat \ {0}
    BY <1>1, LenProperties, EmptySeq
  <2> QED BY <1>1, <2>1, HeadTailProperties, ElementOfSeq
<1>3. TypeOK'
  <2>1. /\ responses' = Tail(responses) /\ TmpOpt' = Head(responses)
        /\ Len(responses) <= QueueSize
    BY DEF getTaskOut, ServerInv, TypeOK
  <2>2. TmpOpt' \in M \cup {None} /\ responses' \in Seq(M) /\ Len(responses') <= QueueSize
    <3> HIDE DEF M
    <3> QED BY <1>2, <2>1
  <2>3. UNCHANGED <<fd, clientVars, workerVars, connections, accepted, undisturbed>>
    BY DEF getTaskOut
  <2> QED BY <2>2, <2>3 DEF ServerInv, TypeOK
<1>4. Dealing'
  BY DEF getTaskOut, ServerInv, Dealing
<1> QED BY <1>3, <1>4, SameHolders DEF getTaskOut, ServerInv, busy

\* What is written goes to a client, or to nobody.
LEMMA WritesType ==
  ASSUME ServerInv, NEW a \in Answer, writes(a)
  PROVE  received' \in [Client -> Seq(Answer)]
<1>1. \A c \in Client : Append(received[c], a) \in Seq(Answer)
  BY AppendProperties DEF ServerInv, TypeOK
<1> QED BY <1>1 DEF writes, ServerInv, TypeOK

LEMMA OutputServer ==
  ASSUME ServerInv, output_page \/ output_message
  PROVE  ServerInv'
<1> USE DEF workerVars, queueVars
<1>1. /\ TmpOpt' = None /\ undisturbed' \in BOOLEAN
      /\ UNCHANGED <<state, backlog, requests, inbox, wpc, connfd, recv_buf, answer,
                     connections, responses, accepted>>
  BY DEF output_page, output_message, ServerInv, TypeOK
<1>2. \/ fd' = fd
      \/ \E n \in Fd : lowest(n) /\ fd' = [fd EXCEPT ![n] = "file"]
  BY DEF output_page, output_message
<1>3. \E a \in Answer : writes(a)
  BY AnswerType DEF output_page, output_message, ServerInv, TypeOK
<1>4. received' \in [Client -> Seq(Answer)]
  BY <1>3, WritesType
<1>5. fd' \in [Fd -> Client \cup {"file", None}]
  BY <1>2 DEF ServerInv, TypeOK
<1>6. TypeOK' /\ Dealing'
  BY <1>1, <1>4, <1>5 DEF ServerInv, TypeOK, Dealing
<1> QED BY <1>1, <1>2, <1>6, PageHolders DEF ServerInv, busy

LEMMA StepServer == ServerInv /\ [Next]_vars => ServerInv'
<1> SUFFICES ASSUME ServerInv, [Next]_vars PROVE ServerInv'
  OBVIOUS
<1>1. CASE UNCHANGED vars
  BY <1>1 DEF vars, clientVars, workerVars, queueVars, ServerInv, TypeOK, Holders,
              OneDescriptor, Dealing, busy, waits
<1>2. CASE Next
  BY <1>2, ConnectServer, SendServer, FinishServer, AcceptServer, PutTaskServer, GetTaskServer,
     RecvServer, DealNothingServer, DealersServer, PutMessageServer, CloseServer,
     GetTaskOutServer, OutputServer
     DEF Next, main, client_process, output_process
<1> QED BY <1>1, <1>2

LEMMA ServerAlways == Spec => []ServerInv
BY InitServer, StepServer, PTL DEF Spec

\* Every variable of the server has its type, and neither ring holds more than
\* it has slots, for any number of clients, workers and descriptors.
THEOREM HttpTyped == Spec => []TypeOK
<1>1. ServerInv => TypeOK
  BY DEF ServerInv
<1> QED BY <1>1, ServerAlways, PTL

-----------------------------------------------------------------------------
(***************************************************************************)
(* The places of a request.  The request of a patient client that has no   *)
(* answer yet is in the pieces on their way, with one worker, or answered: *)
(* the answer is in the queue or with the output thread.                   *)
(***************************************************************************)
HIDE DEF Fd

asked(c) == inbox[c] # <<>> /\ isHead(inbox[c][1])
served(c, w) ==
    /\ busy(w) /\ fd[connfd[w]] = c
    /\ \/ wpc[w] \in {"answer", "spin"}
       \/ wpc[w] = "deal" /\ isHead(recv_buf[w][1])
queued(c, i) == fd[responses[i].sockfd] = c
written(c) == TmpOpt # None /\ fd[TmpOpt.sockfd] = c

answered(c) == Len(received[c]) = Len(requests[c])

InFlight(c) == \/ asked(c)
               \/ \E w \in Worker : served(c, w)
               \/ \E i \in DOMAIN responses : queued(c, i)
               \/ written(c)

\* A client waits for one answer at most, and its request is in one place; it
\* may also wait for the rest of an answer, which is nowhere.
OneAnswer(c) ==
    /\ answered(c) \/ Len(requests[c]) = Len(received[c]) + 1
    /\ InFlight(c) => ~answered(c)
    /\ state[c] # "open" => answered(c)
    /\ \A i \in 2 .. Len(inbox[c]) : ~isHead(inbox[c][i])
    /\ asked(c) => ~written(c)
    /\ \A w \in Worker : served(c, w) => ~asked(c) /\ ~written(c)
    /\ \A i \in DOMAIN responses : queued(c, i) =>
         /\ ~asked(c) /\ ~written(c)
         /\ \A w \in Worker : ~served(c, w)
         /\ \A j \in DOMAIN responses : queued(c, j) => i = j

AnswersLive ==
    /\ \A i \in DOMAIN responses : fd[responses[i].sockfd] \in Client
    /\ TmpOpt # None => fd[TmpOpt.sockfd] \in Client

\* What is in each place is right for the last request of the client.
last(c) == requests[c][Len(requests[c])]
RightAnswer(c) ==
    /\ \A i \in 1 .. Len(received[c]) : received[c][i] = expected(requests[c][i])
    /\ inbox[c] # <<>> => inbox[c] = pieces(last(c))
    /\ \A w \in Worker : served(c, w) =>
         /\ wpc[w] = "deal" =>
              /\ Len(recv_buf[w]) >= Len(pieces(last(c)))
              /\ \A i \in DOMAIN pieces(last(c)) : recv_buf[w][i] = pieces(last(c))[i]
         /\ wpc[w] = "answer" => answer[w] = expected(last(c))
    /\ \A i \in DOMAIN responses : queued(c, i) => responses[i].message = expected(last(c))
    /\ written(c) => TmpOpt.message = expected(last(c))

ClientInv(c) == OneAnswer(c) /\ (undisturbed => RightAnswer(c))
AnswerInv == ServerInv /\ AnswersLive /\ \A c \in Client : ClientInv(c)

\* A step that adds nothing to the places of a client's request.
LEMMA KeptClient ==
  ASSUME NEW c \in Client, ClientInv(c),
         requests'[c] = requests[c], received'[c] = received[c], inbox'[c] = inbox[c],
         state'[c] # "open" => state[c] # "open" \/ answered(c),
         undisturbed' => undisturbed, responses' = responses,
         \A i \in DOMAIN responses : queued(c, i)' => queued(c, i),
         written(c)' => written(c) /\ TmpOpt' = TmpOpt,
         \A w \in Worker : served(c, w)' =>
           /\ served(c, w)
           /\ wpc'[w] = "deal" => wpc[w] = "deal" /\ recv_buf'[w] = recv_buf[w]
           /\ wpc'[w] = "answer" => \/ wpc[w] = "answer" /\ answer'[w] = answer[w]
                                    \/ undisturbed' => answer'[w] = expected(last(c))
  PROVE  ClientInv(c)'
<1>1. (asked(c)' <=> asked(c)) /\ (answered(c)' <=> answered(c)) /\ last(c)' = last(c)
  BY DEF asked, answered, last
<1>2. InFlight(c)' => InFlight(c)
  BY <1>1 DEF InFlight
<1> HIDE DEF asked, answered, last
<1>3. OneAnswer(c)'
  BY <1>1, <1>2 DEF ClientInv, OneAnswer
<1>4. undisturbed' => RightAnswer(c)'
  BY <1>1 DEF ClientInv, RightAnswer
<1> QED BY <1>3, <1>4 DEF ClientInv

\* The descriptors in use are what they were.
FdKept == \A n \in Fd : fd[n] \in Client \/ fd'[n] \in Client => fd'[n] = fd[n]

LEMMA PageFd ==
  ASSUME ServerInv,
         \/ fd' = fd
         \/ \E n \in Fd : lowest(n) /\ fd' = [fd EXCEPT ![n] = "file"]
  PROVE  FdKept
<1>1. fd \in [Fd -> Client \cup {"file", None}]
  BY DEF ServerInv, TypeOK
<1>2. ASSUME NEW n \in Fd, lowest(n), fd' = [fd EXCEPT ![n] = "file"]
      PROVE  FdKept
  BY <1>1, <1>2 DEF lowest, freeFds, FdKept
<1> QED BY <1>2 DEF FdKept

\* The descriptors of the queue of answers and of the output thread.
LEMMA Sockets ==
  ASSUME ServerInv
  PROVE  /\ \A i \in DOMAIN responses : responses[i].sockfd \in Fd /\ responses[i].message \in Answer
         /\ TmpOpt # None => TmpOpt.sockfd \in Fd /\ TmpOpt.message \in Answer
         /\ \A w \in Worker : connfd[w] \in Fd
<1> DEFINE M == [sockfd : Fd, message : Answer]
<1>1. responses \in Seq(M)
  BY DEF ServerInv, TypeOK
<1>2. \A i \in DOMAIN responses : responses[i] \in M
  <2> HIDE DEF M
  <2> QED BY <1>1, ElementOfSeq, LenProperties
<1> QED BY <1>2 DEF ServerInv, TypeOK

LEMMA KeptSockets ==
  ASSUME ServerInv, AnswersLive, FdKept, UNCHANGED responses, TmpOpt' \in {TmpOpt, None}
  PROVE  /\ AnswersLive'
         /\ \A c \in Client : /\ \A i \in DOMAIN responses : queued(c, i)' <=> queued(c, i)
                              /\ written(c)' => written(c) /\ TmpOpt' = TmpOpt
<1>1. \A i \in DOMAIN responses : fd'[responses[i].sockfd] = fd[responses[i].sockfd]
  BY Sockets DEF AnswersLive, FdKept
<1>2. TmpOpt # None => fd'[TmpOpt.sockfd] = fd[TmpOpt.sockfd]
  BY Sockets DEF AnswersLive, FdKept
<1> QED BY <1>1, <1>2 DEF AnswersLive, queued, written

\* So is what a worker serves while it stays where it is.
LEMMA KeptWorker ==
  ASSUME ServerInv, FdKept, NEW w \in Worker, UNCHANGED <<connfd[w], wpc[w], recv_buf[w]>>
  PROVE  \A c \in Client : served(c, w)' <=> served(c, w)
<1>1. busy(w) => fd'[connfd[w]] = fd[connfd[w]]
  BY Sockets DEF ServerInv, Holders, FdKept
<1> QED BY <1>1 DEF served, busy

-----------------------------------------------------------------------------
(***************************************************************************)
(* Clients and main: a patient client sends when its request has no place. *)
(***************************************************************************)
LEMMA InitAnswer == Init => AnswerInv
<1> SUFFICES ASSUME Init PROVE AnswerInv
  OBVIOUS
<1>1. AnswersLive
  BY DEF Init, AnswersLive
<1>2. ASSUME NEW c \in Client
      PROVE  OneAnswer(c) /\ RightAnswer(c)
  <2>1. /\ requests[c] = <<>> /\ received[c] = <<>> /\ inbox[c] = <<>>
        /\ responses = <<>> /\ TmpOpt = None /\ \A w \in Worker : wpc[w] = "take"
    BY DEF Init
  <2>2. answered(c) /\ ~asked(c) /\ ~written(c) /\ \A w \in Worker : ~served(c, w)
    BY <2>1 DEF answered, asked, served, written, busy
  <2>3. ~InFlight(c)
    BY <2>1, <2>2 DEF InFlight
  <2> QED BY <2>1, <2>2, <2>3 DEF OneAnswer, RightAnswer
<1> QED BY <1>1, <1>2, InitServer DEF AnswerInv, ClientInv

LEMMA ConnectAnswer ==
  ASSUME AnswerInv, NEW c \in Client, Connect(c)
  PROVE  AnswersLive' /\ \A d \in Client : ClientInv(d)'
<1> USE DEF workerVars, queueVars
<1>1. /\ ServerInv /\ UNCHANGED <<fd, received, requests, inbox, responses, TmpOpt,
                                  wpc, connfd, recv_buf, answer>>
      /\ (undisturbed' <=> undisturbed)
      /\ \A d \in Client : state'[d] # "open" => state[d] # "open"
  BY DEF Connect, AnswerInv, ServerInv, TypeOK
<1>2. ASSUME NEW d \in Client PROVE ClientInv(d)'
  <2>1. /\ \A i \in DOMAIN responses : queued(d, i)' <=> queued(d, i)
        /\ written(d)' <=> written(d)
        /\ \A w \in Worker : served(d, w)' <=> served(d, w)
    BY <1>1 DEF queued, written, served, busy
  <2> QED BY <1>1, <2>1, KeptClient DEF AnswerInv
<1>3. AnswersLive'
  BY <1>1 DEF AnswerInv, AnswersLive
<1> QED BY <1>2, <1>3

LEMMA SendAnswer ==
  ASSUME AnswerInv, Patient, NEW c \in Client, Send(c)
  PROVE  AnswersLive' /\ \A d \in Client : ClientInv(d)'
<1> USE DEF workerVars, queueVars
<1>1. PICK r \in Request : /\ requests' = [requests EXCEPT ![c] = Append(@, r)]
                           /\ inbox' = [inbox EXCEPT ![c] = @ \o pieces(r)]
  BY DEF Send
<1>2. /\ ServerInv /\ UNCHANGED <<fd, received, state, responses, TmpOpt, wpc, connfd, recv_buf, answer>>
      /\ (undisturbed' <=> undisturbed) /\ answered(c) /\ inbox[c] = <<>> /\ state[c] = "open"
  BY DEF Send, AnswerInv, satisfied, answered
<1>3. /\ requests[c] \in Seq(Request) /\ received[c] \in Seq(Answer)
      /\ requests \in [Client -> Seq(Request)] /\ inbox \in [Client -> Seq(Piece)]
  BY <1>2 DEF ServerInv, TypeOK
<1>4. /\ FdKept /\ AnswersLive' /\ \A d \in Client : written(d)' <=> written(d)
      /\ \A d \in Client : \A i \in DOMAIN responses : queued(d, i)' <=> queued(d, i)
      /\ \A d \in Client : \A w \in Worker : served(d, w)' <=> served(d, w)
  BY <1>2 DEF AnswerInv, AnswersLive, FdKept, written, queued, served, busy
<1>5. ASSUME NEW d \in Client, d # c PROVE ClientInv(d)'
  <2>1. requests'[d] = requests[d] /\ inbox'[d] = inbox[d] /\ ClientInv(d)
    BY <1>1, <1>3, <1>5 DEF AnswerInv
  <2> QED BY <1>2, <1>4, <2>1, KeptClient
<1>6. ClientInv(c)'
  <2>1. ~InFlight(c) /\ OneAnswer(c) /\ (undisturbed => RightAnswer(c))
    BY <1>2 DEF AnswerInv, ClientInv, OneAnswer
  <2>2. /\ requests'[c] = Append(requests[c], r) /\ Len(requests'[c]) = Len(requests[c]) + 1
        /\ \A i \in 1 .. Len(requests[c]) : requests'[c][i] = requests[c][i]
        /\ requests'[c][Len(requests[c]) + 1] = r
        /\ Len(requests[c]) \in Nat /\ Len(received[c]) \in Nat
    BY <1>1, <1>3, AppendProperties, LenProperties
  <2>3. inbox'[c] = pieces(r)
    <3>1. <<>> \o pieces(r) = pieces(r)
      BY RequestPieces, ConcatEmptySeq
    <3> QED BY <1>1, <1>2, <1>3, <3>1
  <2>4. ~answered(c)' /\ Len(requests'[c]) = Len(received'[c]) + 1
    BY <1>2, <2>2 DEF answered
  <2>5. /\ \A w \in Worker : ~served(c, w)' /\ ~written(c)'
        /\ \A i \in DOMAIN responses' : ~queued(c, i)'
    BY <1>2, <1>4, <2>1 DEF InFlight
  <2>6. ~written(c)'
    BY <1>4, <2>1 DEF InFlight
  <2>7. OneAnswer(c)'
    BY <1>2, <2>3, <2>4, <2>5, <2>6, Heads DEF OneAnswer
  <2>8. last(c)' = r
    BY <2>2 DEF last
  <2>9. undisturbed' => RightAnswer(c)'
    <3> SUFFICES ASSUME undisturbed' PROVE RightAnswer(c)'
      OBVIOUS
    <3>1. \A i \in 1 .. Len(received'[c]) : received'[c][i] = expected(requests'[c][i])
      BY <1>2, <2>1, <2>2 DEF RightAnswer, answered
    <3> QED BY <2>3, <2>5, <2>6, <2>8, <3>1 DEF RightAnswer
  <2> QED BY <2>7, <2>9 DEF ClientInv
<1> QED BY <1>4, <1>5, <1>6

LEMMA FinishAnswer ==
  ASSUME AnswerInv, Patient, NEW c \in Client, Finish(c)
  PROVE  AnswersLive' /\ \A d \in Client : ClientInv(d)'
<1> USE DEF workerVars, queueVars
<1>1. /\ ServerInv /\ UNCHANGED <<fd, received, requests, inbox, responses, TmpOpt,
                                  wpc, connfd, recv_buf, answer>>
      /\ (undisturbed' <=> undisturbed) /\ answered(c)
  BY DEF Finish, AnswerInv, satisfied, answered
<1>2. \A d \in Client : state'[d] = state[d] \/ answered(d)
  BY <1>1 DEF Finish, ServerInv, TypeOK
<1>3. ASSUME NEW d \in Client PROVE ClientInv(d)'
  <2>1. /\ \A i \in DOMAIN responses : queued(d, i)' <=> queued(d, i)
        /\ written(d)' <=> written(d)
        /\ \A w \in Worker : served(d, w)' <=> served(d, w)
    BY <1>1 DEF queued, written, served, busy
  <2> QED BY <1>1, <1>2, <2>1, KeptClient DEF AnswerInv
<1>4. AnswersLive'
  BY <1>1 DEF AnswerInv, AnswersLive
<1> QED BY <1>3, <1>4

LEMMA AcceptAnswer ==
  ASSUME AnswerInv, NEW c \in Client, Accept(c)
  PROVE  AnswersLive' /\ \A d \in Client : ClientInv(d)'
<1> USE DEF workerVars, queueVars
<1>1. PICK n \in Fd : lowest(n) /\ fd' = [fd EXCEPT ![n] = c] /\ accepted' = n
  BY DEF Accept
<1>2. /\ ServerInv /\ AnswersLive
      /\ UNCHANGED <<state, received, requests, inbox, responses, TmpOpt, wpc, connfd, recv_buf, answer>>
      /\ (undisturbed' <=> undisturbed)
      /\ fd[n] = None /\ fd \in [Fd -> Client \cup {"file", None}]
  BY <1>1 DEF Accept, AnswerInv, ServerInv, TypeOK, lowest, freeFds
<1>3. \A k \in Fd : fd[k] \in Client => fd'[k] = fd[k]
  BY <1>1, <1>2
<1>4. /\ \A i \in DOMAIN responses : fd'[responses[i].sockfd] = fd[responses[i].sockfd]
      /\ TmpOpt # None => fd'[TmpOpt.sockfd] = fd[TmpOpt.sockfd]
      /\ \A w \in Worker : busy(w) => fd'[connfd[w]] = fd[connfd[w]]
  BY <1>2, <1>3, Sockets DEF AnswersLive, ServerInv, Holders
<1>5. AnswersLive'
  BY <1>2, <1>4 DEF AnswersLive
<1>6. ASSUME NEW d \in Client PROVE ClientInv(d)'
  <2>1. /\ \A i \in DOMAIN responses : queued(d, i)' <=> queued(d, i)
        /\ written(d)' <=> written(d)
        /\ \A w \in Worker : served(d, w)' <=> served(d, w)
    BY <1>2, <1>4 DEF queued, written, served, busy
  <2> QED BY <1>2, <2>1, KeptClient DEF AnswerInv
<1> QED BY <1>5, <1>6

\* main and the workers hand descriptors on.
LEMMA TakeAnswer ==
  ASSUME AnswerInv, putTask \/ \E w \in Worker : getTask(w)
  PROVE  AnswersLive' /\ \A d \in Client : ClientInv(d)'
<1> USE DEF clientVars, workerVars
<1>1. /\ ServerInv /\ AnswersLive
      /\ UNCHANGED <<fd, state, received, requests, inbox, responses, TmpOpt, recv_buf, answer>>
      /\ (undisturbed' <=> undisturbed)
  BY DEF putTask, getTask, AnswerInv
<1>2. \A v \in Worker : \/ wpc'[v] = wpc[v] /\ connfd'[v] = connfd[v]
                        \/ wpc'[v] = "recv"
  BY DEF putTask, getTask, AnswerInv, ServerInv, TypeOK
<1>3. ASSUME NEW d \in Client PROVE ClientInv(d)'
  <2>1. /\ \A i \in DOMAIN responses : queued(d, i)' <=> queued(d, i)
        /\ written(d)' <=> written(d)
        /\ \A v \in Worker : served(d, v)' =>
             served(d, v) /\ wpc'[v] = wpc[v] /\ recv_buf'[v] = recv_buf[v] /\ answer'[v] = answer[v]
    BY <1>1, <1>2 DEF queued, written, served, busy
  <2> QED BY <1>1, <2>1, KeptClient DEF AnswerInv
<1> QED BY <1>1, <1>3 DEF AnswersLive

-----------------------------------------------------------------------------
(***************************************************************************)
(* A worker: the request goes from the pieces on their way to the worker,  *)
(* and from there into the queue of answers.                               *)
(***************************************************************************)
\* The other workers serve other clients.
LEMMA OneServer ==
  ASSUME ServerInv, NEW v \in Worker, NEW w \in Worker, busy(v), busy(w),
         fd[connfd[v]] = fd[connfd[w]]
  PROVE  v = w
<1>1. connfd[v] = connfd[w]
  BY Sockets DEF ServerInv, Holders, OneDescriptor
<1> QED BY <1>1 DEF ServerInv, Holders

LEMMA RecvAnswer ==
  ASSUME AnswerInv, NEW w \in Worker, recv(w)
  PROVE  AnswersLive' /\ \A d \in Client : ClientInv(d)'
<1> USE DEF queueVars
<1>0. wpc[w] = "recv" /\ ServerInv
  BY DEF recv, AnswerInv
<1>1. PICK c \in Client : c = fd[connfd[w]]
  BY <1>0 DEF ServerInv, Holders, busy
<1>2. /\ AnswersLive /\ busy(w) /\ fd'[connfd'[w]] = c
      /\ UNCHANGED <<fd, state, received, requests, responses, TmpOpt, connfd, answer>>
      /\ wpc'[w] = "deal" /\ inbox[c] # <<>>
      /\ \A v \in Worker : v # w => wpc'[v] = wpc[v]
  BY <1>0, <1>1 DEF recv, AnswerInv, ServerInv, TypeOK, busy
<1>3. PICK n \in 1 .. Len(inbox[c]) :
        /\ recv_buf' = [recv_buf EXCEPT ![w] = overlay(SubSeq(inbox[c], 1, n), @)]
        /\ inbox' = [inbox EXCEPT ![c] = SubSeq(@, n + 1, Len(@))]
        /\ undisturbed' = (undisturbed /\ n = Len(inbox[c]))
  BY <1>1 DEF recv
<1> DEFINE chunk == SubSeq(inbox[c], 1, n)
           left == SubSeq(inbox[c], n + 1, Len(inbox[c]))
<1>4. /\ inbox[c] \in Seq(Piece) /\ Len(inbox[c]) \in Nat /\ recv_buf[w] \in Seq(Piece)
      /\ \A i \in 1 .. Len(inbox[c]) : inbox[c][i] \in Piece
  <2>1. inbox[c] \in Seq(Piece) /\ recv_buf[w] \in Seq(Piece)
    BY <1>0, <1>1, <1>2 DEF ServerInv, TypeOK
  <2> QED BY <2>1, LenProperties, ElementOfSeq
<1>5. /\ chunk \in Seq(Piece) /\ Len(chunk) = n
      /\ \A i \in 1 .. n : chunk[i] = inbox[c][i]
  BY <1>4, SubSeqProperties
<1>6. /\ left \in Seq(Piece) /\ Len(left) = Len(inbox[c]) - n
      /\ \A i \in 1 .. Len(left) : left[i] = inbox[c][n + i]
  BY <1>4, SubSeqProperties
<1> HIDE DEF chunk, left
<1>7. \A i \in 1 .. n : overlay(chunk, recv_buf[w])[i] = inbox[c][i]
  BY <1>4, <1>5, Overlay
<1>8. Len(overlay(chunk, recv_buf[w])) >= n
  BY <1>4, <1>5, Overlay
<1>9. /\ recv_buf'[w] = overlay(chunk, recv_buf[w]) /\ inbox'[c] = left
      /\ \A v \in Worker : v # w => recv_buf'[v] = recv_buf[v]
      /\ \A d \in Client : d # c => inbox'[d] = inbox[d]
  BY <1>0, <1>1, <1>2, <1>3 DEF ServerInv, TypeOK, chunk, left
<1>10. AnswersLive'
  BY <1>0, <1>1, <1>2 DEF AnswersLive
<1>11. \A d \in Client : /\ \A i \in DOMAIN responses : queued(d, i)' <=> queued(d, i)
                         /\ written(d)' <=> written(d)
                         /\ \A v \in Worker : v # w => (served(d, v)' <=> served(d, v))
  BY <1>0, <1>1, <1>2, <1>9 DEF queued, written, served, busy
<1>12. undisturbed' => undisturbed /\ n = Len(inbox[c])
  BY <1>3
<1>13. ASSUME NEW d \in Client, d # c PROVE ClientInv(d)'
  <2>1. ~served(d, w)'
    BY <1>0, <1>1, <1>2, <1>13 DEF served
  <2> QED BY <1>0, <1>1, <1>2, <1>9, <1>11, <1>12, <1>13, <2>1, KeptClient DEF AnswerInv
<1>14. ClientInv(c)'
  <2>1. OneAnswer(c) /\ (undisturbed => RightAnswer(c))
    BY <1>0, <1>1, <1>2 DEF AnswerInv, ClientInv
  <2>2. (answered(c)' <=> answered(c)) /\ last(c)' = last(c)
    BY <1>0, <1>1, <1>2 DEF answered, last
  <2>3. \A v \in Worker : v # w => ~served(c, v)'
    <3>1. \A v \in Worker : served(c, v) => v = w
      BY <1>0, <1>1, <1>2, OneServer DEF served
    <3> QED BY <1>0, <1>1, <1>2, <1>11, <3>1
  <2>4. served(c, w)' <=> asked(c)
    <3>1. recv_buf'[w][1] = inbox[c][1]
      BY <1>4, <1>7, <1>9
    <3>2. busy(w)' /\ fd'[connfd'[w]] = c
      BY <1>0, <1>1, <1>2 DEF busy
    <3> QED BY <1>0, <1>1, <1>2, <3>1, <3>2 DEF served, asked, isHead
  <2>5. ~asked(c)' /\ \A i \in 2 .. Len(inbox'[c]) : ~isHead(inbox'[c][i])
    <3>1. \A i \in 1 .. Len(left) : n + i \in 2 .. Len(inbox[c])
      BY <1>4, <1>6
    <3>2. \A i \in 1 .. Len(left) : ~isHead(left[i])
      BY <1>6, <2>1, <3>1 DEF OneAnswer
    <3>3. left # <<>> => 1 \in 1 .. Len(left)
      BY <1>6, EmptySeq, LenProperties
    <3>4. \A i \in 2 .. Len(left) : i \in 1 .. Len(left)
      BY <1>6, LenProperties
    <3> QED BY <1>9, <1>1, <3>2, <3>3, <3>4 DEF asked
  <2>6. InFlight(c)' => InFlight(c)
    BY <1>0, <1>1, <1>2, <1>11, <2>3, <2>4, <2>5 DEF InFlight
  <2>7. OneAnswer(c)'
    BY <1>0, <1>1, <1>2, <1>11, <2>1, <2>2, <2>3, <2>4, <2>5, <2>6 DEF OneAnswer, answered
  <2>8. undisturbed' => RightAnswer(c)'
    <3> SUFFICES ASSUME undisturbed' PROVE RightAnswer(c)'
      OBVIOUS
    <3>1. RightAnswer(c) /\ n = Len(inbox[c]) /\ inbox[c] = pieces(last(c))
      BY <1>0, <1>1, <1>2, <1>12, <2>1 DEF RightAnswer
    <3>2. inbox'[c] = <<>>
      BY <1>6, <1>9, <3>1, <1>4, EmptySeq, LenProperties
    <3>3. /\ Len(recv_buf'[w]) >= Len(pieces(last(c)))
          /\ \A i \in DOMAIN pieces(last(c)) : recv_buf'[w][i] = pieces(last(c))[i]
      BY <1>4, <1>7, <1>8, <1>9, <3>1, LenProperties
    <3> QED BY <1>0, <1>1, <1>2, <1>11, <2>2, <2>3, <3>1, <3>2, <3>3 DEF RightAnswer
  <2> QED BY <2>7, <2>8 DEF ClientInv
<1> QED BY <1>10, <1>13, <1>14

LEMMA DealNothingAnswer ==
  ASSUME AnswerInv, NEW w \in Worker, DealNothing(w) \/ DealIncomplete(w)
  PROVE  AnswersLive' /\ \A d \in Client : ClientInv(d)'
<1> USE DEF queueVars, clientVars
<1>1. /\ ServerInv /\ AnswersLive /\ FdKept
      /\ UNCHANGED <<fd, state, received, requests, inbox, responses, TmpOpt, connfd,
                     answer, recv_buf>>
      /\ (undisturbed' <=> undisturbed)
      /\ \A v \in Worker : v # w => wpc'[v] = wpc[v]
  BY DEF DealNothing, DealIncomplete, AnswerInv, ServerInv, TypeOK, FdKept
<1>2. \/ wpc'[w] = "recv"
      \/ wpc'[w] = "spin" /\ wpc[w] = "deal" /\ isHead(recv_buf[w][1])
  BY DEF DealNothing, DealIncomplete, AnswerInv, ServerInv, TypeOK, heads, isHead
<1>3. ASSUME NEW d \in Client PROVE ClientInv(d)'
  <2>1. \A v \in Worker : v # w => (served(d, v)' <=> served(d, v))
    BY <1>1, KeptWorker
  <2>2. served(d, w)' => served(d, w) /\ wpc'[w] = "spin"
    BY <1>1, <1>2 DEF served, busy
  <2>3. /\ \A i \in DOMAIN responses : queued(d, i)' <=> queued(d, i)
        /\ written(d)' <=> written(d)
    BY <1>1 DEF queued, written
  <2> QED BY <1>1, <2>1, <2>2, <2>3, KeptClient DEF AnswerInv
<1>4. AnswersLive'
  BY <1>1 DEF AnswersLive
<1> QED BY <1>3, <1>4

\* A whole request in the buffer gets the answer that is expected.
LEMMA RightDealer ==
  ASSUME NEW r \in Request, NEW b \in Seq(Piece),
         \A i \in DOMAIN pieces(r) : b[i] = pieces(r)[i]
  PROVE  /\ asksPage(b) => expected(r) = PageAnswer(b[1].what)
         /\ givesName(b) => expected(r) = NameAnswer(b[3].what)
         /\ ~asksPage(b) /\ ~givesName(b) =>
              expected(r) = ErrorAnswer(IF b[1].piece = "PUT" THEN 501 ELSE 404)
<1>1. b[1] = Head1(r) /\ (r.method = "POST" => b[3] = Entity(r))
  BY RequestPieces
<1>2. /\ r.method \in {"GET", "POST", "PUT"} /\ b[1].piece = r.method
      /\ r.method = "GET" => b[1].what = r.what
      /\ r.method = "POST" => b[3].what = r.what
  BY <1>1, RequestPieces DEF Head1, Entity
<1>3. CASE r.method = "GET"
  BY <1>2, <1>3 DEF asksPage, givesName, expected
<1>4. CASE r.method = "POST"
  BY <1>2, <1>4 DEF asksPage, givesName, expected
<1>5. CASE r.method = "PUT"
  BY <1>2, <1>5 DEF asksPage, givesName, expected
<1> QED BY <1>2, <1>3, <1>4, <1>5

\* Only a client that waits for an answer is in a place, and it has asked.
LEMMA LastRequest ==
  ASSUME ServerInv, NEW c \in Client, OneAnswer(c), InFlight(c)
  PROVE  /\ Len(requests[c]) \in Nat /\ Len(received[c]) \in Nat
         /\ Len(requests[c]) = Len(received[c]) + 1 /\ last(c) \in Request
<1>1. requests[c] \in Seq(Request) /\ received[c] \in Seq(Answer)
  BY DEF ServerInv, TypeOK
<1>2. /\ Len(requests[c]) \in Nat /\ Len(received[c]) \in Nat
      /\ Len(requests[c]) = Len(received[c]) + 1
  BY <1>1, LenProperties DEF OneAnswer
<1> QED BY <1>1, <1>2, ElementOfSeq DEF last

LEMMA DealersAnswer ==
  ASSUME AnswerInv, NEW w \in Worker, Get_dealer(w) \/ Post_dealer(w) \/ Error_dealer(w)
  PROVE  AnswersLive' /\ \A d \in Client : ClientInv(d)'
<1> USE DEF queueVars, clientVars
<1>1. dealt(w) /\ ServerInv /\ AnswersLive
  BY DEF Get_dealer, Post_dealer, Error_dealer, AnswerInv
<1>2. /\ UNCHANGED <<state, received, requests, inbox, responses, TmpOpt, connfd, recv_buf>>
      /\ wpc[w] = "deal" /\ isHead(recv_buf[w][1]) /\ wpc'[w] = "answer"
      /\ \A v \in Worker : v # w => wpc'[v] = wpc[v]
  BY <1>1 DEF dealt, ServerInv, TypeOK, heads, isHead
<1>3. /\ undisturbed' => undisturbed
      /\ \A v \in Worker : v # w => answer'[v] = answer[v]
  BY <1>1 DEF Get_dealer, Post_dealer, Error_dealer, answers, ServerInv, TypeOK
<1>4. FdKept
  <2>1. \/ fd' = fd
        \/ \E n \in Fd : lowest(n) /\ fd' = [fd EXCEPT ![n] = "file"]
    BY DEF Get_dealer, Post_dealer, Error_dealer
  <2> QED BY <1>1, <2>1, PageFd
<1>5. /\ AnswersLive'
      /\ \A c \in Client : /\ \A i \in DOMAIN responses : queued(c, i)' <=> queued(c, i)
                           /\ written(c)' => written(c) /\ TmpOpt' = TmpOpt
  BY <1>1, <1>2, <1>4, KeptSockets
<1>6. \A d \in Client : /\ \A v \in Worker : v # w => (served(d, v)' <=> served(d, v))
                        /\ served(d, w)' => served(d, w)
  <2>1. \A d \in Client : \A v \in Worker : v # w => (served(d, v)' <=> served(d, v))
    BY <1>1, <1>2, <1>4, KeptWorker
  <2>2. connfd[w] \in Fd /\ connfd'[w] = connfd[w]
    BY <1>1, <1>2, Sockets
  <2>3. \A d \in Client : fd'[connfd'[w]] = d => fd[connfd[w]] = d
    BY <1>4, <2>2 DEF FdKept
  <2> QED BY <1>2, <2>1, <2>3 DEF served, busy
<1>7. ASSUME NEW d \in Client PROVE ClientInv(d)'
  <2>1. ASSUME served(d, w), undisturbed'
        PROVE  answer'[w] = expected(last(d))
    <3>1. ClientInv(d)
      BY DEF AnswerInv
    <3>2. InFlight(d) /\ OneAnswer(d) /\ RightAnswer(d)
      BY <1>3, <2>1, <3>1 DEF InFlight, ClientInv
    <3>3. last(d) \in Request /\ recv_buf[w] \in Seq(Piece)
      BY <1>1, <3>2, LastRequest DEF ServerInv, TypeOK
    <3>4. \A i \in DOMAIN pieces(last(d)) : recv_buf[w][i] = pieces(last(d))[i]
      BY <1>2, <2>1, <3>2 DEF RightAnswer
    <3>5. /\ asksPage(recv_buf[w]) => expected(last(d)) = PageAnswer(recv_buf[w][1].what)
          /\ givesName(recv_buf[w]) => expected(last(d)) = NameAnswer(recv_buf[w][3].what)
          /\ ~asksPage(recv_buf[w]) /\ ~givesName(recv_buf[w]) =>
               expected(last(d)) = ErrorAnswer(IF recv_buf[w][1].piece = "PUT" THEN 501 ELSE 404)
      BY <3>3, <3>4, RightDealer
    <3>6. \A a : answers(w, a) => answer'[w] = a
      BY <1>1 DEF answers, ServerInv, TypeOK
    <3>7. CASE Get_dealer(w)
      <4>1. asksPage(recv_buf[w]) /\ answers(w, PageAnswer(recv_buf[w][1].what))
        BY <2>1, <3>7 DEF Get_dealer
      <4> QED BY <3>5, <3>6, <4>1
    <3>8. CASE Post_dealer(w)
      <4>1. givesName(recv_buf[w]) /\ answers(w, NameAnswer(recv_buf[w][3].what))
        BY <3>8 DEF Post_dealer
      <4> QED BY <3>5, <3>6, <4>1
    <3>9. CASE Error_dealer(w)
      BY <3>5, <3>6, <3>9 DEF Error_dealer
    <3> QED BY <3>7, <3>8, <3>9
  <2> QED BY <1>2, <1>3, <1>5, <1>6, <2>1, KeptClient DEF AnswerInv
<1> QED BY <1>5, <1>7

\* A client with no part in what enters or leaves the queue of answers.
LEMMA OtherClient ==
  ASSUME NEW c \in Client, ClientInv(c), NEW k \in {0, 1},
         requests'[c] = requests[c], received'[c] = received[c], inbox'[c] = inbox[c],
         state'[c] = state[c], undisturbed' => undisturbed,
         DOMAIN responses' \subseteq Nat,
         \A i \in DOMAIN responses' : queued(c, i)' =>
           i + k \in DOMAIN responses /\ queued(c, i + k) /\ responses'[i] = responses[i + k],
         written(c)' => written(c) /\ TmpOpt' = TmpOpt,
         \A w \in Worker : served(c, w)' =>
           served(c, w) /\ wpc'[w] = wpc[w] /\ recv_buf'[w] = recv_buf[w] /\ answer'[w] = answer[w]
  PROVE  ClientInv(c)'
<1>1. (asked(c)' <=> asked(c)) /\ (answered(c)' <=> answered(c)) /\ last(c)' = last(c)
  BY DEF asked, answered, last
<1>2. InFlight(c)' => InFlight(c)
  BY <1>1 DEF InFlight
<1>3. ASSUME NEW i \in DOMAIN responses', queued(c, i)'
      PROVE  /\ ~asked(c)' /\ ~written(c)' /\ \A w \in Worker : ~served(c, w)'
             /\ \A j \in DOMAIN responses' : queued(c, j)' => i = j
  <2>1. i + k \in DOMAIN responses /\ queued(c, i + k) /\ OneAnswer(c)
    BY <1>3 DEF ClientInv
  <2>2. ~asked(c) /\ ~written(c) /\ \A w \in Worker : ~served(c, w)
    BY <2>1 DEF OneAnswer
  <2>3. ASSUME NEW j \in DOMAIN responses', queued(c, j)' PROVE i = j
    <3>1. j + k \in DOMAIN responses /\ queued(c, j + k)
      BY <2>3
    <3>2. i + k = j + k
      BY <2>1, <3>1 DEF OneAnswer
    <3>3. i \in Nat /\ j \in Nat
      OBVIOUS
    <3> QED BY <3>2, <3>3
  <2> QED BY <1>1, <2>2, <2>3
<1>4. OneAnswer(c)'
  BY <1>1, <1>2, <1>3 DEF ClientInv, OneAnswer
<1>5. undisturbed' => RightAnswer(c)'
  BY <1>1 DEF ClientInv, RightAnswer
<1> QED BY <1>4, <1>5 DEF ClientInv

LEMMA PutMessageAnswer ==
  ASSUME AnswerInv, NEW w \in Worker, putMessage(w)
  PROVE  AnswersLive' /\ \A d \in Client : ClientInv(d)'
<1> USE DEF clientVars
<1> DEFINE m == [sockfd |-> connfd[w], message |-> answer[w]]
           M == [sockfd : Fd, message : Answer]
<1>1. /\ ServerInv /\ AnswersLive /\ FdKept
      /\ UNCHANGED <<fd, state, received, requests, inbox, TmpOpt, connfd, recv_buf, answer>>
      /\ (undisturbed' <=> undisturbed) /\ wpc[w] = "answer" /\ wpc'[w] = "recv"
      /\ \A v \in Worker : v # w => wpc'[v] = wpc[v]
  BY DEF putMessage, AnswerInv, ServerInv, TypeOK, FdKept
<1>2. PICK c \in Client : c = fd[connfd[w]]
  BY <1>1 DEF ServerInv, Holders, busy
<1>3. m \in M /\ responses \in Seq(M) /\ responses' = Append(responses, m)
  BY <1>1 DEF putMessage, ServerInv, TypeOK
<1>4. /\ DOMAIN responses = 1 .. Len(responses) /\ Len(responses) \in Nat
      /\ DOMAIN responses' = 1 .. Len(responses) + 1
      /\ \A i \in DOMAIN responses : responses'[i] = responses[i]
      /\ responses'[Len(responses) + 1] = m
  <2> HIDE DEF m, M
  <2> QED BY <1>3, AppendProperties, LenProperties
<1>k. PICK k \in Nat : k = Len(responses) + 1
  BY <1>4
<1>5. /\ k \in DOMAIN responses' /\ k \notin DOMAIN responses
      /\ \A i \in DOMAIN responses' : i = k \/ i \in DOMAIN responses
  BY <1>4, <1>k
<1>6. /\ \A d \in Client : queued(d, k)' <=> d = c
      /\ \A d \in Client : \A i \in DOMAIN responses : queued(d, i)' <=> queued(d, i)
      /\ \A d \in Client : written(d)' <=> written(d)
  BY <1>1, <1>2, <1>4, <1>5, <1>k DEF queued, written
<1>7. AnswersLive'
  BY <1>1, <1>2, <1>4, <1>5, <1>k DEF AnswersLive
<1>8. served(c, w) /\ \A d \in Client : ~served(d, w)'
  BY <1>1, <1>2 DEF served, busy
<1>9. \A d \in Client : \A v \in Worker : served(d, v)' => v # w /\ served(d, v)
  BY <1>1, <1>8, KeptWorker
<1> HIDE DEF m
<1>10. ASSUME NEW d \in Client, d # c PROVE ClientInv(d)'
  <2>1. \A i \in DOMAIN responses' : queued(d, i)' =>
          i + 0 \in DOMAIN responses /\ queued(d, i + 0) /\ responses'[i] = responses[i + 0]
    <3>1. \A i \in DOMAIN responses' : i + 0 = i
      BY <1>4
    <3> QED BY <1>4, <1>5, <1>6, <1>10, <3>1
  <2>2. DOMAIN responses' \subseteq Nat
    BY <1>4
  <2> QED BY <1>1, <1>6, <1>9, <2>1, <2>2, OtherClient DEF AnswerInv
<1>11. ClientInv(c)'
  <2>1. OneAnswer(c) /\ (undisturbed => RightAnswer(c))
    BY DEF AnswerInv, ClientInv
  <2>2. /\ ~asked(c) /\ ~written(c) /\ ~answered(c)
        /\ \A i \in DOMAIN responses : ~queued(c, i)
        /\ \A v \in Worker : served(c, v) => v = w
    <3>1. \A v \in Worker : served(c, v) => v = w
      BY <1>1, <1>8, OneServer DEF served
    <3> QED BY <1>8, <2>1, <3>1 DEF OneAnswer, InFlight
  <2>3. /\ ~asked(c)' /\ ~written(c)' /\ ~answered(c)'
        /\ \A i \in DOMAIN responses' : queued(c, i)' => i = k
        /\ \A v \in Worker : ~served(c, v)'
    BY <1>1, <1>5, <1>6, <1>9, <2>2 DEF asked, answered
  <2>4. OneAnswer(c)'
    BY <1>1, <2>1, <2>3 DEF OneAnswer, answered
  <2>5. undisturbed' => RightAnswer(c)'
    <3>1. last(c)' = last(c) /\ responses'[k].message = answer[w]
      BY <1>1, <1>4, <1>k DEF last, m
    <3>2. undisturbed => answer[w] = expected(last(c))
      BY <1>1, <1>8, <2>1 DEF RightAnswer
    <3> QED BY <1>1, <2>1, <2>3, <3>1, <3>2 DEF RightAnswer
  <2> QED BY <2>4, <2>5 DEF ClientInv
<1> QED BY <1>7, <1>10, <1>11

\* A worker closes the descriptor of a client that has all its answers.
LEMMA CloseAnswer ==
  ASSUME AnswerInv, NEW w \in Worker, closeFd(w)
  PROVE  AnswersLive' /\ \A d \in Client : ClientInv(d)'
<1> USE DEF clientVars, queueVars
<1>1. /\ ServerInv /\ AnswersLive
      /\ UNCHANGED <<state, received, requests, inbox, responses, TmpOpt, connfd, recv_buf, answer>>
      /\ (undisturbed' <=> undisturbed) /\ wpc[w] = "recv" /\ wpc'[w] = "take"
      /\ \A v \in Worker : v # w => wpc'[v] = wpc[v]
      /\ fd' = [fd EXCEPT ![connfd[w]] = None] /\ fd \in [Fd -> Client \cup {"file", None}]
      /\ ended(fd[connfd[w]])
  BY DEF closeFd, AnswerInv, ServerInv, TypeOK
<1>2. PICK c \in Client : c = fd[connfd[w]]
  BY <1>1 DEF ServerInv, Holders, busy
<1>3. ~InFlight(c) /\ ClientInv(c)
  BY <1>1, <1>2 DEF AnswerInv, ClientInv, OneAnswer, ended
<1>4. connfd[w] \in Fd /\ \A n \in Fd : n # connfd[w] => fd'[n] = fd[n]
  BY <1>1, Sockets
<1>5. /\ \A i \in DOMAIN responses : fd'[responses[i].sockfd] = fd[responses[i].sockfd]
      /\ TmpOpt # None => fd'[TmpOpt.sockfd] = fd[TmpOpt.sockfd]
  BY <1>1, <1>2, <1>3, <1>4, Sockets DEF InFlight, queued, written
<1>6. \A v \in Worker : busy(v)' => v # w /\ busy(v) /\ fd'[connfd[v]] = fd[connfd[v]]
  BY <1>1, <1>4, Sockets DEF ServerInv, Holders, busy
<1>7. AnswersLive'
  BY <1>1, <1>5 DEF AnswersLive
<1>8. ASSUME NEW d \in Client PROVE ClientInv(d)'
  <2>1. /\ \A i \in DOMAIN responses : queued(d, i)' <=> queued(d, i)
        /\ written(d)' <=> written(d)
        /\ \A v \in Worker : served(d, v)' => v # w /\ served(d, v)
    BY <1>1, <1>5, <1>6 DEF queued, written, served
  <2> QED BY <1>1, <2>1, KeptClient DEF AnswerInv
<1> QED BY <1>7, <1>8

-----------------------------------------------------------------------------
(***************************************************************************)
(* The output thread takes an answer from the queue, and writes it.        *)
(***************************************************************************)
LEMMA GetTaskOutAnswer ==
  ASSUME AnswerInv, getTaskOut
  PROVE  AnswersLive' /\ \A d \in Client : ClientInv(d)'
<1> USE DEF clientVars, workerVars
<1> DEFINE M == [sockfd : Fd, message : Answer]
<1>1. /\ ServerInv /\ AnswersLive
      /\ UNCHANGED <<fd, state, received, requests, inbox, wpc, connfd, recv_buf, answer>>
      /\ (undisturbed' <=> undisturbed) /\ TmpOpt = None
      /\ TmpOpt' = Head(responses) /\ responses' = Tail(responses)
      /\ responses \in Seq(M) /\ responses # <<>>
  BY DEF getTaskOut, AnswerInv, ServerInv, TypeOK
<1>2. /\ DOMAIN responses = 1 .. Len(responses) /\ Len(responses) \in Nat \ {0}
      /\ DOMAIN responses' = 1 .. Len(responses) - 1 /\ TmpOpt' = responses[1]
      /\ \A i \in DOMAIN responses' : responses'[i] = responses[i + 1]
  <2> HIDE DEF M
  <2>1. Len(responses) \in Nat \ {0} /\ DOMAIN responses = 1 .. Len(responses)
    BY <1>1, LenProperties, EmptySeq
  <2>2. /\ Tail(responses) \in Seq(M) /\ Len(Tail(responses)) = Len(responses) - 1
        /\ \A i \in 1 .. Len(responses) - 1 : Tail(responses)[i] = responses[i + 1]
    BY <1>1, HeadTailProperties
  <2>3. Head(responses) = responses[1] /\ DOMAIN Tail(responses) = 1 .. Len(responses) - 1
    BY <1>1, <2>2, HeadTailProperties, LenProperties
  <2> QED BY <1>1, <2>1, <2>2, <2>3
<1>3. /\ 1 \in DOMAIN responses /\ DOMAIN responses' \subseteq Nat
      /\ \A i \in DOMAIN responses' : i + 1 \in DOMAIN responses /\ i + 1 # 1
  BY <1>2
<1>4. PICK c \in Client : c = fd[responses[1].sockfd]
  BY <1>1, <1>3 DEF AnswersLive
<1>5. AnswersLive'
  BY <1>1, <1>2, <1>3 DEF AnswersLive
<1>6. /\ \A d \in Client : \A i \in DOMAIN responses' : queued(d, i)' <=> queued(d, i + 1)
      /\ \A d \in Client : written(d)' => d = c
      /\ queued(c, 1)
      /\ \A d \in Client : \A v \in Worker : served(d, v)' <=> served(d, v)
  BY <1>1, <1>2, <1>4 DEF queued, written, served, busy
<1>7. ASSUME NEW d \in Client, d # c PROVE ClientInv(d)'
  <2>1. \A i \in DOMAIN responses' : queued(d, i)' =>
          i + 1 \in DOMAIN responses /\ queued(d, i + 1) /\ responses'[i] = responses[i + 1]
    BY <1>2, <1>3, <1>6
  <2> QED BY <1>1, <1>3, <1>6, <1>7, <2>1, OtherClient DEF AnswerInv
<1>8. ClientInv(c)'
  <2>1. OneAnswer(c) /\ (undisturbed => RightAnswer(c))
    BY DEF AnswerInv, ClientInv
  <2>2. /\ ~asked(c) /\ ~answered(c) /\ \A v \in Worker : ~served(c, v)
        /\ \A i \in DOMAIN responses' : ~queued(c, i + 1)
    BY <1>3, <1>6, <2>1 DEF OneAnswer, InFlight
  <2>3. /\ ~asked(c)' /\ ~answered(c)' /\ \A v \in Worker : ~served(c, v)'
        /\ \A i \in DOMAIN responses' : ~queued(c, i)'
    BY <1>1, <1>6, <2>2 DEF asked, answered
  <2>4. OneAnswer(c)'
    BY <1>1, <2>1, <2>3 DEF OneAnswer, answered
  <2>5. undisturbed' => RightAnswer(c)'
    <3>1. last(c)' = last(c)
      BY <1>1 DEF last
    <3>2. undisturbed => TmpOpt'.message = expected(last(c))
      BY <1>2, <1>3, <1>6, <2>1 DEF RightAnswer
    <3> QED BY <1>1, <2>1, <2>3, <3>1, <3>2 DEF RightAnswer
  <2> QED BY <2>4, <2>5 DEF ClientInv
<1> QED BY <1>5, <1>7, <1>8

LEMMA OutputAnswer ==
  ASSUME AnswerInv, output_page \/ output_message
  PROVE  AnswersLive' /\ \A d \in Client : ClientInv(d)'
<1> USE DEF workerVars, queueVars
<1>1. /\ ServerInv /\ AnswersLive
      /\ UNCHANGED <<state, requests, inbox, responses, wpc, connfd, recv_buf, answer>>
      /\ TmpOpt # None /\ TmpOpt' = None /\ (undisturbed' => undisturbed)
  BY DEF output_page, output_message, AnswerInv
<1>2. FdKept
  <2>1. \/ fd' = fd
        \/ \E n \in Fd : lowest(n) /\ fd' = [fd EXCEPT ![n] = "file"]
    BY DEF output_page, output_message
  <2> QED BY <1>1, <2>1, PageFd
<1>3. /\ AnswersLive'
      /\ \A d \in Client : \A i \in DOMAIN responses : queued(d, i)' <=> queued(d, i)
  BY <1>1, <1>2, KeptSockets
<1>4. \A d \in Client : ~written(d)' /\ \A v \in Worker : served(d, v)' <=> served(d, v)
  <2>1. \A d \in Client : \A v \in Worker : served(d, v)' <=> served(d, v)
    BY <1>1, <1>2, KeptWorker
  <2> QED BY <1>1, <2>1 DEF written
<1>5. PICK c \in Client : c = fd[TmpOpt.sockfd]
  BY <1>1 DEF AnswersLive
<1>6. PICK a \in Answer : writes(a) /\ (undisturbed' => a = TmpOpt.message)
  <2>1. TmpOpt.message \in Answer /\ HeadOnly \in Answer
    BY <1>1, Sockets, AnswerType
  <2> QED BY <2>1 DEF output_page, output_message
<1>7. /\ received'[c] = Append(received[c], a)
      /\ \A d \in Client : d # c => received'[d] = received[d]
      /\ received[c] \in Seq(Answer)
  BY <1>1, <1>5, <1>6 DEF writes, ServerInv, TypeOK
<1>8. ASSUME NEW d \in Client, d # c PROVE ClientInv(d)'
  BY <1>1, <1>3, <1>4, <1>7, <1>8, KeptClient DEF AnswerInv
<1>9. ClientInv(c)'
  <2>1. OneAnswer(c) /\ (undisturbed => RightAnswer(c)) /\ written(c)
    BY <1>1, <1>5 DEF AnswerInv, ClientInv, written
  <2>2. InFlight(c)
    BY <2>1 DEF InFlight
  <2>3. /\ Len(received[c]) \in Nat /\ Len(requests[c]) = Len(received[c]) + 1
    BY <1>1, <2>1, <2>2, LastRequest
  <2>4. /\ Len(received'[c]) = Len(received[c]) + 1
        /\ \A i \in 1 .. Len(received[c]) : received'[c][i] = received[c][i]
        /\ received'[c][Len(received[c]) + 1] = a
    BY <1>7, AppendProperties
  <2>5. answered(c)'
    BY <1>1, <2>3, <2>4 DEF answered
  <2>6. /\ ~asked(c) /\ \A v \in Worker : ~served(c, v)
        /\ \A i \in DOMAIN responses : ~queued(c, i)
    BY <2>1 DEF OneAnswer
  <2>7. /\ ~asked(c)' /\ \A v \in Worker : ~served(c, v)'
        /\ \A i \in DOMAIN responses' : ~queued(c, i)'
    BY <1>1, <1>3, <1>4, <2>6 DEF asked
  <2>8. OneAnswer(c)'
    BY <1>1, <1>4, <2>1, <2>5, <2>7 DEF OneAnswer, InFlight
  <2>9. undisturbed' => RightAnswer(c)'
    <3> SUFFICES ASSUME undisturbed' PROVE RightAnswer(c)'
      OBVIOUS
    <3>1. RightAnswer(c) /\ last(c)' = last(c)
      BY <1>1, <2>1 DEF last
    <3>2. a = expected(last(c)) /\ last(c) = requests[c][Len(received[c]) + 1]
      BY <1>6, <2>1, <2>3, <3>1 DEF RightAnswer, last
    <3>3. \A i \in 1 .. Len(received'[c]) :
            i \in 1 .. Len(received[c]) \/ i = Len(received[c]) + 1
      BY <2>3, <2>4
    <3>4. \A i \in 1 .. Len(received'[c]) : received'[c][i] = expected(requests'[c][i])
      BY <1>1, <2>4, <3>1, <3>2, <3>3 DEF RightAnswer
    <3> QED BY <1>1, <1>4, <2>7, <3>1, <3>4 DEF RightAnswer
  <2> QED BY <2>8, <2>9 DEF ClientInv
<1> QED BY <1>3, <1>8, <1>9

-----------------------------------------------------------------------------
(***************************************************************************)
(* The theorems about patient clients                                      *)
(***************************************************************************)
LEMMA StepAnswer == ASSUME Patient PROVE AnswerInv /\ [Next]_vars => AnswerInv'
<1> SUFFICES ASSUME AnswerInv, [Next]_vars PROVE AnswerInv'
  OBVIOUS
<1>1. ServerInv'
  BY StepServer DEF AnswerInv
<1>2. AnswersLive' /\ \A d \in Client : ClientInv(d)'
  <2>1. CASE UNCHANGED vars
    <3>1. AnswersLive'
      BY <2>1 DEF vars, clientVars, workerVars, queueVars, AnswerInv, AnswersLive
    <3>2. ASSUME NEW d \in Client PROVE ClientInv(d)'
      <4>1. /\ \A i \in DOMAIN responses : queued(d, i)' <=> queued(d, i)
            /\ written(d)' <=> written(d)
            /\ \A v \in Worker : served(d, v)' <=> served(d, v)
        BY <2>1 DEF vars, workerVars, queueVars, queued, written, served, busy
      <4> QED BY <2>1, <4>1, KeptClient DEF vars, clientVars, workerVars, queueVars, AnswerInv
    <3> QED BY <3>1, <3>2
  <2>2. CASE Next
    BY <2>2, ConnectAnswer, SendAnswer, FinishAnswer, AcceptAnswer, TakeAnswer, RecvAnswer,
       DealNothingAnswer, DealersAnswer, PutMessageAnswer, CloseAnswer,
       GetTaskOutAnswer, OutputAnswer
       DEF Next, main, client_process, output_process
  <2> QED BY <2>1, <2>2
<1> QED BY <1>1, <1>2 DEF AnswerInv

LEMMA AnswerAlways == ASSUME Patient PROVE Spec => []AnswerInv
<1>1. AnswerInv /\ [Next]_vars => AnswerInv'
  BY StepAnswer
<1> QED BY <1>1, InitAnswer, PTL DEF Spec

\* While clients wait for their answers, the descriptors that main, the queues,
\* the workers and the output thread hold are open connections, and each
\* connection has one place only.
THEOREM PatientConnections == ASSUME Patient PROVE Spec => []DescriptorsLive
<1>1. AnswerInv => DescriptorsLive
  BY DEF AnswerInv, ServerInv, Holders, AnswersLive, DescriptorsLive
<1> QED BY <1>1, AnswerAlways, PTL

\* While clients wait for their answers, requests come whole and descriptors do
\* not run out, a client gets the answers to its own requests, in their order.
THEOREM PatientAnswers == ASSUME Patient PROVE Spec => []AnswersRight
<1>1. AnswerInv => AnswersRight
  <2> SUFFICES ASSUME AnswerInv, undisturbed, NEW c \in Client, NEW i \in 1 .. Len(received[c])
               PROVE  i <= Len(requests[c]) /\ received[c][i] = expected(requests[c][i])
    BY DEF AnswersRight
  <2>1. OneAnswer(c) /\ RightAnswer(c)
    BY DEF AnswerInv, ClientInv
  <2>2. received[c] \in Seq(Answer)
    BY DEF AnswerInv, ServerInv, TypeOK
  <2>3. Len(received[c]) \in Nat
    BY <2>2, LenProperties
  <2>4. Len(received[c]) <= Len(requests[c])
    BY <2>1, <2>3 DEF OneAnswer, answered
  <2> QED BY <2>1, <2>3, <2>4 DEF RightAnswer
<1> QED BY <1>1, AnswerAlways, PTL
=============================================================================
