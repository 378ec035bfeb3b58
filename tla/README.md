# A verification project for cloud-computing

The repository holds three course projects. Lab 3 is the one with a protocol:
a key-value store that a coordinator replicates on several participants by
two-phase commit, with recovery of participants that were lost. It is the core
of this project. Lab 2 (an HTTP server with a thread pool) and Lab 1 (a Sudoku
solver with a job pool) are small concurrent programs.

Paths below are relative to `src/`; `coordinator.cc` and the like are in
`Lab3/src/`.

## 1. The system

### Components, their state and operations

| Component | State | Operations | Correct when |
|---|---|---|---|
| Coordinator (`coordinator.cc`, `coordinator.hpp`) | `_TXID`, the log `_lg`, `_cstate`, `_pstate`, `_tmpNum`, `maxTxidTB`, two mutexes, and per participant two pairs of task and result buffers with their `cpLock`s | `Working` (a client's command: `UpdateDB`, `Request`), `Recovery` (`recoveryFromP`, `getRecoveryLeader`, `recoveryFromC`), and per participant `keepAlive`, `pWorking`, `pRecovery` | to a client it is one atomic store; replicas in work agree; who returns is brought up to date |
| Participant (`participant.cc`) | `_TXID`, the log, the database; all in memory | `Working` (receive, `pWorker`, send), `keepAlive` (accept again) | it executes each transaction once and in order |
| KV store (`kv.cc`) | a hash map | `kvSET`, `kvGET`, `kvDELArry` | a command has the effect and the reply of the test script |
| Logger (`logger.cc`) | a map from transaction numbers to entries | `writeLog`, `getLogByTXID`, `chageLogState`, `strToLog`, `logToStr` | every number that recovery asks for has an entry |
| Task exchange (`lock.hpp`) | three semaphores per lock | `pGet`, `pRelease`, `cGet`, `cRelease` | buffers are used by one thread at a time, results are fresh, nobody waits for ever |
| Network (`network.cc`) | a listening and a peer socket, and where a call of `recv` or `recvCommand` stands | `reconnect`, `reaccept`, `send`, `recv`, `sendAndRecv`, `initBind`, `acceptWithoutCloseBind`, `recvCommand`, `sendResult`, `close` | a call returns the whole answer to its own request, or an error; nothing of an earlier call is read by a later one |
| RESP (`parser.cc`, `Network::recvCommand`) | none | format and parse commands, replies, tasks and packets | what is written is what is read, and a command is executed whole or not at all |
| Client program (`main.cc`) | a line and its connection | read a line, connect, send, receive, print | it prints the beginning of an answer to its own command |
| HTTP server (`Lab2/httpserverMy.cc`) | a ring of connections, a ring of responses, six semaphores | accept, worker, output thread | every request is answered on its own connection |
| Job pool (`Lab1/main.cpp`) | the puzzles read, `total`, `Sid`, `shutdown` | reader, worker, join and print | every puzzle is solved once and printed |
| Solver (`Lab1/sudoku_dancing_links.cpp`, `Lab1/neighbor.cpp`) | the matrix of dancing links | `cover`, `uncover`, `solve` | a solution if there is one |

### How the parts of Lab 3 interact

A client's connection is served by the coordinator's work thread, which hands a
task to the `pWorking` threads of all participants (through `_ptaskSem`,
`_pRetSem` and two buffers) and collects their results. A `pWorking` thread
sends the task over the participant's socket and waits for the answer, with a
timeout. An error makes it close the socket and set the participant to
`P_WAITING`; the participant's `keepAlive` thread polls for that state,
reconnects, sets `P_TEMP` and counts it in `_tmpNum`. The recovery thread polls
`_tmpNum`, sets `_cstate` so that clients are turned away, takes both mutexes,
puts everybody who is connected to `P_RECOVERY`, asks for their newest
transaction, and distributes the entries they miss, from the participant that
knows most and then from its own log. Everybody at the same number becomes
`P_WORKING`.

### What is hard here

Three threads per participant share a socket, a state and (two of them) a table
without a lock; the protocol between them is the order of assignments. A commit
counts as done when one participant did it. An answer that is late is an error
to the coordinator but not to the participant. Neither side keeps anything on
disk. Recovery and clients compete for a mutex that is not fair. `PROJECT.json`
lists each hazard at its line, with the properties that watch it.

## 2. Modules

| Module | What it is |
|---|---|
| `KVStore` | commands, replies and the database; `eventParser` as a function of the database |
| `AtomicStore` | what a client is promised: commands take effect one by one, between request and answer, or not at all |
| `Participant` | the participants and their TCP connections; extends `KVStore` |
| `Coordinator` | the coordinator's threads, composed with `Participant`; properties, fairness, and the refinement of `AtomicStore` |
| `CoordinatorInvariant`, `SyncInvariant`, `AgreementInvariant` | the inductive invariants: `IInv` for types, sockets and logs, on top of it `SyncInv` for transaction numbers, and `AgreeInv` and `StoreInv` for what the logs and databases hold while answers are in time |
| `MCCoordinator`, `AckedHistory` | instances for TLC; the second with a history variable that outlives the coordinator |
| `Exchange`, `Rendezvous` | the semaphores, one step each, and the level at which `Coordinator` uses them |
| `HttpServer`, `MCHttpServer` | Lab 2: main, workers, output thread, descriptors, and clients of several manners |
| `BoundedQueue`, `Fifo` | the rings and semaphores of Lab 2, one step each, and the queue that `HttpServer` uses |
| `Resp` | the texts of commands, replies, tasks and packets with their parsers; pieces of a stream |
| `Framing` | packets between coordinator and participants on streams of bytes; refines the link of `Participant` |
| `ClientService` | the client program, and how the work thread accepts, reads and answers |
| `Wire`, `MCWire` | both on one machine, with what the coordinator does in between; the instance for TLC |
| `WireInvariant` | the inductive invariant of `Wire`: streams, the calls at their ends, the reading of a command, whose answer a call is about |
| `JobPool` | Lab 1: reader, workers, `shutdown`, printing; solving is one step |
| `Dance` | Lab 1: the matrix of dancing links and the steps of the search; the table of neighbours and the test of a board |
| `Sudoku`, `MCSudoku` | the pool with a `Dance` in each worker; refines `JobPool`; the instance for TLC |
| `CoordinatorProofs`, `AgreementProofs`, `ExchangeProofs` | the proofs for the protocol of Lab 3 |
| `FramingProofs`, `WireProofs` | the proofs for its connections: texts and packets; commands, calls and the theorems |
| `SudokuProofs`, `BoundedQueueProofs`, `HttpServerProofs` | the proofs for Labs 1 and 2 |

### Correspondence with Lab 3

*Participant.* `link[p]` stands for the connection: `down` (no process),
`listen` (in `reaccept`), `up`, and `half` (the coordinator's end is gone and
the participant has not noticed). `req[p]` and `resp[p]` are the one task or
the one reply in flight: the coordinator never sends a second task on a
connection before it has the first reply, because it closes the connection
otherwise. `PWorking` is `Participant::Working` with `pWorker` and
`eventParser`; `PKeepAlive` is the return of `keepAlive` after an error;
`PCrash` and `PRestart` are the process and the operator who starts it again.

*Coordinator.* Variables carry the names of the source without the underscore.
`wpc` and `rpc` are program counters of the work and recovery threads; `ka`,
`wslot` and `rslot` describe the three threads of a participant. A slot's phase
is where the exchange between two threads stands:

    idle -> posted -> sent -> done -> idle          the answer came
                      sent -> closing -> done       it did not: close, P_WAITING
            posted -> done                          RET_SKIP

A step that no other thread can observe is part of the next step that others
can: all tasks of a round are posted in one step and all results are collected
in one step after the last is there. That this is allowed is what `Exchange`
checks: the buffers are never used by two threads at once, and every result is
collected in the round it was produced for. Polling loops (`sleep` and look
again) are guards. `closing` and `P_WAITING` are two steps because `keepAlive`
looks at the state in between.

*Abstractions.* Keys, values and commands are sequences of words from small
sets. A packet is a record. The number spelled in the text of an
`ASK_DATA_TXID` task is its field `asks`. A reply without content
(`EmptyReply`) leaves the caller's buffer empty, as `sendAndRecv` does.
`PCrash` leaves a reply that was already sent in flight. `CrashCoordinator`
restarts the process at once; the connections become `half`.
Output on the console is left out.

*Exchange.* A program is a sequence of instructions (wait, post, use); the
poster runs `postProgram` and then `collectProgram` for each participant, and a
worker runs its loop. `pWorking` releases its two locks in one order and
`pRecovery` in the other; the constant `TaskFirst` says who is which.

*Transport.* `Coordinator` takes for granted that a connection carries one task
or one reply, whole. `Framing` is the code that has to bring this about:
`down[p]` and `up[p]` are the bytes on their way, and `cx[p]` and `px[p]` are
the calls of `sendAndRecv` and `recv` at the two ends, with the part of a header
or of a content they have. A receive takes any number of the bytes that are
there (`pieces`), and when an end is closed or killed any beginning of what was
on its way may still arrive (`torn`). The coordinator's end of a connection is
`cx[p].open`, the participant's is in `link[p]`. `req` and `resp` are history
variables: the task sent and not executed, the reply sent and not received. No
action reads them; they are what `ImplementsParticipant` compares with the steps
of `Participant`. An empty packet leaves the caller's buffer as it was, and the
first character of a header is looked for by throwing away what is before it,
as in `network.cc:276-289`.

A client of `ClientService` is one line of the client program and its
connection. The byte automaton of `recvCommand` is `headerByte`; its deadline
exists only before the first header is complete, so it is the guard of
`RecvFails`. `Close` closes the listening socket as well as the connection, as
the code does, and thereby cuts off whoever waits for `accept`; if part of the
command was not read (the line end that closes the last word never is) the
connection is reset and the end of the answer may be lost. In `Wire` the work
thread rejects a command before it takes the mutex and refuses an unknown one
after, as `Working` does. What recovery decides is any choice (`recoveryTask`,
`RecoveryEnds`), which is more than `Coordinator` does. A run of letters that
no code looks into counts as one byte.

### Correspondence with Lab 2

`fd` is the process's table of descriptors; numbers are given out lowest first,
as the operating system does, and a page that is opened takes one for ever.
`Connect` is what `listen` lets happen without the program: up to `Backlog`
clients are connected, and may send, before `Accept` takes them. `Accept` needs
a free descriptor; while there is none the call fails, main calls it again, and
the connection stays in `backlog`.
A request is two or three pieces (head, empty line, entity of a POST) and
`recv_buf` keeps what is behind the pieces received last. Pieces have one size;
that is the abstraction under which "the rest of an older message" is exact.
`Dealer` handles at most one request per call, because only one character of
what follows is kept (line 162): `Get_dealer`, `Post_dealer` and `Error_dealer`
end with the answer in `answer[w]`, and `putMessage` queues it. A worker whose
buffer holds an incomplete request stays in `spin`. `output_page` is the write
of the header, the `open` and the `sendfile`; when the `open` fails the client
gets `HeadOnly`, and a patient one waits for the rest for ever. `connections` and `responses` are
sequences with a bound; that the rings with their semaphores implement such
queues is the run `queue`. `Patient` clients wait for each answer (and the rest
of a request has arrived before the next is sent); others may send the end of
their stream at once, but still read. `Segmented` lets a request arrive in
pieces; it is combined with patient clients only, because otherwise the code
reads behind the end of a string, for which a model has no meaning. The count
of requests (`total`) is left out.

### Correspondence with Lab 1

`mpc` is where main is, `wpc[w]` where a worker is. `shutdown` is read in a step
of its own (`Run`), before the mutex is taken (`getJob`, `NoJob`). In `JobPool`
solving is one step and `solution(_)` says what comes out: it is the abstract
pool. `Sudoku` replaces that step by the solver. `dance[w]` is the `Dance` of
the constructor (`newDance`), nodes numbered in the order in which they are
made, and the recursion of `solve` is kept in the record: `pc` says whether
`solve` has been entered, a row is to be tried, or an answer is on its way up,
`stack` holds the rows chosen so far, `row` the node where the loop stands. The links
and sizes are the record `matrix`, made by `newMatrix` from the names of the columns and of the
options in the order of the constructor's loops.
`Choose` takes the column with the fewest rows, `Try` covers the columns of a
row and descends, `GiveUp` uncovers and goes on in the caller. `cover` and
`uncover` are folds over the rows of a column, of `hideRow` and `showRow`, which are folds of
`hide` and `show` over the nodes of a row; `uncover` goes backwards. `Fill` writes
the board from the rows chosen. That workers do not disturb each other's rows is `JobsSeparate`.

## 3. Model checking

| Run | Instance | Question |
|---|---|---|
| `crashes` | 2 participants, one key, two values, commands SET, DEL of two keys, GET and a malformed SET, 2 transactions | do participants that die and return stay invisible to the client? `ImplementsAtomicStore`, `LogAgreement` |
| `faults` | 2 participants, SET, an unknown command and an empty one, all faults, 2 transactions | do the threads keep their discipline under late and lost answers, killed participants and a killed coordinator? `TypeOK`, `SocketExclusive`, `TempCounted`, `WorkingInSync`, `LogComplete`, `NoneLeftBehind`, `CommittedStable` |
| `liveness` | 2 participants, SET and GET, one transaction | is everybody answered, and taken back? `RecoveryNotStarved`, `EveryClientAnswered`, `EverybodyRejoins` |
| `exchange` | 2 participants, one of each kind of worker, rounds modulo 3 | do the semaphores implement the hand-over? |
| `job_pool` | 2 workers, all files of up to 2 lines: boards of four rows, one solved after wrong guesses, one whose givens contradict each other, and a line that is too short | does the solver with its links solve what can be solved, is it the pool, does the program end? `TypeOK`, `JobsSeparate`, `PrintedPrefix`, `MatrixMatches`, `SolutionRight`, `Ends`, `ImplementsPool` |
| `wire` | 1 participant, 2 clients with SET, GET and an unknown command, a value with a `~`, a NUL and a `*` in it, one transaction | do bytes in pieces, timeouts, and killed ends leave commands and answers whole and in their places? `TypeOK`, `NothingLeft`, `WordsWhole`, `FitsCommand`, `ImplementsParticipant`, `AnswerWhole` |
| `queue` | 2 producers, 2 consumers, 2 slots | is it a queue? `RingExclusive`, `ItemsMoveOn`, `ImplementsFifo` |
| `http` | 3 patient clients with a request each (a page, a name, a wrong method), in pieces or whole, 2 workers, a backlog and queues of one, 4 descriptors | do descriptors and answers stay with their clients, and is everybody served? `TypeOK`, `DescriptorsLive`, `AnswersRight`, `EveryRequestAnswered` |
| `timeout_agreement` | 2 participants, two SETs, late answers only | violated: see below |
| `restart_reads` | 2 participants, SET and GET, coordinator restarts | violated: see below |
| `all_solved` | the instance of `job_pool` | violated: see below |
| `http_half_close` | two clients that end their stream after the request | violated: see below |

*Bounds.* `MaxTxid` bounds the transaction numbers: no update is accepted
beyond it, and everything else goes on, so the system neither stops nor loses a
behaviour that does not need one more update. Numbers start at `TXID_START`
(5), so 6 means two transactions: enough for a replica to be ahead or behind by
one and by two, and for the replay of recovery to push more than one entry. Two
participants are enough for a leader and a follower, and for the failure of the
leader in between. Crashes, timeouts and restarts are not counted: they may
happen at every step, for ever. Rounds in `Exchange` are counted modulo 3 so
that a result of the last round differs from one of this round and one not yet
written.

*Fairness.* `FairSpec` assumes that a thread of the coordinator which can go on
does, and the same of a participant that runs: the operating system schedules
all threads. A work thread that waits for a client is not assumed to get one.
Mutexes are assumed not to be fair: weak fairness of recovery does not hold for
a lock that is taken and released again and again. Nothing has to crash or to
be restarted. `EveryClientAnswered` and `EverybodyRejoins` ask that crashes
come to an end. `Exchange`, `BoundedQueue` and `Sudoku` assume weak fairness of
each thread; in `Sudoku` it is spelled as `[]<>(ended) \/ []<><<moved>>` (a
thread has a step until it has ended), because computing `ENABLED` of a step of
the solver is out of TLC's reach. `Wire` is a safety model: a client that is cut
off by `Close` or stops in the middle of its command really waits, or makes the
work thread wait, for ever. `HttpServer` assumes it of each thread, and that a client which has
all its answers closes its connection in the end; without that, idle connections keep all
workers, and a request on another one waits for ever. That clients connect or send is not
assumed: whoever has sent a request, in the backlog too, is owed the answer. The system may stop (`CHECK_DEADLOCK
FALSE`) when the program of Lab 1 has ended and when no client of Lab 2 wants
anything.

*Bounds of `wire`.* A receive takes what it asked for, as far as it is there,
or one byte less (`MaxLeft`), which splits every header and every content; a
broken connection lets nothing, nine bytes or everything through (`survives`),
which cuts a packet in its content and a command in a header. Lengths are spelled
with two bytes in place of eight (`NumberLen`), which no text of the instance
exceeds. The instance is small: one participant, one transaction, texts of a few
letters. That pieces of any size and any number of participants make no difference is not for it
to show; `WireProofs` proves each of its properties for any constants (section 4).
Clients and participants take turns (`onWire`, `talking`, `nobodyThere`): the
work thread is the only one that touches both, so that an interleaving of bytes
of both sides shows nothing that the turns do not. Clients are symmetric. An
assumption of `MCWire`, evaluated by TLC, is that parsing undoes printing for
every command and every task of the instance.

*Bounds of Labs 1 and 2.* Two workers and two lines let a worker end early while
the other races main for the last puzzle. Boards of four rows have the same
constraints as those of nine (the side of a box is the constant `Base`), wrong
guesses that are taken back, and contradictions that are seen only after two
guesses; that the answers expected by the run are right is checked against
filling in all digits (`SolutionAmongCompletions`). Queues of one slot fill at
once, so that every wait for room happens. In `http` there are fewer workers
than clients: when two are served, the third waits in the queue. Four descriptors
are enough for two connections and one page (which takes two); then `accept` fails, the
third client waits in the backlog until a connection is closed, and another page takes
the last descriptor for ever. Clients are interchangeable and are called by the order in which they
connect (the `CHOOSE` in `Connect`), which is a reduction by symmetry that liveness allows.

### What the violated runs show

`timeout_agreement`: a participant executes a COMMIT but its answer misses the
deadline, and nobody else's arrives. The coordinator does not count the
transaction (`coordinator.cc:292-302`). Reconnected, that participant is ahead;
if another one reconnects first, its number is the coordinator's, it is put to
work, and the next update gets the same number. Then both hold the number with
different commands, and recovery, which compares only numbers
(`coordinator.cc:388`), takes them both for up to date.

`restart_reads`: the coordinator restarts at `TXID_START` while one participant
is behind; if that one connects first, it is up to date for a coordinator that
knows nothing (`coordinator.cc:388`), and a GET is answered without an update
that was acknowledged and that another running participant has.

`all_solved`: workers are started before the file is read, and a worker that
finds no puzzle ends (`Lab1/main.cpp:27-31`). If all end before main has read
everything, the rest is printed as empty lines.

`http_half_close`: the worker closes the descriptor when the client has sent
everything (`httpserverMy.cc:305`), while the answer waits for the output
thread. The next connection gets the same number, and the answer.

Three more faults of Lab 2 are in the model without a run of their own.
`AnswersRight` and `EveryRequestAnswered` set them apart by their hypothesis, the history variable
`undisturbed`, and so they say nothing about them:

- The loop of `Dealer` is entered for any buffer that contains `HTTP/1.1` and left only
  with a complete request, and nothing is received inside it: a worker that receives half a
  request spins for ever (lines 136, 139, 160), and the request is never answered.
- A POST whose entity is still on its way is completed with the entity of an older
  request, of another client perhaps, that lies behind it in the buffer (lines 133, 282, 293).
- Pages are opened by lines 86 and 328 and never closed. When no descriptor is left for
  the first time, an existing page is not found; for the second, "200 OK" is sent without
  the page. The client waits for it for ever and keeps its worker and its descriptor, and in the end
  those in the backlog wait for ever too. As long as that does not happen, they do not: a
  connection that ends gives its own descriptor back, whatever pages keep.

## 4. Proofs

`CoordinatorProofs` proves for every number of participants, every set of
commands, every bound and all faults that

- `Invariant`: `Spec => []IInv`;
- `TypeCorrect`, `SocketSafety`, `LogCompleteness`: `TypeOK`,
  `SocketExclusive` and `LogComplete` always hold;
- `CommittedStability`: `CommittedStable`, an action property.

*Why `SocketExclusive` needs an invariant.* No lock protects the socket. A
thread uses it when its slot is `sent` or `closing`. Two threads of a
participant are never there together because a slot is used only where the
poster's program counter says so (`SlotUse`), the poster holds
`_workingMutex` there (`Locks`), and a thread goes on only if it found its own
state in the table, which nobody changes meanwhile (`ActiveState`). That
recovery alone sets the table relies on the participants in `maxTxidTB` being
in `P_RECOVERY` (`Table`). `LogComplete` rests on what the messages carry:
the log that a leader sends is an entry a participant has committed (`Channel`,
`Result`, `ParticipantLog`), and it is taken only if its number is the next
(`CoordinatorLog`). `Progress` bounds the numbers that recovery works with.
`IInv` is their conjunction, with one copy of the per-participant part for each
participant; TLC confirmed it, and `SyncInv`, on the instance of `faults`.

`AgreementProofs` proves, under the same generality, `TempCounted`, `WorkingInSync`
and `NoneLeftBehind` (`TempCounting`, `InSync`, `NobodyLeftBehind`), from the
invariant `IInv /\ SyncInv` (`SyncInvariance`).

*Why they need an invariant.* Between the moment a participant executes a
transaction and the moment the coordinator counts it, the two numbers differ, and
a late answer, a crash or a lost leader may come in between. `SyncInv` says by how
much, at every point of the program: a participant in work has the number
`WorkNumber` (`WorkSync`), one in recovery that of the table plus the entry whose
answer is on its way (`TableSync`). That all who commit agree on whether a command
counts is no matter of luck: whether `eventParser` refuses it does not depend on
the database (`Execution`), so `CommitSync` can say it of the command alone. The
round of recovery never loses anybody because the log entries it pushes are
executable (`ValidLog`, `ValidCoordinatorLog`), start no later than the first entry
somebody lacks (`Distribution`), and reach everybody before the next
(`RecoverySync`, `fedUpTo`). `AskNextSync` holds the argument why a leader that
handed out its last entry is where the coordinator is and nobody is ahead of it,
and `LeaderLostSync` that a leader which did not answer is no longer at work.
`Counted` relates `_tmpNum` to the set of reconnected participants.

`ExchangeProofs` proves for any number of participants and rounds, whichever of
its locks a worker releases first, that `TypeOK`, `BuffersExclusive` and
`FreshResult` always hold (`ExchangeTyped`, `BufferSafety`, `ResultsFresh`) and
that the six semaphores implement the hand-over (`ExchangeImplements`): the step
from the level of semaphores to that of `Coordinator`'s slots. The invariant is
`ExchangeInv`. `pos(p)` places the poster within the round as participant `p`
sees it; `Phase` says that task and result alternate, `Counts` that the other
semaphores count what follows from where the two threads are, and `Buffers` what
the buffers hold meanwhile. Each of the eight kinds of step is proved once for
the participant it concerns and once for the others, which it leaves alone.

`AgreementProofs` also proves the two properties of the run `crashes`, `LogAgreement`
and `ImplementsAtomicStore`, for any number of participants and any commands, under the two
hypotheses that the run gives its constants: no answer is late (`~Timeouts`) and
the coordinator lives (`~CoordinatorCrash`). They cannot be dropped:
`timeout_agreement` and `restart_reads` show what happens without. Participants
still die and return at any step, and commands, replies and connections are lost with them.

*The argument.* While answers are in time the coordinator closes its end of a
connection only when the participant is dead, so whoever is not connected is new
(`Fresh`), nobody in recovery is ahead of the coordinator (`NotAhead`), and no
round of recovery has a leader: the branches `ask` and `push` are not reached
(`AgreeInv`). The numbers in work may differ by one, for the transaction whose
answers are being collected (`justCommitted`). At the moment it is counted, every
participant that is still there and has the number has the command (`Agrees`), because
`eventParser` refuses a command everywhere or nowhere.
`StoreInv` says what a database is: that of the coordinator's committed log up to the
participant's number (`KvSync`), and what an answer under way says (`AnswerSync`). The abstract database
`committedDB` is a recursive function over the log; that it depends only on the
entries below its argument (`SameDB`), and that it is a database (`SomeDB`,
`CommittedDB`), are inductions. The induction theorems of the library cannot be
used (their premise is an operator), so these are proved by least counterexample
from `WFMin` and `NatLessThanWellFounded` (`LeastNumber`).

`FramingProofs` and `WireProofs` prove every property of the run `wire` for any
number of participants and clients, any commands, any spelling of words that tells
them apart, any length of a header, and streams that are cut anywhere
(`WireTypeCorrect`, `NothingIsLeft`, `CommandsAreWhole`, `AnswersFit`,
`AnswersAreWhole`). `WireImplementsParticipant` closes the gap below the
coordinator: its theorems are about links that carry one whole task or reply, and
packets on byte streams implement such links.

*The argument.* `WireInv` says of every stream that what was read of it and what is
still on its way are together the text that was sent (`taskPacket`, `replyPacket`,
`commandBytes`), or, once an end is closed or killed, the beginning of it
(`Carries`). So a header that is complete spells the length that was sent, and
content of that length is all of it. That an answer is never taken for that of another
call is `CoordinatorEnd`: a call that failed leaves only by closing, and where nobody
reads (`quiet`) nothing is on its way. Of `recvCommand`, `HasRead` says where in
the text of the command the automaton stands and what it has made of it; the
line end that closes a word's content is read with the next word, if there is one. `SlotInv` says whose task
a thread has, so that a result collected by `Request` or `UpdateDB` is about the command
in the work thread's hands, and `ClientInv` that an answer on its way to a client is to its own
command, even when that client left and another took its place.
The invariant was confirmed by TLC on the instance of `wire` before it was proved, and by
simulation with two participants.

That parsing undoes printing is not assumed: `Strtol` (decimal numbers),
`ParseArray` (a RESP array), `ReadParts` (the two lines of a task) and `LengthBack`
(a length below `place[NumberLen]` is read back from its bytes)
are inductions over the digits, words or bytes of a text. They rest on `Induction`, for a set of
numbers in place of an operator and again by least counterexample, and on `Recursion`, that a
recursive function on `0 .. n` exists.

For Lab 1, `SudokuProofs` proves of `JobPool` `TypeOK` (`PoolTyped`), `JobsSeparate`
(`JobsKeptApart`) and `PrintedPrefix` (`PrintedRight`) for any number of workers and any file. The
invariant behind them is `Handled`: a puzzle handed out is solved or in the hands of
exactly one worker, and one not handed out has no answer.

Of `Sudoku`, in which the workers search step by step, it proves
`MatrixMatches` (`LinksAreRight`), `SolutionRight` (`SolutionsAreRight`) and `JobsSeparate`
(`SearchesKeptApart`), for any puzzles, any number of workers and boards with boxes of side 2
and 3; three is the program's.

*Why the links are restored.* While a node is out of its column, its own links still
point to where it was. Putting it back directly after it was taken out therefore
restores everything (`ShowUndoesHide`); in any other order it would not. The proof
says what is linked at any moment: `Linked(m, K, J, F)`, that the columns `F` form a ring
with the root, that each of them is a ring with exactly the nodes of options all of whose
columns are in `F`, in the order of the nodes, and that the sizes count them. A ring in
order is determined by its nodes (`RingUnique`), so a loop along it visits what the
code means it to (`WalkRing`), also while the loop's own steps change other rings.
`Cover` is the invariant of the two nested loops of `cover`: it takes one column out of `F`, and
`uncover` gives back not an equivalent matrix but the same one. `CoverOption` repeats
that over an option, uncovering from right to left. The search keeps a `Trail`: for every call
of `solve` that has not returned, the matrix it was called with. Each of them is
`Linked`, and the next is what covering a column and an option makes of it; going
down adds a matrix, giving up goes back to the last one. That there is such a trail is
the invariant `Searches`. It needs the matrix that the constructor makes to be `Linked`
(`NewMatrix`). The constructor's loops name the columns and the options in order, each
column once (`NodesLaidOut`), for any board, also one whose givens contradict each other.

*Why a solution is one.* When no column is left, the options on the stack cover every
column exactly once (`SearchCovers`), and what `solve` reads off a node, whichever of the
four it is, is the cell and the digit of its option (`Decoded`). So every blank gets one digit,
and every digit that is not given in a unit gets one cell (`ExactlyCovered`). Hence each unit
has every digit, by a given or by an option, and as it has no more cells than there are
digits, it has each once: the test `solved` passes (`FillSolves`). Givens are never
checked against each other, and need not be: a unit with a digit given twice has
too few blanks for the digits that are missing, and the search fails.

For Lab 2, `BoundedQueueProofs` proves for any number of producers, consumers and slots
`RingExclusive` (whoever is between the two operations on the mutex is alone,
because the semaphore counts zero exactly while somebody holds it), `TypeOK`
(`QueueTypeCorrect`) and `ImplementsFifo` (`QueueIsFifo`). The invariant `QueueInv`
counts: every slot is free, filled, or kept for one thread between its wait and
its post, so `fill` is ahead of `use` by what is filled, modulo the size. `Fifo` takes or
puts an element in one step; which of the steps of the ring that is, and that the other
steps change nothing a user of the queue can see, is the refinement.

`HttpServerProofs` proves `TypeOK` for the server as it is (`HttpTyped`), with the
invariant `ServerInv`: main, the queue and the workers hold descriptors of clients, no two the
same (`Holders`), and a client has one descriptor (`OneDescriptor`). For `Patient` clients it proves
`DescriptorsLive` and `AnswersRight` (`PatientConnections`, `PatientAnswers`);
`http_half_close` shows that other clients can get foreign answers. The code does not
count how many answers of a connection are under way; the invariant `AnswerInv` says why it need not:
the one request of a client without an answer is in one place at most (`OneAnswer`): on its way,
with the worker, in the queue, or with the output thread (nowhere, when the client has got the head
of a page without the page, and then it asks for nothing more). So when a client has closed, nothing
of it is queued, and its descriptor can be given away. `RightAnswer`, which holds while
`undisturbed`, says what is in each of these places: `pieces` of the client's last
request, or the answer `expected` for it, whatever older pieces lie behind in the buffer.

*Layout.* `CoordinatorProofs` types `eventParser`, then has the actions of
one participant and its threads, each with the lemma that what belongs to other
participants stays (`OtherParticipant`) and that a step of one thread cannot
disturb the rest (`LocalStep`), then those of work and
recovery and the theorems. `AgreementProofs` goes through the same actions once more for `SyncInv`,
with `RoundSync` for what all steps of a round have in common, and
a third time for the logs, and then for the databases and the abstract step.
`FramingProofs` has the texts, then what a cut stream may still carry, then the actions of
`Framing`, each of which changes one connection (`OneConnection`); `WireProofs` has the automaton
that reads a command, the actions of `ClientService`, those of `Wire`, and the theorems.
`SudokuProofs` has the pool, then folds and rings, the steps of `cover`, the search, the
constructor, the end of the search and, last, the threads.
`HttpServerProofs` goes through the actions for `ServerInv` and then for
`AnswerInv`, with `KeptClient` and `OtherClient` for clients that a step does not
concern. TLC confirmed every invariant on the instance of its run before it was proved.

*Assumptions.* Those of the constants (`NilAssumption`,
`CommandAssumption`, `PNumAssumption`, `MaxTxidAssumption`, `NoneAssumption`,
`SwitchAssumption`, and in the other modules `ExchangeAssumption`,
`PuzzleAssumption`, `DigitsAssumption`, `SolutionAssumption`, `MaxLinesAssumption`, `SizeAssumption`,
`ThreadAssumption`, `FiniteAssumption`, `BaseAssumption`, `NeighborAssumption`,
`RequestAssumption`, `ClientAssumption`, `BoundAssumption`, `NumberLenAssumption`,
`SpellingAssumption`, `NoClientAssumption`, `CutOffAssumption`, `NothingAssumption`,
`FitsAssumption`), which TLC evaluates in
the runs, and the hypotheses named above, which the instances of the runs satisfy:
`Timeouts` and `CoordinatorCrash` are FALSE in `crashes`, `Patient` is TRUE in `http`.
`BaseAssumption` is that a box has side 2 or 3: the program's is 3, and names of columns are
made of decimal digits, so there is no room for more. `DigitsAssumption` is what `input` asserts
of every line (`sudoku_dancing_links.cpp:268`). `SpellingAssumption` is that different words of commands have different bytes,
`CutOffAssumption` that a command which is cut off, and executed, still names keys and
values where a whole one does, and `FitsAssumption` that the texts of tasks and replies
are shorter than 256 to the power of `NumberLen`, which every text that fits
into memory is with the 8 bytes of the source.

*Only model-checked.* Liveness (outside TLAPS) and with it `ImplementsPool`, whose
abstract pool is fair: that a search ends, and that it fails only if the puzzle
has no solution, is checked on boards of four rows. Every invariant that a passing run checks
is the statement of a theorem, with one reservation: `TypeOK` and `PrintedPrefix` of the pool are
proved of `JobPool`, where solving is one step. The run `job_pool` checks them of the pool with the
solver in its place; what links the two is `ImplementsPool`, which is model-checked only.

## 5. Not modelled

Concurrent access to the tree of `std::map maxTxidTB` (a corrupted tree has no
meaning at this level); start-up and configuration (`conf.cc`, `main.cc` but for
the client program), which run once before any thread; the vendored hash map and
the sockets of `ossSocket`, which are external and modelled by what their callers
see; the two parsers that only tests call (`parserIntergerMessage`,
`parserSuccessMessage`); test programs and scripts. In Lab 2 the text of URLs,
headers and pages, messages that fill the buffer, the count of requests, two
requests that arrive together from a client that does not wait, and clients that
vanish (a write to a connection that was reset ends the process). In Lab 3 a
client that stops in the middle of its command makes the work thread wait for
ever (`network.cc:75`): the model has that state, and no property denies it.

## 6. Plan

1. Done: `KVStore`, `Participant`, `Coordinator`, `AtomicStore`, `Exchange`,
   and the first theorems.
2. Done: `HttpServer`, `BoundedQueue`, `JobPool`, with the first proofs.
3. Done: `Dance` and `Sudoku` (Lab 1), `Resp`, `Framing`, `ClientService` and
   `Wire` (Lab 3), and the proofs of `Exchange` and of the transaction numbers.
4. Done: `LogAgreement` and the refinement of `AtomicStore` with answers in time
   (`AgreementProofs`), the refinement of `Fifo`, and patient clients of the HTTP
   server (`HttpServerProofs`).
5. Done: the connections of Lab 3 from bytes to commands (`FramingProofs`,
   `WireProofs`), without taking the parsers on trust.
6. Done: the links of the solver at every depth of the search, and that its
   solutions are solutions (`SudokuProofs`).
7. Open: that the solver fails only where there is no solution (the half of
   `ImplementsPool` that is a safety property).
