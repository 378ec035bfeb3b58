----------------------------- MODULE BoundedQueue -----------------------------
(***************************************************************************)
(* The two queues of the HTTP server of Lab 2, each a ring guarded by      *)
(* three semaphores: that of connections (main puts, workers get) and that *)
(* of responses (workers put, the output thread gets).  Every semaphore    *)
(* operation, the access to the ring and the move of its index are steps.  *)
(***************************************************************************)
EXTENDS Integers, Sequences, FiniteSets

CONSTANTS
    Size,       \* of the ring
    Producer,   \* the threads that put
    Consumer,   \* the threads that get
    Item,       \* connections, or responses
    None        \* no item

ASSUME SizeAssumption == Size \in Nat \ {0}
ASSUME ThreadAssumption == Producer \cap Consumer = {}
ASSUME FiniteAssumption == IsFiniteSet(Producer) /\ IsFiniteSet(Consumer)
ASSUME NoneAssumption == None \notin Item

Slot == 0 .. Size - 1
Thread == Producer \cup Consumer

VARIABLES
    ring,     \* Connections, or opt
    fill,     \* semFill, the slot to write next
    use,      \* semUse, the slot to read next
    sem,      \* the semaphores empty, full and mutex
    pc,       \* pc[t]: the next instruction of t
    item      \* item[t]: what t puts, or has got

vars == <<ring, fill, use, sem, pc, item>>

wait(s) == <<"wait", s>>
post(s) == <<"post", s>>
act(a)  == <<"act", a>>

\* Mutant: the mutex is taken before there is room.
putMutexFirst == <<act("offer"), wait("mutex"), wait("empty"), act("write"), act("advanceFill"),
                   post("mutex"), post("full")>>
putProgram == <<act("offer"), wait("empty"), wait("mutex"), act("write"), act("advanceFill"),
                post("mutex"), post("full")>>

\* Mutant: an item is taken without the mutex.
getUnlocked == <<wait("full"), act("read"), act("advanceUse"), post("empty"), act("deal")>>
getProgram == <<wait("full"), wait("mutex"), act("read"), act("advanceUse"),
                post("mutex"), post("empty"), act("deal")>>

program(t) == IF t \in Producer THEN putProgram ELSE getProgram
at(t) == program(t)[pc[t]]

\* Mutants: the index runs past the end, or stays where it is.
slotPastEnd(i) == (i + 1) % (Size + 1)
sameSlot(i) == i
nextSlot(i) == (i + 1) % Size

\* Mutant: room for one more than there are slots.
roomForOneMore == Size + 1
room == Size

Init ==
    /\ ring = [s \in Slot |-> None]
    /\ fill = 0
    /\ use = 0
    /\ sem = [empty |-> room, full |-> 0, mutex |-> 1]
    /\ pc = [t \in Thread |-> 1]
    /\ item = [t \in Thread |-> None]

Advance(t) == pc' = [pc EXCEPT ![t] = (@ % Len(program(t))) + 1]

Wait(t) ==
    /\ \E s \in DOMAIN sem : at(t) = wait(s) /\ sem[s] > 0
                                /\ sem' = [sem EXCEPT ![s] = @ - 1]
    /\ Advance(t)
    /\ UNCHANGED <<ring, fill, use, item>>

Post(t) ==
    /\ \E s \in DOMAIN sem : at(t) = post(s) /\ sem' = [sem EXCEPT ![s] = @ + 1]
    /\ Advance(t)
    /\ UNCHANGED <<ring, fill, use, item>>

\* A producer has something to put.
Offer(t) ==
    /\ at(t) = act("offer")
    /\ \E i \in Item : item' = [item EXCEPT ![t] = i]
    /\ Advance(t)
    /\ UNCHANGED <<ring, fill, use, sem>>

\* putTask: the slot, then the index.
Write(t) ==
    /\ at(t) = act("write")
    /\ ring' = [ring EXCEPT ![fill] = item[t]]
    /\ item' = [item EXCEPT ![t] = None]
    /\ Advance(t)
    /\ UNCHANGED <<fill, use, sem>>

AdvanceFill(t) ==
    /\ at(t) = act("advanceFill")
    /\ fill' = nextSlot(fill)
    /\ Advance(t)
    /\ UNCHANGED <<ring, use, sem, item>>

\* getTask.
Read(t) ==
    /\ at(t) = act("read")
    /\ item' = [item EXCEPT ![t] = ring[use]]
    /\ Advance(t)
    /\ UNCHANGED <<ring, fill, use, sem>>

AdvanceUse(t) ==
    /\ at(t) = act("advanceUse")
    /\ use' = nextSlot(use)
    /\ Advance(t)
    /\ UNCHANGED <<ring, fill, sem, item>>

\* A consumer has dealt with what it got.
Deal(t) ==
    /\ at(t) = act("deal")
    /\ item' = [item EXCEPT ![t] = None]
    /\ Advance(t)
    /\ UNCHANGED <<ring, fill, use, sem>>

step(t) == \/ Wait(t) \/ Post(t) \/ Offer(t) \/ Write(t) \/ AdvanceFill(t)
           \/ Read(t) \/ AdvanceUse(t) \/ Deal(t)

Next == \E t \in Thread : step(t)

\* Producers need not come, but a thread inside of a put or a get goes on.
Spec == Init /\ [][Next]_vars /\ \A t \in Thread : WF_vars(step(t) /\ at(t) # act("offer"))

-----------------------------------------------------------------------------
\* Every variable has its type: indices stay in the ring, and no semaphore
\* counts more than there are slots.
TypeOK ==
    /\ ring \in [Slot -> Item \cup {None}]
    /\ fill \in Slot
    /\ use \in Slot
    /\ sem \in [empty : 0 .. Size, full : 0 .. Size, mutex : 0 .. 1]
    /\ pc \in [Thread -> 1 .. 7]
    /\ item \in [Thread -> Item \cup {None}]

\* At most one thread is between the two operations on the mutex: the indices
\* and the slots are never touched by two at once (httpserverMy.cc:265-270,
\* 285-289, 313-317, 475-480).
inside(t) == at(t) \in {act(a) : a \in {"write", "advanceFill", "read", "advanceUse"}}
RingExclusive == \A t, u \in Thread : inside(t) /\ inside(u) => t = u

\* Whatever waits in the ring is taken in the end, and no thread keeps the
\* others out for ever.
ItemsMoveOn == \A s \in Slot : use = s /\ sem.full > 0 ~> use # s

(***************************************************************************)
(* The queue as the rest of the server sees it.  An item is in the queue   *)
(* from the write of its slot to the read.                                 *)
(***************************************************************************)
written(t) == t \in Producer /\ pc[t] > 4
claimed(t) == t \in Consumer /\ pc[t] \in {2, 3}

waiting == sem.full + Cardinality({t \in Thread : written(t) \/ claimed(t)})
first == IF \E t \in Consumer : at(t) = act("advanceUse") THEN use + 1 ELSE use

F == INSTANCE Fifo WITH
        queue <- [i \in 1 .. waiting |-> ring[(first + i - 1) % Size]],
        offer <- [p \in Producer |-> item[p]],
        got   <- [c \in Consumer |-> item[c]]

\* No item is lost, overwritten before it was read, handed out twice or out of
\* order.
ImplementsFifo == F!FSpec
=============================================================================
