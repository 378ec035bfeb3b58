-------------------------- MODULE BoundedQueueProofs --------------------------
(***************************************************************************)
(* Of BoundedQueue, for any number of threads and any size: mutual         *)
(* exclusion on the ring, the invariant of its slots and counts, and the   *)
(* refinement of Fifo.                                                     *)
(***************************************************************************)
EXTENDS BoundedQueue, FiniteSetTheorems, SequenceTheorems, TLAPS

\* Who has taken the mutex and not given it back.
holds(t) == IF t \in Producer THEN pc[t] \in 4 .. 6 ELSE pc[t] \in 3 .. 5

MutexInv ==
    /\ pc \in [Thread -> 1 .. 7]
    /\ sem \in [{"empty", "full", "mutex"} -> Int]
    /\ sem["mutex"] \in {0, 1}
    /\ \A t \in Thread : holds(t) => sem["mutex"] = 0
    /\ \A t, u \in Thread : holds(t) /\ holds(u) => t = u

\* Where the instructions are.
LEMMA Programs ==
  ASSUME NEW t \in Thread, pc[t] \in 1 .. 7
  PROVE  /\ Len(program(t)) = 7
         /\ at(t) = wait("mutex") => pc[t] = (IF t \in Producer THEN 3 ELSE 2)
         /\ at(t) = post("mutex") => pc[t] = (IF t \in Producer THEN 6 ELSE 5)
         /\ inside(t) => holds(t)
         /\ at(t) # wait("mutex") => pc[t] # (IF t \in Producer THEN 3 ELSE 2)
         /\ at(t) # post("mutex") => pc[t] # (IF t \in Producer THEN 6 ELSE 5)
<1>1. CASE t \in Producer
  <2>1. program(t) = putProgram /\ Len(putProgram) = 7
    BY <1>1 DEF program, putProgram
  <2>2. /\ putProgram[1] = act("offer") /\ putProgram[2] = wait("empty")
        /\ putProgram[3] = wait("mutex") /\ putProgram[4] = act("write")
        /\ putProgram[5] = act("advanceFill") /\ putProgram[6] = post("mutex")
        /\ putProgram[7] = post("full")
    BY DEF putProgram
  <2> QED BY <1>1, <2>1, <2>2 DEF at, wait, post, act, inside, holds
<1>2. CASE t \notin Producer
  <2>1. program(t) = getProgram /\ Len(getProgram) = 7
    BY <1>2 DEF program, getProgram
  <2>2. /\ getProgram[1] = wait("full") /\ getProgram[2] = wait("mutex")
        /\ getProgram[3] = act("read") /\ getProgram[4] = act("advanceUse")
        /\ getProgram[5] = post("mutex") /\ getProgram[6] = post("empty")
        /\ getProgram[7] = act("deal")
    BY DEF getProgram
  <2> QED BY <1>2, <2>1, <2>2 DEF at, wait, post, act, inside, holds
<1> QED BY <1>1, <1>2

LEMMA InitMutex == Init => MutexInv
BY SizeAssumption DEF Init, MutexInv, room, holds, Thread

LEMMA StepMutex == ASSUME MutexInv, NEW t \in Thread, step(t) PROVE MutexInv'
<1>1. pc[t] \in 1 .. 7 /\ Len(program(t)) = 7
  BY Programs DEF MutexInv
<1>2. /\ pc' = [pc EXCEPT ![t] = (@ % 7) + 1]
      /\ pc' \in [Thread -> 1 .. 7]
  <2>1. Advance(t)
    BY DEF step, Wait, Post, Offer, Write, AdvanceFill, Read, AdvanceUse, Deal
  <2> QED BY <1>1, <2>1 DEF Advance, MutexInv
<1>3. \A u \in Thread : u # t => (holds(u)' <=> holds(u))
  BY <1>2 DEF holds, MutexInv
<1>4. pc'[t] = IF pc[t] = 7 THEN 1 ELSE pc[t] + 1
  BY <1>1, <1>2 DEF MutexInv
<1>5. CASE at(t) = wait("mutex")
  <2>1. sem["mutex"] > 0 /\ sem' = [sem EXCEPT !["mutex"] = @ - 1]
    BY <1>5 DEF step, Wait, Post, Offer, Write, AdvanceFill, Read, AdvanceUse, Deal,
                wait, post, act
  <2>2. sem["mutex"] = 1 /\ sem'["mutex"] = 0
    BY <2>1 DEF MutexInv
  <2>3. \A u \in Thread : ~holds(u)
    BY <2>2 DEF MutexInv
  <2>4. sem' \in [{"empty", "full", "mutex"} -> Int]
    BY <2>1 DEF MutexInv
  <2> QED BY <1>2, <1>3, <2>2, <2>3, <2>4 DEF MutexInv
<1>6. CASE at(t) = post("mutex")
  <2>1. sem' = [sem EXCEPT !["mutex"] = @ + 1]
    BY <1>6 DEF step, Wait, Post, Offer, Write, AdvanceFill, Read, AdvanceUse, Deal,
                wait, post, act
  <2>2. holds(t) /\ ~holds(t)'
    BY <1>1, <1>4, <1>6, Programs DEF holds
  <2>3. sem'["mutex"] = 1
    BY <2>1, <2>2 DEF MutexInv
  <2>4. \A u \in Thread : ~holds(u)'
    BY <1>3, <2>2 DEF MutexInv
  <2>5. sem' \in [{"empty", "full", "mutex"} -> Int]
    BY <2>1 DEF MutexInv
  <2> QED BY <1>2, <2>3, <2>4, <2>5 DEF MutexInv
<1>7. CASE at(t) # wait("mutex") /\ at(t) # post("mutex")
  <2>1. sem'["mutex"] = sem["mutex"] /\ sem' \in [{"empty", "full", "mutex"} -> Int]
    <3>1. CASE UNCHANGED sem
      BY <3>1 DEF MutexInv
    <3>2. CASE Wait(t)
      <4>1. PICK s \in DOMAIN sem : at(t) = wait(s) /\ sem' = [sem EXCEPT ![s] = @ - 1]
        BY <3>2 DEF Wait
      <4> QED BY <1>7, <4>1 DEF MutexInv
    <3>3. CASE Post(t)
      <4>1. PICK s \in DOMAIN sem : at(t) = post(s) /\ sem' = [sem EXCEPT ![s] = @ + 1]
        BY <3>3 DEF Post
      <4> QED BY <1>7, <4>1 DEF MutexInv
    <3> QED BY <3>1, <3>2, <3>3 DEF step, Offer, Write, AdvanceFill, Read, AdvanceUse, Deal
  <2>2. holds(t)' <=> holds(t)
    BY <1>1, <1>4, <1>7, Programs DEF holds
  <2> QED BY <1>2, <1>3, <2>1, <2>2 DEF MutexInv
<1> QED BY <1>5, <1>6, <1>7

LEMMA MutexInvariant == Spec => []MutexInv
<1>1. MutexInv /\ [Next]_vars => MutexInv'
  <2> SUFFICES ASSUME MutexInv, [Next]_vars PROVE MutexInv'
    OBVIOUS
  <2>1. CASE UNCHANGED vars
    BY <2>1 DEF vars, MutexInv, holds
  <2> QED BY <2>1, StepMutex DEF Next
<1> QED BY <1>1, InitMutex, PTL DEF Spec

\* No two threads touch the ring or its indices at once
\* (httpserverMy.cc:265-270, 285-289), although the mutex is a semaphore that
\* anybody could post.
THEOREM MutualExclusion == Spec => []RingExclusive
<1>1. MutexInv => RingExclusive
  BY Programs DEF MutexInv, RingExclusive
<1> QED BY <1>1, MutexInvariant, PTL

-----------------------------------------------------------------------------
(***************************************************************************)
(* The slots and the counts                                                *)
(***************************************************************************)
\* Who has an item in the ring that sem.full does not count.
inRing == {t \in Thread : written(t) \/ claimed(t)}
\* Who has a slot without an item that sem.empty does not count.
promised(t) == IF t \in Producer THEN pc[t] \in {3, 4} ELSE pc[t] \in {4, 5, 6}
promises == {t \in Thread : promised(t)}

\* The i-th item that waits is in slot(i); the next one goes to the slot end.
slot(i) == (first + i - 1) % Size
end == IF \E t \in Producer : at(t) = act("advanceFill") THEN fill + 1 ELSE fill

hasItem(t) == IF t \in Producer THEN pc[t] \in 2 .. 4 ELSE pc[t] \in 4 .. 7

QueueTypes ==
    /\ ring \in [Slot -> Item \cup {None}]
    /\ fill \in Slot
    /\ use \in Slot
    /\ sem["empty"] >= 0 /\ sem["full"] >= 0
    /\ item \in [Thread -> Item \cup {None}]

\* Every slot has an item, is free, or is kept for the thread that is about to
\* write it or has read it.
Counts == waiting + sem["empty"] + Cardinality(promises) = Size

\* The indices are as far apart as there are items between them.
Ends == end % Size = slot(waiting + 1)

Slots == \A i \in 1 .. waiting : ring[slot(i)] \in Item
InHand == \A t \in Thread : item[t] \in (IF hasItem(t) THEN Item ELSE {None})

QueueInv == MutexInv /\ QueueTypes /\ Counts /\ Ends /\ Slots /\ InHand

\* At most twice around the ring.
LEMMA Wrap ==
  ASSUME NEW k \in 0 .. 2 * Size
  PROVE  k % Size = (IF k < Size THEN k ELSE IF k < 2 * Size THEN k - Size ELSE 0)
<1>1. Size \in Nat \ {0}
  BY SizeAssumption
<1>2. CASE k < Size
  BY <1>1, <1>2
<1>3. CASE k >= Size /\ k < 2 * Size
  BY <1>1, <1>3
<1>4. CASE k = 2 * Size
  BY <1>1, <1>4
<1> QED BY <1>1, <1>2, <1>3, <1>4

LEMMA FiniteThreads == IsFiniteSet(Thread)
BY FiniteAssumption, FS_Union DEF Thread

\* The number of members when one thread may have joined or left.
LEMMA OneMember ==
  ASSUME NEW S, NEW T, NEW t, IsFiniteSet(S), \A u : u # t => (u \in S <=> u \in T)
  PROVE  Cardinality(T) = Cardinality(S) + (IF t \in T THEN 1 ELSE 0)
                                         - (IF t \in S THEN 1 ELSE 0)
<1>1. Cardinality(S) \in Nat
  BY FS_CardinalityType
<1>2. CASE t \in S <=> t \in T
  <2>1. S = T
    BY <1>2
  <2> QED BY <1>1, <2>1
<1>3. CASE t \in S /\ t \notin T
  <2>1. T = S \ {t}
    BY <1>3
  <2> QED BY <1>1, <1>3, <2>1, FS_RemoveElement
<1>4. CASE t \notin S /\ t \in T
  <2>1. T = S \cup {t}
    BY <1>4
  <2> QED BY <1>1, <1>4, <2>1, FS_AddElement
<1> QED BY <1>2, <1>3, <1>4

\* What the counts of threads are after a step of t.
LEMMA StepCounts ==
  ASSUME pc \in [Thread -> 1 .. 7], NEW t \in Thread, NEW k \in 1 .. 7,
         pc' = [pc EXCEPT ![t] = k]
  PROVE  /\ Cardinality(inRing)' = Cardinality(inRing)
              + (IF written(t)' \/ claimed(t)' THEN 1 ELSE 0)
              - (IF written(t) \/ claimed(t) THEN 1 ELSE 0)
         /\ Cardinality(promises)' = Cardinality(promises)
              + (IF promised(t)' THEN 1 ELSE 0) - (IF promised(t) THEN 1 ELSE 0)
<1>1. \A u : u # t => (u \in inRing <=> u \in inRing')
  BY DEF inRing, written, claimed
<1>2. \A u : u # t => (u \in promises <=> u \in promises')
  BY DEF promises, promised
<1>3. IsFiniteSet(inRing) /\ IsFiniteSet(promises)
  BY FiniteThreads, FS_Subset DEF inRing, promises
<1>4. (t \in inRing' <=> (written(t)' \/ claimed(t)')) /\ (t \in inRing <=> (written(t) \/ claimed(t)))
  BY DEF inRing
<1>5. (t \in promises' <=> promised(t)') /\ (t \in promises <=> promised(t))
  BY DEF promises
<1>6. Cardinality(inRing)' = Cardinality(inRing)
         + (IF t \in inRing' THEN 1 ELSE 0) - (IF t \in inRing THEN 1 ELSE 0)
  BY <1>1, <1>3, OneMember
<1>7. Cardinality(promises)' = Cardinality(promises)
         + (IF t \in promises' THEN 1 ELSE 0) - (IF t \in promises THEN 1 ELSE 0)
  BY <1>2, <1>3, OneMember
<1> QED BY <1>4, <1>5, <1>6, <1>7

\* The steps of a thread by its instruction.
Takes(s) == sem[s] > 0 /\ sem' = [sem EXCEPT ![s] = @ - 1] /\ UNCHANGED <<ring, fill, use, item>>
Gives(s) == sem' = [sem EXCEPT ![s] = @ + 1] /\ UNCHANGED <<ring, fill, use, item>>

ProducerStep(t) ==
    \/ pc[t] = 1 /\ (\E i \in Item : item' = [item EXCEPT ![t] = i]) /\ UNCHANGED <<ring, fill, use, sem>>
    \/ pc[t] = 2 /\ Takes("empty")
    \/ pc[t] = 3 /\ Takes("mutex")
    \/ /\ pc[t] = 4 /\ ring' = [ring EXCEPT ![fill] = item[t]] /\ item' = [item EXCEPT ![t] = None]
       /\ UNCHANGED <<fill, use, sem>>
    \/ pc[t] = 5 /\ fill' = nextSlot(fill) /\ UNCHANGED <<ring, use, sem, item>>
    \/ pc[t] = 6 /\ Gives("mutex")
    \/ pc[t] = 7 /\ Gives("full")

ConsumerStep(t) ==
    \/ pc[t] = 1 /\ Takes("full")
    \/ pc[t] = 2 /\ Takes("mutex")
    \/ pc[t] = 3 /\ item' = [item EXCEPT ![t] = ring[use]] /\ UNCHANGED <<ring, fill, use, sem>>
    \/ pc[t] = 4 /\ use' = nextSlot(use) /\ UNCHANGED <<ring, fill, sem, item>>
    \/ pc[t] = 5 /\ Gives("mutex")
    \/ pc[t] = 6 /\ Gives("empty")
    \/ pc[t] = 7 /\ item' = [item EXCEPT ![t] = None] /\ UNCHANGED <<ring, fill, use, sem>>

\* Which action each instruction is.
LEMMA Instructions ==
  ASSUME NEW t \in Thread, pc[t] \in 1 .. 7
  PROVE  /\ t \in Producer =>
              /\ pc[t] = 1 <=> at(t) = act("offer")
              /\ pc[t] = 2 <=> at(t) = wait("empty")
              /\ pc[t] = 3 <=> at(t) = wait("mutex")
              /\ pc[t] = 4 <=> at(t) = act("write")
              /\ pc[t] = 5 <=> at(t) = act("advanceFill")
              /\ pc[t] = 6 <=> at(t) = post("mutex")
              /\ pc[t] = 7 <=> at(t) = post("full")
         /\ t \notin Producer =>
              /\ pc[t] = 1 <=> at(t) = wait("full")
              /\ pc[t] = 2 <=> at(t) = wait("mutex")
              /\ pc[t] = 3 <=> at(t) = act("read")
              /\ pc[t] = 4 <=> at(t) = act("advanceUse")
              /\ pc[t] = 5 <=> at(t) = post("mutex")
              /\ pc[t] = 6 <=> at(t) = post("empty")
              /\ pc[t] = 7 <=> at(t) = act("deal")
<1>1. CASE t \in Producer
  <2>1. program(t) = putProgram
    BY <1>1 DEF program
  <2>2. /\ putProgram[1] = act("offer") /\ putProgram[2] = wait("empty")
        /\ putProgram[3] = wait("mutex") /\ putProgram[4] = act("write")
        /\ putProgram[5] = act("advanceFill") /\ putProgram[6] = post("mutex")
        /\ putProgram[7] = post("full")
    BY DEF putProgram
  <2> QED BY <1>1, <2>1, <2>2 DEF at, wait, post, act
<1>2. CASE t \notin Producer
  <2>1. program(t) = getProgram
    BY <1>2 DEF program
  <2>2. /\ getProgram[1] = wait("full") /\ getProgram[2] = wait("mutex")
        /\ getProgram[3] = act("read") /\ getProgram[4] = act("advanceUse")
        /\ getProgram[5] = post("mutex") /\ getProgram[6] = post("empty")
        /\ getProgram[7] = act("deal")
    BY DEF getProgram
  <2> QED BY <1>2, <2>1, <2>2 DEF at, wait, post, act
<1> QED BY <1>1, <1>2

LEMMA StepsByInstruction ==
  ASSUME MutexInv, NEW t \in Thread, step(t)
  PROVE  /\ pc' = [pc EXCEPT ![t] = IF pc[t] = 7 THEN 1 ELSE pc[t] + 1]
         /\ t \in Producer => ProducerStep(t)
         /\ t \notin Producer => ConsumerStep(t)
<1>1. pc[t] \in 1 .. 7 /\ Len(program(t)) = 7
  BY Programs DEF MutexInv
<1>2. pc' = [pc EXCEPT ![t] = IF pc[t] = 7 THEN 1 ELSE pc[t] + 1]
  <2>1. Advance(t)
    BY DEF step, Wait, Post, Offer, Write, AdvanceFill, Read, AdvanceUse, Deal
  <2>2. pc' = [pc EXCEPT ![t] = (pc[t] % 7) + 1]
    BY <1>1, <2>1 DEF Advance, MutexInv
  <2>3. (pc[t] % 7) + 1 = IF pc[t] = 7 THEN 1 ELSE pc[t] + 1
    BY <1>1
  <2> QED BY <2>2, <2>3
<1>3. DOMAIN sem = {"empty", "full", "mutex"}
  BY DEF MutexInv
<1>4. \A s : at(t) = wait(s) /\ step(t) => s \in DOMAIN sem /\ Takes(s)
  BY DEF step, Wait, Post, Offer, Write, AdvanceFill, Read, AdvanceUse, Deal, wait, post, act, Takes
<1>5. \A s : at(t) = post(s) /\ step(t) => s \in DOMAIN sem /\ Gives(s)
  BY DEF step, Wait, Post, Offer, Write, AdvanceFill, Read, AdvanceUse, Deal, wait, post, act, Gives
<1>6. \A a : at(t) = act(a) => \/ Offer(t) \/ Write(t) \/ AdvanceFill(t)
                               \/ Read(t) \/ AdvanceUse(t) \/ Deal(t)
  BY DEF step, Wait, Post, wait, post, act
<1>7. CASE t \in Producer
  <2>1. ProducerStep(t)
    BY <1>1, <1>4, <1>5, <1>6, <1>7, Instructions
       DEF ProducerStep, Offer, Write, AdvanceFill, Read, AdvanceUse, Deal, act
  <2> QED BY <1>2, <1>7, <2>1
<1>8. CASE t \notin Producer
  <2>1. ConsumerStep(t)
    BY <1>1, <1>4, <1>5, <1>6, <1>8, Instructions
       DEF ConsumerStep, Offer, Write, AdvanceFill, Read, AdvanceUse, Deal, act
  <2> QED BY <1>2, <1>8, <2>1
<1> QED BY <1>7, <1>8

\* Where the indices stand, by instruction.
IndexView ==
    /\ first = IF \E t \in Consumer : pc[t] = 4 THEN use + 1 ELSE use
    /\ end = IF \E t \in Producer : pc[t] = 5 THEN fill + 1 ELSE fill

LEMMA IndexViews == pc \in [Thread -> 1 .. 7] => IndexView
<1> SUFFICES ASSUME pc \in [Thread -> 1 .. 7] PROVE IndexView
  OBVIOUS
<1>1. ASSUME NEW t \in Consumer PROVE at(t) = act("advanceUse") <=> pc[t] = 4
  BY <1>1, Instructions, ThreadAssumption DEF Thread
<1>2. ASSUME NEW t \in Producer PROVE at(t) = act("advanceFill") <=> pc[t] = 5
  BY <1>2, Instructions DEF Thread
<1> QED BY <1>1, <1>2 DEF IndexView, first, end

LEMMA IndexViewsNext == (pc \in [Thread -> 1 .. 7])' => IndexView'
BY IndexViews, PTL

LEMMA QueueRanges ==
  ASSUME QueueInv
  PROVE  /\ Cardinality(inRing) \in Nat /\ Cardinality(promises) \in Nat
         /\ waiting = sem["full"] + Cardinality(inRing)
         /\ waiting \in 0 .. Size /\ first \in 0 .. Size /\ end \in 0 .. Size
         /\ sem["empty"] \in 0 .. Size /\ sem["full"] \in 0 .. Size
<1>1. Cardinality(inRing) \in Nat /\ Cardinality(promises) \in Nat
  BY FiniteThreads, FS_Subset, FS_CardinalityType DEF inRing, promises
<1>2. waiting = sem["full"] + Cardinality(inRing)
  BY DEF waiting, inRing
<1>3. sem["empty"] \in Int /\ sem["full"] \in Int /\ Size \in Nat \ {0}
  BY SizeAssumption DEF QueueInv, MutexInv
<1>4. waiting + sem["empty"] + Cardinality(promises) = Size /\ sem["empty"] >= 0 /\ sem["full"] >= 0
  BY DEF QueueInv, Counts, QueueTypes
<1>5. fill \in 0 .. Size - 1 /\ use \in 0 .. Size - 1
  BY DEF QueueInv, QueueTypes, Slot
<1>6. first \in 0 .. Size /\ end \in 0 .. Size
  BY <1>3, <1>5 DEF first, end
<1> QED BY <1>1, <1>2, <1>3, <1>4, <1>6

\* An item enters at a write, and leaves at a read.
LEMMA CountsStep ==
  ASSUME QueueInv, NEW t \in Thread, step(t)
  PROVE  /\ Counts' /\ sem'["empty"] >= 0 /\ sem'["full"] >= 0
         /\ waiting' = waiting + (IF t \in Producer /\ pc[t] = 4 THEN 1 ELSE 0)
                               - (IF t \notin Producer /\ pc[t] = 3 THEN 1 ELSE 0)
<1> DEFINE k == IF pc[t] = 7 THEN 1 ELSE pc[t] + 1
<1>1. MutexInv /\ pc \in [Thread -> 1 .. 7] /\ pc[t] \in 1 .. 7 /\ k \in 1 .. 7
  BY DEF QueueInv, MutexInv
<1>2. pc' = [pc EXCEPT ![t] = k] /\ pc'[t] = k
  BY <1>1, StepsByInstruction
<1>3. /\ Cardinality(inRing)' = Cardinality(inRing)
           + (IF written(t)' \/ claimed(t)' THEN 1 ELSE 0)
           - (IF written(t) \/ claimed(t) THEN 1 ELSE 0)
      /\ Cardinality(promises)' = Cardinality(promises)
           + (IF promised(t)' THEN 1 ELSE 0) - (IF promised(t) THEN 1 ELSE 0)
  BY <1>1, <1>2, StepCounts
<1>4. /\ Cardinality(inRing) \in Nat /\ Cardinality(promises) \in Nat
      /\ waiting = sem["full"] + Cardinality(inRing)
      /\ sem["empty"] \in 0 .. Size /\ sem["full"] \in 0 .. Size /\ Size \in Nat
  BY QueueRanges, SizeAssumption
<1>5. waiting' = sem'["full"] + Cardinality(inRing)'
  BY DEF waiting, inRing
<1>6. waiting + sem["empty"] + Cardinality(promises) = Size
  BY DEF QueueInv, Counts
<1>7. sem \in [{"empty", "full", "mutex"} -> Int]
  BY <1>1 DEF MutexInv
<1>8. CASE t \in Producer
  <2>1. t \notin Consumer
    BY <1>8, ThreadAssumption
  <2>2. ProducerStep(t)
    BY <1>1, <1>8, StepsByInstruction
  <2>3. /\ sem'["full"] = IF pc[t] = 7 THEN sem["full"] + 1 ELSE sem["full"]
        /\ sem'["empty"] = IF pc[t] = 2 THEN sem["empty"] - 1 ELSE sem["empty"]
        /\ pc[t] = 2 => sem["empty"] > 0
    BY <1>7, <2>2 DEF ProducerStep, Takes, Gives
  <2>4. /\ written(t)' \/ claimed(t)' <=> k \in 5 .. 7
        /\ written(t) \/ claimed(t) <=> pc[t] \in 5 .. 7
        /\ promised(t)' <=> k \in {3, 4}
        /\ promised(t) <=> pc[t] \in {3, 4}
    BY <1>1, <1>2, <1>8, <2>1 DEF written, claimed, promised
  <2> QED BY <1>1, <1>3, <1>4, <1>5, <1>6, <1>8, <2>3, <2>4 DEF Counts
<1>9. CASE t \notin Producer
  <2>1. t \in Consumer
    BY <1>9 DEF Thread
  <2>2. ConsumerStep(t)
    BY <1>1, <1>9, StepsByInstruction
  <2>3. /\ sem'["full"] = IF pc[t] = 1 THEN sem["full"] - 1 ELSE sem["full"]
        /\ sem'["empty"] = IF pc[t] = 6 THEN sem["empty"] + 1 ELSE sem["empty"]
        /\ pc[t] = 1 => sem["full"] > 0
    BY <1>7, <2>2 DEF ConsumerStep, Takes, Gives
  <2>4. /\ written(t)' \/ claimed(t)' <=> k \in {2, 3}
        /\ written(t) \/ claimed(t) <=> pc[t] \in {2, 3}
        /\ promised(t)' <=> k \in {4, 5, 6}
        /\ promised(t) <=> pc[t] \in {4, 5, 6}
    BY <1>1, <1>2, <1>9, <2>1 DEF written, claimed, promised
  <2> QED BY <1>1, <1>3, <1>4, <1>5, <1>6, <1>9, <2>3, <2>4 DEF Counts
<1> QED BY <1>8, <1>9

\* How the ends of the waiting items move, with the mutex held where they do.
LEMMA EndsStep ==
  ASSUME QueueInv, NEW t \in Thread, step(t)
  PROVE  /\ first' = IF t \notin Producer /\ pc[t] = 3 THEN use + 1
                     ELSE IF t \notin Producer /\ pc[t] = 4 THEN nextSlot(use) ELSE first
         /\ end' = IF t \in Producer /\ pc[t] = 4 THEN fill + 1
                   ELSE IF t \in Producer /\ pc[t] = 5 THEN nextSlot(fill) ELSE end
         /\ t \notin Producer /\ pc[t] = 3 => first = use
         /\ t \notin Producer /\ pc[t] = 4 => first = use + 1
         /\ t \in Producer /\ pc[t] = 4 => end = fill
         /\ t \in Producer /\ pc[t] = 5 => end = fill + 1
<1>1. MutexInv /\ MutexInv' /\ pc[t] \in 1 .. 7 /\ pc \in [Thread -> 1 .. 7] /\ pc' \in [Thread -> 1 .. 7]
  BY StepMutex DEF QueueInv, MutexInv
<1>2. pc' = [pc EXCEPT ![t] = IF pc[t] = 7 THEN 1 ELSE pc[t] + 1]
  BY <1>1, StepsByInstruction
<1>3. /\ first = IF \E u \in Consumer : pc[u] = 4 THEN use + 1 ELSE use
      /\ end = IF \E u \in Producer : pc[u] = 5 THEN fill + 1 ELSE fill
  BY <1>1, IndexViews DEF IndexView
<1>4. /\ first' = IF \E u \in Consumer : pc'[u] = 4 THEN use' + 1 ELSE use'
      /\ end' = IF \E u \in Producer : pc'[u] = 5 THEN fill' + 1 ELSE fill'
  BY <1>1, IndexViewsNext DEF IndexView
<1>5. CASE t \in Producer
  <2>1. t \notin Consumer
    BY <1>5, ThreadAssumption
  <2>2. ProducerStep(t)
    BY <1>1, <1>5, StepsByInstruction
  <2>3. first' = first
    <3>1. \A u \in Consumer : pc'[u] = pc[u]
      BY <1>2, <2>1 DEF Thread
    <3>2. use' = use
      BY <2>2 DEF ProducerStep, Takes, Gives
    <3> QED BY <1>3, <1>4, <3>1, <3>2
  <2>4. /\ fill' = IF pc[t] = 5 THEN nextSlot(fill) ELSE fill
        /\ pc'[t] = 5 <=> pc[t] = 4
    BY <1>1, <1>2, <2>2 DEF ProducerStep, Takes, Gives
  <2>5. \A u \in Producer : u # t => pc'[u] = pc[u]
    BY <1>2 DEF Thread
  <2>6. pc[t] \in 4 .. 6 => \A u \in Producer : u # t => pc[u] # 5
    BY <1>1, <1>5 DEF MutexInv, holds, Thread
  <2> QED BY <1>1, <1>3, <1>4, <1>5, <2>3, <2>4, <2>5, <2>6
<1>6. CASE t \notin Producer
  <2>1. t \in Consumer
    BY <1>6 DEF Thread
  <2>2. ConsumerStep(t)
    BY <1>1, <1>6, StepsByInstruction
  <2>3. end' = end
    <3>1. \A u \in Producer : pc'[u] = pc[u]
      BY <1>2, <1>6 DEF Thread
    <3>2. fill' = fill
      BY <2>2 DEF ConsumerStep, Takes, Gives
    <3> QED BY <1>3, <1>4, <3>1, <3>2
  <2>4. /\ use' = IF pc[t] = 4 THEN nextSlot(use) ELSE use
        /\ pc'[t] = 4 <=> pc[t] = 3
    BY <1>1, <1>2, <2>2 DEF ConsumerStep, Takes, Gives
  <2>5. \A u \in Consumer : u # t => pc'[u] = pc[u]
    BY <1>2 DEF Thread
  <2>6. pc[t] \in 3 .. 5 => \A u \in Consumer : u # t => pc[u] # 4
    BY <1>1, <1>6, ThreadAssumption DEF MutexInv, holds, Thread
  <2> QED BY <1>1, <1>3, <1>4, <1>6, <2>1, <2>3, <2>4, <2>5, <2>6
<1> QED BY <1>5, <1>6

\* The sequence of the items that wait.
waitingItems == [i \in 1 .. waiting |-> ring[slot(i)]]

\* A step that touches no slot leaves the items where they are, even when it
\* takes an index round the end of the ring.
LEMMA QuietStep ==
  ASSUME QueueInv, ring' = ring, waiting' = waiting,
         first' \in {first, first % Size}, end' \in {end, end % Size}
  PROVE  Ends' /\ Slots' /\ waitingItems' = waitingItems
<1>1. waiting \in 0 .. Size /\ first \in 0 .. Size /\ end \in 0 .. Size /\ Size \in Nat \ {0}
  BY QueueRanges, SizeAssumption
<1>2. first % Size \in {first, first - Size} /\ first % Size \in 0 .. Size
  BY <1>1, Wrap
<1>3. end % Size \in 0 .. Size - 1
  BY <1>1, Wrap
<1>4. (end % Size) % Size = end % Size
  BY <1>1, <1>3, Wrap
<1>5. end' % Size = end % Size
  BY <1>4
<1>6. ASSUME NEW i \in 1 .. Size + 1 PROVE (first' + i - 1) % Size = (first + i - 1) % Size
  <2>1. CASE first < Size
    <3>1. first % Size = first
      BY <1>1, <2>1, Wrap
    <3> QED BY <3>1
  <2>2. CASE first = Size
    <3>1. first % Size = 0
      BY <1>1, <2>2, Wrap
    <3>2. PICK j \in Int : j = Size + i - 1
      BY <1>1
    <3>3. PICK k \in Int : k = i - 1
      BY <1>1
    <3>4. j \in 0 .. 2 * Size /\ k \in 0 .. 2 * Size /\ j = k + Size
      BY <1>1, <3>2, <3>3
    <3>5. j % Size = (IF k < Size THEN k ELSE 0) /\ k % Size = (IF k < Size THEN k ELSE 0)
      BY <1>1, <3>2, <3>3, <3>4, Wrap
    <3>6. first + i - 1 = j /\ (first % Size) + i - 1 = k
      BY <1>1, <2>2, <3>1, <3>2, <3>3
    <3> QED BY <3>5, <3>6
  <2> QED BY <1>1, <2>1, <2>2
<1>7. Ends'
  <2>1. (first' + (waiting + 1) - 1) % Size = (first + (waiting + 1) - 1) % Size
    BY <1>1, <1>6
  <2> QED BY <1>5, <2>1 DEF QueueInv, Ends, slot
<1>8. \A i \in 1 .. waiting : (first' + i - 1) % Size = (first + i - 1) % Size
  BY <1>1, <1>6
<1>9. Slots'
  BY <1>8 DEF QueueInv, Slots, slot
<1>10. waitingItems' = waitingItems
  BY <1>8 DEF waitingItems, slot
<1> QED BY <1>7, <1>9, <1>10

\* One slot further round the ring, and two slots that are not the same.
LEMMA NextRound ==
  ASSUME NEW k \in 0 .. 2 * Size - 1 PROVE ((k % Size) + 1) % Size = (k + 1) % Size
<1>1. Size \in Nat \ {0} /\ k \in 0 .. 2 * Size
  BY SizeAssumption
<1>2. PICK j \in 0 .. Size - 1 : j = k % Size
  BY <1>1, Wrap
<1>3. j = (IF k < Size THEN k ELSE k - Size)
  BY <1>1, <1>2, Wrap
<1>4. PICK m \in 0 .. 2 * Size : m = k + 1
  BY <1>1
<1>5. m % Size = (IF m < Size THEN m ELSE IF m < 2 * Size THEN m - Size ELSE 0)
  BY Wrap
<1>6. PICK n \in 0 .. Size : n = j + 1
  BY <1>1
<1>7. n % Size = (IF n < Size THEN n ELSE 0)
  BY <1>1, Wrap
<1>8. n % Size = m % Size
  BY <1>1, <1>3, <1>4, <1>5, <1>6, <1>7
<1> QED BY <1>2, <1>4, <1>6, <1>8

LEMMA OtherSlot ==
  ASSUME NEW k \in 0 .. 2 * Size, NEW m \in 0 .. 2 * Size, k < m, m < k + Size
  PROVE  k % Size # m % Size
<1>1. /\ k % Size = (IF k < Size THEN k ELSE IF k < 2 * Size THEN k - Size ELSE 0)
      /\ m % Size = (IF m < Size THEN m ELSE IF m < 2 * Size THEN m - Size ELSE 0)
  BY Wrap
<1> QED BY <1>1, SizeAssumption

LEMMA WaitingSequence ==
  ASSUME QueueInv
  PROVE  waitingItems \in Seq(Item) /\ Len(waitingItems) = waiting
<1>1. waiting \in Nat
  BY QueueRanges, SizeAssumption
<1>2. \A i \in 1 .. waiting : ring[slot(i)] \in Item
  BY DEF QueueInv, Slots
<1>3. waitingItems \in [1 .. waiting -> Item]
  BY <1>2 DEF waitingItems
<1> QED BY <1>1, <1>3

\* What appending to a sequence and taking its head leave.
LEMMA AppendIs ==
  ASSUME NEW S, NEW s \in Seq(S), NEW x \in S, NEW r \in [1 .. Len(s) + 1 -> S],
         \A i \in 1 .. Len(s) : r[i] = s[i], r[Len(s) + 1] = x
  PROVE  r = Append(s, x)
<1>1. Len(s) \in Nat
  BY LenProperties
<1>2. r \in Seq(S) /\ Len(r) = Len(s) + 1
  BY <1>1
<1>3. /\ Append(s, x) \in Seq(S) /\ Len(Append(s, x)) = Len(s) + 1
      /\ \A i \in 1 .. Len(s) : Append(s, x)[i] = s[i]
      /\ Append(s, x)[Len(s) + 1] = x
  BY AppendProperties
<1>4. \A i \in 1 .. Len(r) : r[i] = Append(s, x)[i]
  BY <1>1, <1>2, <1>3
<1> QED BY <1>2, <1>3, <1>4, SeqEqual

LEMMA TailIs ==
  ASSUME NEW S, NEW s \in Seq(S), Len(s) >= 1, NEW r \in [1 .. Len(s) - 1 -> S],
         \A i \in 1 .. Len(s) - 1 : r[i] = s[i + 1]
  PROVE  s # <<>> /\ Head(s) = s[1] /\ r = Tail(s)
<1>1. Len(s) \in Nat /\ s # <<>>
  BY LenProperties, EmptySeq
<1>2. r \in Seq(S) /\ Len(r) = Len(s) - 1
  BY <1>1
<1>3. /\ Tail(s) \in Seq(S) /\ Len(Tail(s)) = Len(s) - 1
      /\ \A i \in 1 .. Len(Tail(s)) : Tail(s)[i] = s[i + 1]
  BY <1>1, HeadTailProperties
<1>4. r = Tail(s)
  BY <1>2, <1>3, SeqEqual
<1>5. Head(s) = s[1]
  BY <1>1
<1> QED BY <1>1, <1>4, <1>5

LEMMA WriteStep ==
  ASSUME QueueInv, NEW x \in Item, ring' = [ring EXCEPT ![fill] = x],
         waiting' = waiting + 1, waiting < Size, first' = first, end = fill, end' = fill + 1
  PROVE  Ends' /\ Slots' /\ waitingItems' = Append(waitingItems, x)
<1>1. /\ waiting \in 0 .. Size - 1 /\ first \in 0 .. Size /\ Size \in Nat \ {0}
      /\ fill \in 0 .. Size - 1 /\ ring \in [0 .. Size - 1 -> Item \cup {None}]
  BY QueueRanges, SizeAssumption DEF QueueInv, QueueTypes, Slot
<1>2. PICK k \in 0 .. 2 * Size - 1 : k = first + waiting
  BY <1>1
<1>3. fill = k % Size
  <2>1. fill % Size = slot(waiting + 1)
    BY DEF QueueInv, Ends
  <2>2. fill % Size = fill
    BY <1>1, Wrap
  <2>3. first + (waiting + 1) - 1 = k
    BY <1>1, <1>2
  <2> QED BY <2>1, <2>2, <2>3 DEF slot
<1>4. Ends'
  <2>1. (fill + 1) % Size = (k + 1) % Size
    BY <1>3, NextRound
  <2>2. first' + (waiting' + 1) - 1 = k + 1
    BY <1>1, <1>2
  <2> QED BY <2>1, <2>2 DEF Ends, slot
<1>5. \A i \in 1 .. waiting : slot(i)' = slot(i) /\ slot(i) \in 0 .. Size - 1 /\ slot(i) # fill
  <2> SUFFICES ASSUME NEW i \in 1 .. waiting
               PROVE  slot(i)' = slot(i) /\ slot(i) \in 0 .. Size - 1 /\ slot(i) # fill
    OBVIOUS
  <2>1. PICK j \in 0 .. 2 * Size : j = first + i - 1
    BY <1>1
  <2>2. j < k /\ k < j + Size /\ k \in 0 .. 2 * Size
    BY <1>1, <1>2, <2>1
  <2>3. j % Size # k % Size
    BY <2>2, OtherSlot
  <2>4. j % Size \in 0 .. Size - 1
    BY <1>1, Wrap
  <2> QED BY <1>3, <2>1, <2>3, <2>4 DEF slot
<1>6. (first' + (waiting + 1) - 1) % Size = fill
  <2>1. first' + (waiting + 1) - 1 = k
    BY <1>1, <1>2
  <2> QED BY <1>3, <2>1
<1>7. /\ \A i \in 1 .. waiting : ring'[slot(i)'] = ring[slot(i)]
      /\ ring'[fill] = x
  BY <1>1, <1>5
<1>8. \A i \in 1 .. waiting + 1 :
        /\ i \in 1 .. waiting => ring'[slot(i)'] = waitingItems[i]
        /\ i = waiting + 1 => ring'[slot(i)'] = x
        /\ i \in 1 .. waiting \/ i = waiting + 1
  <2> SUFFICES ASSUME NEW i \in 1 .. waiting + 1
               PROVE  /\ i \in 1 .. waiting => ring'[slot(i)'] = waitingItems[i]
                      /\ i = waiting + 1 => ring'[slot(i)'] = x
                      /\ i \in 1 .. waiting \/ i = waiting + 1
    OBVIOUS
  <2>1. i \in 1 .. waiting => ring'[slot(i)'] = waitingItems[i]
    BY <1>7 DEF waitingItems
  <2>2. ASSUME i = waiting + 1 PROVE ring'[slot(i)'] = x
    <3>1. slot(i)' = fill
      BY <1>6, <2>2 DEF slot
    <3> QED BY <1>7, <3>1
  <2> QED BY <1>1, <2>1, <2>2
<1>9. waitingItems \in Seq(Item) /\ Len(waitingItems) = waiting
  BY WaitingSequence
<1>10. \A i \in 1 .. waiting : waitingItems[i] \in Item
  BY <1>9, ElementOfSeq
<1>11. Slots'
  BY <1>8, <1>10 DEF Slots, slot
<1>12. waitingItems' = Append(waitingItems, x)
  <2>1. waitingItems' = [i \in 1 .. waiting + 1 |-> ring'[slot(i)']]
    BY DEF waitingItems, slot
  <2>2. /\ waitingItems' \in [1 .. waiting + 1 -> Item]
        /\ \A i \in 1 .. waiting : waitingItems'[i] = waitingItems[i]
        /\ waitingItems'[waiting + 1] = x
    BY <1>1, <1>8, <1>10, <2>1
  <2> QED BY <1>9, <2>2, AppendIs
<1> QED BY <1>4, <1>11, <1>12

LEMMA ReadStep ==
  ASSUME QueueInv, ring' = ring, waiting' = waiting - 1, waiting >= 1,
         first = use, first' = use + 1, end' = end
  PROVE  /\ Ends' /\ Slots' /\ waitingItems' = Tail(waitingItems)
         /\ waitingItems # <<>> /\ Head(waitingItems) = ring[use] /\ ring[use] \in Item
<1>1. waiting \in 1 .. Size /\ use \in 0 .. Size - 1 /\ Size \in Nat \ {0}
  BY QueueRanges, SizeAssumption DEF QueueInv, QueueTypes, Slot
<1>2. ASSUME NEW i \in 0 .. waiting PROVE first' + i - 1 = first + (i + 1) - 1
  BY <1>1
<1>3. Ends'
  <2>1. first' + (waiting' + 1) - 1 = first + (waiting + 1) - 1
    BY <1>1
  <2> QED BY <2>1 DEF QueueInv, Ends, slot
<1>4. \A i \in 1 .. waiting - 1 : slot(i)' = slot(i + 1) /\ i + 1 \in 1 .. waiting
  BY <1>1, <1>2 DEF slot
<1>5. \A i \in 1 .. waiting : ring[slot(i)] \in Item
  BY DEF QueueInv, Slots
<1>6. Slots'
  BY <1>4, <1>5 DEF Slots, slot
<1>7. slot(1) = use
  <2>1. first + 1 - 1 = use /\ use % Size = use
    BY <1>1, Wrap
  <2> QED BY <2>1 DEF slot
<1>8. waitingItems \in Seq(Item) /\ Len(waitingItems) = waiting
  BY WaitingSequence
<1>9. waitingItems[1] = ring[use] /\ ring[use] \in Item
  BY <1>1, <1>5, <1>7 DEF waitingItems
<1>10. waitingItems # <<>> /\ Head(waitingItems) = waitingItems[1] /\ waitingItems' = Tail(waitingItems)
  <2>1. waitingItems' = [i \in 1 .. waiting - 1 |-> ring[slot(i)']]
    BY DEF waitingItems, slot
  <2>2. /\ waitingItems' \in [1 .. waiting - 1 -> Item]
        /\ \A i \in 1 .. waiting - 1 : waitingItems'[i] = waitingItems[i + 1]
    BY <1>4, <1>5, <2>1 DEF waitingItems
  <2> QED BY <1>1, <1>8, <2>2, TailIs
<1> QED BY <1>3, <1>6, <1>9, <1>10

Writes(t) == t \in Producer /\ pc[t] = 4
Reads(t) == t \notin Producer /\ pc[t] = 3

\* What each step does to the items that wait.
LEMMA WaitingStep ==
  ASSUME QueueInv, NEW t \in Thread, step(t)
  PROVE  /\ Ends' /\ Slots'
         /\ Writes(t) => /\ item[t] \in Item /\ Len(waitingItems) < Size
                         /\ waitingItems' = Append(waitingItems, item[t])
         /\ Reads(t) => /\ waitingItems # <<>> /\ Head(waitingItems) = ring[use]
                        /\ ring[use] \in Item /\ waitingItems' = Tail(waitingItems)
         /\ ~Writes(t) /\ ~Reads(t) => waitingItems' = waitingItems
<1>1. /\ MutexInv /\ pc[t] \in 1 .. 7 /\ waiting \in 0 .. Size /\ Size \in Nat
      /\ first \in 0 .. Size /\ end \in 0 .. Size
  BY QueueRanges, SizeAssumption DEF QueueInv, MutexInv
<1>2. /\ t \in Producer => ProducerStep(t)
      /\ t \notin Producer => ConsumerStep(t)
  BY <1>1, StepsByInstruction
<1>3. CASE Writes(t)
  <2>1. ring' = [ring EXCEPT ![fill] = item[t]]
    BY <1>2, <1>3 DEF Writes, ProducerStep
  <2>2. item[t] \in Item
    BY <1>3 DEF QueueInv, InHand, hasItem, Writes
  <2>3. waiting' = waiting + 1 /\ Counts'
    BY <1>1, <1>3, CountsStep DEF Writes
  <2>4. waiting < Size
    <3>1. t \in promises
      BY <1>3 DEF promises, promised, Writes
    <3>2. IsFiniteSet(promises)
      BY FiniteThreads, FS_Subset DEF promises
    <3>3. Cardinality(promises) # 0
      BY <3>1, <3>2, FS_EmptySet
    <3>4. Cardinality(promises) \in Nat /\ sem["empty"] \in 0 .. Size
      BY QueueRanges
    <3> QED BY <1>1, <3>3, <3>4 DEF QueueInv, Counts
  <2>5. first' = first /\ end = fill /\ end' = fill + 1
    BY <1>3, EndsStep DEF Writes
  <2>6. Ends' /\ Slots' /\ waitingItems' = Append(waitingItems, item[t])
    BY <2>1, <2>2, <2>3, <2>4, <2>5, WriteStep
  <2>7. Len(waitingItems) = waiting
    BY WaitingSequence
  <2> QED BY <1>3, <2>2, <2>4, <2>6, <2>7 DEF Writes, Reads
<1>4. CASE Reads(t)
  <2>1. ring' = ring
    BY <1>2, <1>4 DEF Reads, ConsumerStep
  <2>2. waiting' = waiting - 1
    BY <1>1, <1>4, CountsStep DEF Reads
  <2>3. waiting >= 1
    <3>1. t \in inRing
      BY <1>4, ThreadAssumption DEF inRing, claimed, Reads, Thread
    <3>2. IsFiniteSet(inRing)
      BY FiniteThreads, FS_Subset DEF inRing
    <3>3. Cardinality(inRing) # 0
      BY <3>1, <3>2, FS_EmptySet
    <3>4. /\ Cardinality(inRing) \in Nat /\ sem["full"] \in 0 .. Size
          /\ waiting = sem["full"] + Cardinality(inRing)
      BY QueueRanges
    <3> QED BY <1>1, <3>3, <3>4
  <2>4. first = use /\ first' = use + 1 /\ end' = end
    BY <1>4, EndsStep DEF Reads
  <2> QED BY <1>4, <2>1, <2>2, <2>3, <2>4, ReadStep DEF Writes, Reads
<1>5. CASE ~Writes(t) /\ ~Reads(t)
  <2>1. ring' = ring
    BY <1>2, <1>5 DEF Writes, Reads, ProducerStep, ConsumerStep, Takes, Gives
  <2>2. waiting' = waiting
    BY <1>1, <1>5, CountsStep DEF Writes, Reads
  <2>3. first' \in {first, first % Size} /\ end' \in {end, end % Size}
    BY <1>5, EndsStep DEF Writes, Reads, nextSlot
  <2> QED BY <1>5, <2>1, <2>2, <2>3, QuietStep
<1> QED BY <1>3, <1>4, <1>5

LEMMA TypesStep == ASSUME QueueInv, NEW t \in Thread, step(t) PROVE QueueTypes' /\ InHand'
<1>1. /\ MutexInv /\ pc[t] \in 1 .. 7 /\ pc \in [Thread -> 1 .. 7]
      /\ sem'["empty"] >= 0 /\ sem'["full"] >= 0
  BY CountsStep DEF QueueInv, MutexInv
<1>2. /\ t \in Producer => ProducerStep(t)
      /\ t \notin Producer => ConsumerStep(t)
      /\ pc' = [pc EXCEPT ![t] = IF pc[t] = 7 THEN 1 ELSE pc[t] + 1]
  BY <1>1, StepsByInstruction
<1>3. /\ ring \in [Slot -> Item \cup {None}] /\ fill \in Slot /\ use \in Slot
      /\ item \in [Thread -> Item \cup {None}]
      /\ \A u \in Thread : item[u] \in (IF hasItem(u) THEN Item ELSE {None})
  BY DEF QueueInv, QueueTypes, InHand
<1>4. nextSlot(fill) \in Slot /\ nextSlot(use) \in Slot
  BY <1>3, SizeAssumption DEF nextSlot, Slot
<1>5. Writes(t) => item[t] \in Item
  BY WaitingStep
<1>6. Reads(t) => ring[use] \in Item
  BY WaitingStep
<1>7. /\ pc'[t] = (IF pc[t] = 7 THEN 1 ELSE pc[t] + 1)
      /\ \A u \in Thread : u # t => pc'[u] = pc[u]
  BY <1>1, <1>2
<1>8. CASE t \in Producer
  <2>1. fill' \in Slot /\ use' \in Slot
    BY <1>2, <1>3, <1>4, <1>8 DEF ProducerStep, Takes, Gives
  <2>2. ring' \in [Slot -> Item \cup {None}]
    BY <1>2, <1>3, <1>5, <1>8 DEF ProducerStep, Takes, Gives, Writes
  <2>3. /\ item' \in [Thread -> Item \cup {None}]
        /\ \A u \in Thread : u # t => item'[u] = item[u]
        /\ item'[t] \in (IF pc'[t] \in 2 .. 4 THEN Item ELSE {None})
    <3>1. item[t] \in (IF pc[t] \in 2 .. 4 THEN Item ELSE {None})
      BY <1>3, <1>8 DEF hasItem
    <3>2. CASE pc[t] = 1
      <4>1. PICK i \in Item : item' = [item EXCEPT ![t] = i]
        BY <1>2, <1>8, <3>2 DEF ProducerStep
      <4> QED BY <1>3, <1>7, <3>2, <4>1
    <3>3. CASE pc[t] = 4
      <4>1. item' = [item EXCEPT ![t] = None]
        BY <1>2, <1>8, <3>3 DEF ProducerStep
      <4> QED BY <1>3, <1>7, <3>3, <4>1
    <3>4. CASE pc[t] \notin {1, 4}
      <4>1. item' = item
        BY <1>2, <1>8, <3>4 DEF ProducerStep, Takes, Gives
      <4>2. pc'[t] \in 2 .. 4 <=> pc[t] \in 2 .. 4
        BY <1>1, <1>7, <3>4
      <4> QED BY <1>3, <3>1, <4>1, <4>2
    <3> QED BY <3>2, <3>3, <3>4
  <2> QED BY <1>1, <1>3, <1>7, <1>8, <2>1, <2>2, <2>3 DEF QueueTypes, InHand, hasItem
<1>9. CASE t \notin Producer
  <2>1. fill' \in Slot /\ use' \in Slot
    BY <1>2, <1>3, <1>4, <1>9 DEF ConsumerStep, Takes, Gives
  <2>2. ring' \in [Slot -> Item \cup {None}]
    BY <1>2, <1>3, <1>9 DEF ConsumerStep, Takes, Gives
  <2>3. /\ item' \in [Thread -> Item \cup {None}]
        /\ \A u \in Thread : u # t => item'[u] = item[u]
        /\ item'[t] \in (IF pc'[t] \in 4 .. 7 THEN Item ELSE {None})
    <3>1. item[t] \in (IF pc[t] \in 4 .. 7 THEN Item ELSE {None})
      BY <1>3, <1>9 DEF hasItem
    <3>2. CASE pc[t] = 3
      <4>1. item' = [item EXCEPT ![t] = ring[use]] /\ ring[use] \in Item
        BY <1>2, <1>6, <1>9, <3>2 DEF ConsumerStep, Reads
      <4> QED BY <1>3, <1>7, <3>2, <4>1
    <3>3. CASE pc[t] = 7
      <4>1. item' = [item EXCEPT ![t] = None]
        BY <1>2, <1>9, <3>3 DEF ConsumerStep
      <4> QED BY <1>3, <1>7, <3>3, <4>1
    <3>4. CASE pc[t] \notin {3, 7}
      <4>1. item' = item
        BY <1>2, <1>9, <3>4 DEF ConsumerStep, Takes, Gives
      <4>2. pc'[t] \in 4 .. 7 <=> pc[t] \in 4 .. 7
        BY <1>1, <1>7, <3>4
      <4> QED BY <1>3, <3>1, <4>1, <4>2
    <3> QED BY <3>2, <3>3, <3>4
  <2> QED BY <1>1, <1>3, <1>7, <1>9, <2>1, <2>2, <2>3 DEF QueueTypes, InHand, hasItem
<1> QED BY <1>8, <1>9

LEMMA InitQueue == Init => QueueInv
<1> SUFFICES ASSUME Init PROVE QueueInv
  OBVIOUS
<1>1. MutexInv
  BY InitMutex
<1>2. Size \in Nat \ {0} /\ 0 \in Slot
  BY SizeAssumption DEF Slot
<1>3. /\ \A t \in Thread : pc[t] = 1 /\ item[t] = None
      /\ sem["empty"] = Size /\ sem["full"] = 0 /\ fill = 0 /\ use = 0
      /\ pc \in [Thread -> 1 .. 7]
  BY DEF Init, room
<1>4. QueueTypes
  BY <1>2, <1>3 DEF Init, QueueTypes
<1>5. inRing = {} /\ promises = {}
  BY <1>3 DEF inRing, promises, written, claimed, promised
<1>6. waiting = 0 /\ Cardinality(promises) = 0
  BY <1>3, <1>5, FS_EmptySet DEF waiting, inRing
<1>7. first = 0 /\ end = 0
  BY <1>3, IndexViews DEF IndexView, Thread
<1>8. Counts
  BY <1>2, <1>3, <1>6 DEF Counts
<1>9. Ends
  BY <1>2, <1>6, <1>7 DEF Ends, slot
<1>10. Slots /\ InHand
  BY <1>3, <1>6 DEF Slots, InHand, hasItem
<1> QED BY <1>1, <1>4, <1>8, <1>9, <1>10 DEF QueueInv

LEMMA QueueInvariant == Spec => []QueueInv
<1>1. QueueInv /\ [Next]_vars => QueueInv'
  <2> SUFFICES ASSUME QueueInv, [Next]_vars PROVE QueueInv'
    OBVIOUS
  <2>1. CASE UNCHANGED vars
    BY <2>1 DEF vars, QueueInv, MutexInv, holds, QueueTypes, Counts, Ends, Slots, InHand, waiting,
                written, claimed, promises, promised, end, first, at, program, slot, hasItem
  <2>2. ASSUME NEW t \in Thread, step(t) PROVE QueueInv'
    BY <2>2, StepMutex, CountsStep, WaitingStep, TypesStep DEF QueueInv, QueueTypes
  <2> QED BY <2>1, <2>2 DEF Next
<1> QED BY <1>1, InitQueue, PTL DEF Spec

\* The indices stay in the ring, and no semaphore counts more than there are
\* slots (httpserverMy.cc:265-270, 285-289): every post is paid for by a wait.
THEOREM QueueTypeCorrect == Spec => []TypeOK
<1>1. QueueInv => TypeOK
  <2> SUFFICES ASSUME QueueInv PROVE TypeOK
    OBVIOUS
  <2>1. sem \in [empty : 0 .. Size, full : 0 .. Size, mutex : 0 .. 1]
    BY QueueRanges DEF QueueInv, MutexInv
  <2> QED BY <2>1 DEF QueueInv, MutexInv, QueueTypes, TypeOK
<1> QED BY <1>1, QueueInvariant, PTL

-----------------------------------------------------------------------------
(***************************************************************************)
(* The refinement                                                          *)
(***************************************************************************)
LEMMA FifoInit == ASSUME Init PROVE F!FInit
<1>1. waiting = 0
  <2>1. {t \in Thread : written(t) \/ claimed(t)} = {}
    BY DEF Init, written, claimed
  <2> QED BY <2>1, FS_EmptySet DEF Init, waiting
<1>2. [i \in 1 .. waiting |-> ring[(first + i - 1) % Size]] = <<>>
  BY <1>1
<1> QED BY <1>2 DEF Init, F!FInit, Thread

\* A write puts an item, a read gets one, and no other step does anything.
LEMMA FifoStep ==
  ASSUME QueueInv, NEW t \in Thread, step(t)
  PROVE  F!FNext \/ UNCHANGED <<waitingItems, [p \in Producer |-> item[p]], [c \in Consumer |-> item[c]]>>
<1>1. /\ MutexInv /\ pc[t] \in 1 .. 7 /\ item \in [Thread -> Item \cup {None}]
      /\ item[t] \in (IF hasItem(t) THEN Item ELSE {None})
  BY DEF QueueInv, MutexInv, QueueTypes, InHand
<1>2. CASE t \in Producer
  <2>1. ProducerStep(t) /\ t \notin Consumer
    BY <1>1, <1>2, StepsByInstruction, ThreadAssumption
  <2>2. CASE pc[t] = 1
    <3>1. PICK i \in Item : item' = [item EXCEPT ![t] = i]
      BY <2>1, <2>2 DEF ProducerStep
    <3>2. waitingItems' = waitingItems
      BY <1>2, <2>2, WaitingStep DEF Writes, Reads
    <3>3. item[t] = None
      BY <1>1, <1>2, <2>2 DEF hasItem
    <3>4. F!Offer(t)
      BY <1>1, <1>2, <2>1, <3>1, <3>2, <3>3 DEF F!Offer, waitingItems, slot, Thread
    <3> QED BY <1>2, <3>4 DEF F!FNext
  <2>3. CASE pc[t] = 4
    <3>1. item' = [item EXCEPT ![t] = None]
      BY <2>1, <2>3 DEF ProducerStep
    <3>2. /\ item[t] \in Item /\ Len(waitingItems) < Size
          /\ waitingItems' = Append(waitingItems, item[t])
      BY <1>2, <2>3, WaitingStep DEF Writes
    <3>3. item[t] # None
      BY <3>2, NoneAssumption
    <3>4. F!Put(t)
      BY <1>1, <1>2, <2>1, <3>1, <3>2, <3>3 DEF F!Put, waitingItems, slot, Thread
    <3> QED BY <1>2, <3>4 DEF F!FNext
  <2>4. CASE pc[t] \notin {1, 4}
    <3>1. item' = item
      BY <2>1, <2>4 DEF ProducerStep, Takes, Gives
    <3>2. waitingItems' = waitingItems
      BY <1>2, <2>4, WaitingStep DEF Writes, Reads
    <3> QED BY <3>1, <3>2
  <2> QED BY <2>2, <2>3, <2>4
<1>3. CASE t \notin Producer
  <2>1. ConsumerStep(t) /\ t \in Consumer
    BY <1>1, <1>3, StepsByInstruction DEF Thread
  <2>2. CASE pc[t] = 3
    <3>1. item' = [item EXCEPT ![t] = ring[use]]
      BY <1>3, <2>1, <2>2 DEF ConsumerStep
    <3>2. /\ waitingItems # <<>> /\ Head(waitingItems) = ring[use]
          /\ waitingItems' = Tail(waitingItems)
      BY <1>3, <2>2, WaitingStep DEF Reads
    <3>3. item[t] = None
      BY <1>1, <1>3, <2>2 DEF hasItem
    <3>4. F!Get(t)
      BY <1>1, <1>3, <2>1, <3>1, <3>2, <3>3 DEF F!Get, waitingItems, slot, Thread
    <3> QED BY <2>1, <3>4 DEF F!FNext
  <2>3. CASE pc[t] = 7
    <3>1. item' = [item EXCEPT ![t] = None]
      BY <1>3, <2>1, <2>3 DEF ConsumerStep
    <3>2. waitingItems' = waitingItems
      BY <1>3, <2>3, WaitingStep DEF Writes, Reads
    <3>3. item[t] # None
      BY <1>1, <1>3, <2>3, NoneAssumption DEF hasItem
    <3>4. F!Deal(t)
      BY <1>1, <1>3, <2>1, <3>1, <3>2, <3>3 DEF F!Deal, waitingItems, slot, Thread
    <3> QED BY <2>1, <3>4 DEF F!FNext
  <2>4. CASE pc[t] \notin {3, 7}
    <3>1. item' = item
      BY <1>3, <2>1, <2>4 DEF ConsumerStep, Takes, Gives
    <3>2. waitingItems' = waitingItems
      BY <1>3, <2>4, WaitingStep DEF Writes, Reads
    <3> QED BY <3>1, <3>2
  <2> QED BY <2>2, <2>3, <2>4
<1> QED BY <1>2, <1>3

\* The ring with its three semaphores is a bounded first-in first-out queue:
\* no item is lost, overwritten before it was read, handed out twice or out of
\* order (httpserverMy.cc:265-270, 285-289, 313-317, 475-480).
THEOREM QueueIsFifo == Spec => ImplementsFifo
<1>1. Init => F!FInit
  BY FifoInit
<1>2. QueueInv /\ [Next]_vars
        => [F!FNext]_<<[i \in 1 .. waiting |-> ring[(first + i - 1) % Size]],
                       [p \in Producer |-> item[p]], [c \in Consumer |-> item[c]]>>
  <2> SUFFICES ASSUME QueueInv, [Next]_vars
               PROVE  F!FNext \/ UNCHANGED <<waitingItems, [p \in Producer |-> item[p]],
                                             [c \in Consumer |-> item[c]]>>
    BY DEF waitingItems, slot
  <2>1. CASE UNCHANGED vars
    BY <2>1 DEF vars, waitingItems, slot, waiting, written, claimed, first, at, program
  <2> QED BY <2>1, FifoStep DEF Next
<1> QED BY <1>1, <1>2, QueueInvariant, PTL DEF Spec, ImplementsFifo, F!FSpec
=============================================================================
