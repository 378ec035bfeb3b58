-------------------------------- MODULE Fifo ---------------------------------
(***************************************************************************)
(* What a queue of the HTTP server promises: items come out in the order   *)
(* they went in, each of them once, and at most Size of them wait.         *)
(***************************************************************************)
EXTENDS Integers, Sequences

CONSTANTS Size, Producer, Consumer, Item, None

VARIABLES
    queue,  \* the items that wait
    offer,  \* offer[p]: the item producer p wants to put, or None
    got     \* got[c]: the item consumer c has taken and not dealt with, or None

FInit == queue = <<>> /\ offer = [p \in Producer |-> None] /\ got = [c \in Consumer |-> None]

Offer(p) == /\ offer[p] = None
            /\ \E i \in Item : offer' = [offer EXCEPT ![p] = i]
            /\ UNCHANGED <<queue, got>>

Put(p) == /\ offer[p] # None
          /\ Len(queue) < Size
          /\ queue' = Append(queue, offer[p])
          /\ offer' = [offer EXCEPT ![p] = None]
          /\ UNCHANGED got

Get(c) == /\ got[c] = None
          /\ queue # <<>>
          /\ got' = [got EXCEPT ![c] = Head(queue)]
          /\ queue' = Tail(queue)
          /\ UNCHANGED offer

Deal(c) == /\ got[c] # None
           /\ got' = [got EXCEPT ![c] = None]
           /\ UNCHANGED <<queue, offer>>

FNext == (\E p \in Producer : Offer(p) \/ Put(p)) \/ (\E c \in Consumer : Get(c) \/ Deal(c))

FSpec == FInit /\ [][FNext]_<<queue, offer, got>>
=============================================================================
