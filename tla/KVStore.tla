------------------------------- MODULE KVStore -------------------------------
(***************************************************************************)
(* The key-value database of a participant and the commands it executes.   *)
(*                                                                         *)
(* A command is the vector of words the RESP parser yields, for instance   *)
(* <<"SET", k, v>>.  Keys and values are words as well; how a word is      *)
(* spelled matters only for the verbs.  What a participant or the          *)
(* coordinator sends back is a reply, a record tagged with its kind, where *)
(* the program keeps the kinds apart by the text of the message.           *)
(***************************************************************************)
EXTENDS Integers, FiniteSets, Sequences

CONSTANTS
    Key,       \* the keys clients use
    Value,     \* the values clients store
    Command    \* the commands clients send, sequences of words

Nil == "nil"

ASSUME NilAssumption == Nil \notin Value

(***************************************************************************)
(* Replies.                                                                *)
(***************************************************************************)
ErrorReply == [kind |-> "ERROR"]
OkReply    == [kind |-> "OK"]
PreReply   == [kind |-> "PRE"]
EmptyReply == [kind |-> "EMPTY"]
CountReply(n) == [kind |-> "COUNT", n |-> n]
ValueReply(v) == [kind |-> "VALUE", value |-> v]

KVReply == {ErrorReply, OkReply, PreReply}
             \cup [kind : {"COUNT"}, n : Nat]
             \cup [kind : {"VALUE"}, value : Value \cup {Nil}]

(***************************************************************************)
(* The database: a key that is not in the hash map holds Nil.              *)
(***************************************************************************)
Database == [Key -> Value \cup {Nil}]
EmptyDatabase == [k \in Key |-> Nil]

kvSET(db, k, v) == [db EXCEPT ![k] = v]
kvGET(db, k) == db[k]
kvDELArry(db, ks) == [k \in Key |-> IF k \in ks THEN Nil ELSE db[k]]
deletedNumber(db, ks) == Cardinality({k \in ks \cap Key : db[k] # Nil})

(***************************************************************************)
(* eventParser executes one command on a database.  The arity is checked   *)
(* only here: a client's malformed SET travels through the whole commit    *)
(* protocol before it is refused.  DEL deletes the first occurrence of a   *)
(* repeated key and ignores the others, as it ignores unknown keys.        *)
(***************************************************************************)
Verb(c) == IF c = <<>> THEN "" ELSE c[1]
DelKeys(c) == {c[i] : i \in 2 .. Len(c)}

eventParser(db, c) ==
    CASE Verb(c) = "DEL" ->
           [reply |-> CountReply(deletedNumber(db, DelKeys(c))),
            db    |-> kvDELArry(db, DelKeys(c))]
      [] Verb(c) = "SET" /\ Len(c) = 3 ->
           [reply |-> OkReply, db |-> kvSET(db, c[2], c[3])]
      [] Verb(c) = "GET" /\ Len(c) = 2 ->
           [reply |-> ValueReply(kvGET(db, c[2])), db |-> db]
      [] Verb(c) = "PRE" ->
           [reply |-> PreReply, db |-> db]
      [] OTHER ->
           [reply |-> ErrorReply, db |-> db]

(***************************************************************************)
(* Clients use the keys and values of the model; the arity is free.        *)
(***************************************************************************)
ASSUME CommandAssumption ==
    \A c \in Command :
        /\ c \in Seq(STRING)
        /\ (Verb(c) = "SET" /\ Len(c) = 3) => c[2] \in Key /\ c[3] \in Value
        /\ (Verb(c) = "GET" /\ Len(c) = 2) => c[2] \in Key
        /\ Verb(c) = "DEL" => \A i \in 2 .. Len(c) : c[i] \in Key
=============================================================================
