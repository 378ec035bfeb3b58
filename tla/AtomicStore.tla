----------------------------- MODULE AtomicStore -----------------------------
(***************************************************************************)
(* What the replicated store promises its clients: one database, one       *)
(* request at a time.  A request is either performed in one step on the    *)
(* latest database and answered with its result, or refused with an error  *)
(* and without any effect.  Neither replicas nor transactions are visible. *)
(***************************************************************************)
EXTENDS KVStore

VARIABLES
    latest,    \* the database every client sees
    serving,   \* is a client being served?
    request,   \* the request of that client, <<>> when there is none
    answer     \* what the last client was answered

storeVars == <<latest, serving, request, answer>>

StoreInit ==
    /\ latest = EmptyDatabase
    /\ serving = FALSE
    /\ request = <<>>
    /\ answer = ErrorReply

Submit ==
    /\ ~serving
    /\ serving' = TRUE
    /\ request' \in Command
    /\ answer' = ErrorReply
    /\ UNCHANGED latest

\* The request takes effect and is answered, both at once.
Perform ==
    LET run == eventParser(latest, request) IN
    /\ serving
    /\ run.reply # ErrorReply
    /\ latest' = run.db
    /\ answer' = run.reply
    /\ serving' = FALSE
    /\ request' = <<>>

Refuse ==
    /\ serving
    /\ answer' = ErrorReply
    /\ serving' = FALSE
    /\ request' = <<>>
    /\ UNCHANGED latest

StoreNext == Submit \/ Perform \/ Refuse

StoreSpec == StoreInit /\ [][StoreNext]_storeVars
=============================================================================
