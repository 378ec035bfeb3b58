------------------------------- MODULE MCWire -------------------------------
(***************************************************************************)
(* An instance of Wire: one participant, two clients, one key.  The value  *)
(* has a "~", a "*" and the end of a line in it.                           *)
(***************************************************************************)
EXTENDS WireInvariant

Set == <<"SET", "k", "v">>
Get == <<"GET", "k">>
Ping == <<"PING">>
Commands == {Set, Get, Ping}

\* A word that is a run of letters is one byte.
Spelling ==
    [SET |-> <<1101>>, GET |-> <<1102>>, PING |-> <<1105>>, k |-> <<1103>>,
     v |-> <<TILDE, 0, STAR>>, nil |-> <<1104>>]
SpellWord(word) == Spelling[word]

\* Of what is on its way everything, nothing, or a part is left.
Surviving(n) == {0, 9, n}

Clients == Permutations(Client)

\* What is written is what is read.
ASSUME \A c \in Command : wordsOf(parserRESPArry(commandBytes(c))) = c
ASSUME \A l \in {AskLog(t) : t \in Txid} \cup {Log(RECOVERY_TXID, "PRE", <<>>)}
            \cup {Log(t, s, c) : t \in {SUPER_TXID} \cup Txid, s \in LogState,
                                 c \in Command \cup {<<>>}} :
          strToLog(logToStr(l)) = l
=============================================================================
