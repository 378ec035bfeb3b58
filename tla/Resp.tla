-------------------------------- MODULE Resp --------------------------------
(***************************************************************************)
(* What Lab 3 writes on its sockets: RESP commands and replies, tasks, and *)
(* packets.  A byte is a number; a run of letters that nothing looks into, *)
(* such as a label, a verb or an OK, counts as one byte.                   *)
(***************************************************************************)
EXTENDS Participant, SequencesExt

CONSTANTS
    spell(_),     \* the bytes of a word
    MaxLeft,      \* bound: so many of the bytes that are there a receive may leave
    survives(_),  \* bound: how many of n bytes may arrive when a connection breaks
    NumberLen     \* bound: so many bytes are a packet's length; 8 in the source

ASSUME NumberLenAssumption == NumberLen \in Nat \ {0}

\* A word of a command is known by its bytes.
Word == UNION {{c[i] : i \in DOMAIN c} : c \in Command}

ASSUME SpellingAssumption ==
    /\ \A word \in Word \cup Value \cup {Nil} : spell(word) \in Seq(Nat)
    /\ \A word, other \in Word : spell(word) = spell(other) => word = other

CR == 13
LF == 10
CRLF == <<CR, LF>>
STAR == 42
PLUS == 43
MINUS == 45
DOLLAR == 36
COLON == 58
TILDE == 126
TXID == 1001          \* "TXID: "
S == 1002             \* "S: "
OK == 1003
ERROR == 1004
PRE == 1005

isDigit(b) == b \in 48 .. 57

\* std::to_string and strtol, which stops at the first byte that is no digit.
to_string(n) ==
    LET digits[k \in 0 .. n] == IF k < 10 THEN <<48 + k>>
                                ELSE Append(digits[k \div 10], 48 + (k % 10))
    IN  digits[n]

strtol(bytes) ==
    LET value[k \in 0 .. Len(bytes)] ==
            IF k = 0 THEN 0 ELSE value[k - 1] * 10 + (bytes[k] - 48)
        digits == {k \in 0 .. Len(bytes) : \A i \in 1 .. k : isDigit(bytes[i])}
    IN  value[CHOOSE k \in digits : \A i \in digits : i <= k]

(***************************************************************************)
(* parser.cc.  Where a message is given as a pointer into a longer one,    *)
(* here is the rest of the longer one; what is read comes with its length. *)
(***************************************************************************)
getStringMessage(raw) == <<DOLLAR>> \o to_string(Len(raw)) \o CRLF \o raw \o CRLF
getSuccessMessage == <<PLUS, OK>> \o CRLF
getErrorMessage == <<MINUS, ERROR>> \o CRLF
getIntergerMessage(n) == <<COLON>> \o to_string(n) \o CRLF

getRESPArry(words) ==
    <<STAR>> \o to_string(Len(words)) \o CRLF
        \o FlattenSeq([i \in DOMAIN words |-> getStringMessage(words[i])])

from(message, pos) == SubSeq(message, pos + 1, Len(message))

parseStringMessage(message) ==
    LET strl == strtol(Tail(message))
        pos  == 3 + Len(to_string(strl))
    IN  [word |-> SubSeq(message, pos + 1, pos + strl), length |-> pos + strl + 2]

parserRESPArry(message) ==
    LET number == strtol(Tail(message))
        pos[i \in 0 .. number] ==
            IF i = 0 THEN 3 + Len(to_string(number))
            ELSE pos[i - 1] + parseStringMessage(from(message, pos[i - 1])).length
    IN  [i \in 1 .. number |-> parseStringMessage(from(message, pos[i - 1])).word]

(***************************************************************************)
(* logger.cc.  A task is a Log; the event is a command, a number or        *)
(* nothing.                                                                *)
(***************************************************************************)
logState == [PRE |-> 1, COMMIT |-> 2]

spelled(words) == [i \in DOMAIN words |-> spell(words[i])]
commandBytes(words) == getRESPArry(spelled(words))

eventBytes(l) ==
    IF l.ID = ASK_DATA_TXID THEN to_string(l.asks)
    ELSE IF l.event = <<>> THEN <<>> ELSE commandBytes(l.event)

logToStr(l) ==
    <<TXID>> \o to_string(l.ID) \o CRLF \o <<S>> \o to_string(logState[l.state])
        \o CRLF \o CRLF \o eventBytes(l)

find(str, sub) ==
    LET at == {i \in 1 .. Len(str) - Len(sub) + 1 : SubSeq(str, i, i + Len(sub) - 1) = sub}
    IN  CHOOSE i \in at : \A j \in at : i <= j

\* The number behind a label, and what follows its line.
number(str, label) == strtol(from(str, find(str, <<label>>)))
nextLine(str) == from(str, find(str, CRLF) + 1)

wordOf(bytes) == CHOOSE word \in Word : spell(word) = bytes
wordsOf(seq) == [i \in DOMAIN seq |-> wordOf(seq[i])]

strToLog(str) ==
    LET id    == number(str, TXID)
        rest  == nextLine(str)
        state == CHOOSE s \in LogState : logState[s] = number(rest, S)
        event == from(rest, find(rest, CRLF) + 3)
    IN  IF id = ASK_DATA_TXID THEN AskLog(strtol(event))
        ELSE Log(id, state, IF event = <<>> THEN <<>> ELSE wordsOf(parserRESPArry(event)))

\* The text of a reply.
replyBytes(r) ==
    CASE r.kind = "ERROR" -> getErrorMessage
      [] r.kind = "OK"    -> getSuccessMessage
      [] r.kind = "PRE"   -> <<PRE>>
      [] r.kind = "EMPTY" -> <<>>
      [] r.kind = "COUNT" -> getIntergerMessage(r.n)
      [] r.kind = "VALUE" -> getRESPArry(<<spell(r.value)>>)
      [] r.kind = "TXID"  -> to_string(r.txid)
      [] r.kind = "LOG"   -> logToStr(r.log)

(***************************************************************************)
(* A packet is a "~", the length in NumberLen bytes, and the content.      *)
(***************************************************************************)
HeaderLen == 1 + NumberLen

\* What a byte counts for; the lowest comes first.
place[i \in 0 .. NumberLen] == IF i = 0 THEN 1 ELSE 256 * place[i - 1]

numtob(n) == [i \in 1 .. NumberLen |-> (n \div place[i - 1]) % 256]
btonum(header) ==
    LET value[i \in 0 .. NumberLen] ==
            IF i = 0 THEN 0 ELSE value[i - 1] + header[i + 1] * place[i - 1]
    IN  value[NumberLen]

packet(msg) == <<TILDE>> \o numtob(Len(msg)) \o msg

(***************************************************************************)
(* A stream: what is on its way, in order.  Who asks for n bytes gets a    *)
(* piece of them.                                                          *)
(***************************************************************************)
first(stream, n) == SubSeq(stream, 1, n)
rest(stream, n) == SubSeq(stream, n + 1, Len(stream))

pieces(stream, n) ==
    LET most == IF n < Len(stream) THEN n ELSE Len(stream)
    IN  {k \in 1 .. most : most - k <= MaxLeft}

torn(stream) == {first(stream, n) : n \in survives(Len(stream)) \cap (0 .. Len(stream))}
=============================================================================
