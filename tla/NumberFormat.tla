---------------------------- MODULE NumberFormat ----------------------------
(***************************************************************************)
(* view::stringWithoutTrailingZeros: all threads write their numbers into  *)
(* one static stringstream, each over what the number before left there.   *)
(*                                                                         *)
(* A number is its sign and its hundredths, rounded; a negative one may    *)
(* round to zero. A definition whose name ends in Mutant is a faulty       *)
(* variant of the one after it and no part of the specification.           *)
(***************************************************************************)
EXTENDS Integers, Sequences

CONSTANTS Thread, Number

Free == "free"

ASSUME NumberAssumption ==
    /\ Free \notin Thread
    /\ \A n \in Number : n.negative \in BOOLEAN /\ n.hundredths \in Nat

VARIABLES
    mutex,
    buffer,     \* what the stream holds, from its beginning
    putPos,     \* where it writes next
    firstTime,
    formatPc, number, result

numberVars == <<mutex, buffer, putPos, firstTime, formatPc, number, result>>

Nul == "NUL"
Digit == <<"0", "1", "2", "3", "4", "5", "6", "7", "8", "9">>
Text == Seq({Digit[k] : k \in 1 .. 10} \cup {".", "-", Nul})
Zero == [negative |-> FALSE, hundredths |-> 0]

NumberTypeOK ==
    /\ mutex \in Thread \cup {Free}
    /\ buffer \in Text /\ putPos \in 0 .. Len(buffer) /\ firstTime \in BOOLEAN
    /\ formatPc \in [Thread -> {"idle", "seek", "write", "read", "done"}]
    /\ number \in [Thread -> Number \cup {Zero}]
    /\ result \in [Thread -> Text]
    /\ \A t \in Thread : formatPc[t] \in {"seek", "write", "read"} <=> mutex = t

NumberInit ==
    /\ mutex = Free /\ buffer = <<>> /\ putPos = 0 /\ firstTime = TRUE
    /\ formatPc = [t \in Thread |-> "idle"]
    /\ number = [t \in Thread |-> Zero]
    /\ result = [t \in Thread |-> <<>>]

Decimal[n \in Nat] ==
    (IF n < 10 THEN <<>> ELSE Decimal[n \div 10]) \o <<Digit[(n % 10) + 1]>>

\* configNumberFormat: fixed, two decimal places.
Fixed(n) ==
    (IF n.negative THEN <<"-">> ELSE <<>>) \o Decimal[n.hundredths \div 100]
        \o <<".">> \o <<Digit[((n.hundredths \div 10) % 10) + 1]>>
        \o <<Digit[(n.hundredths % 10) + 1]>>

FormatGoes(t, from, to) ==
    formatPc[t] = from /\ formatPc' = [formatPc EXCEPT ![t] = to]

LockMutant(t, n) ==
    /\ FormatGoes(t, "idle", "seek")
    /\ mutex' = t
    /\ number' = [number EXCEPT ![t] = n]
    /\ UNCHANGED <<buffer, putPos, firstTime, result>>

Lock(t, n) ==
    /\ FormatGoes(t, "idle", "seek")
    /\ mutex = Free /\ mutex' = t
    /\ number' = [number EXCEPT ![t] = n]
    /\ UNCHANGED <<buffer, putPos, firstTime, result>>

SeekMutant(t) ==
    /\ FormatGoes(t, "seek", "write")
    /\ firstTime' = FALSE
    /\ UNCHANGED <<mutex, buffer, putPos, number, result>>

Seek(t) ==
    /\ FormatGoes(t, "seek", "write")
    /\ putPos' = IF firstTime THEN putPos ELSE 0
    /\ firstTime' = FALSE
    /\ UNCHANGED <<mutex, buffer, number, result>>

WriteMutant(t) ==
    LET text == Fixed(number[t])
        end  == putPos + Len(text)
    IN  /\ FormatGoes(t, "write", "read")
        /\ buffer' = SubSeq(buffer, 1, putPos) \o text
                         \o SubSeq(buffer, end + 1, Len(buffer))
        /\ putPos' = end
        /\ UNCHANGED <<mutex, firstTime, number, result>>

\* The number and a NUL, over what stands there.
Write(t) ==
    LET text == Append(Fixed(number[t]), Nul)
        end  == putPos + Len(text)
    IN  /\ FormatGoes(t, "write", "read")
        /\ buffer' = SubSeq(buffer, 1, putPos) \o text
                         \o SubSeq(buffer, end + 1, Len(buffer))
        /\ putPos' = end
        /\ UNCHANGED <<mutex, firstTime, number, result>>

\* c_str(): up to the first NUL.
CString(text) ==
    CHOOSE s \in {SubSeq(text, 1, n) : n \in 0 .. Len(text)} :
        /\ \A k \in DOMAIN s : s[k] # Nul
        /\ Len(s) = Len(text) \/ text[Len(s) + 1] = Nul

\* find_last_not_of, 0 for npos.
LastNotOf(text, c) ==
    CHOOSE n \in 0 .. Len(text) :
        /\ n = 0 \/ text[n] # c
        /\ \A k \in n + 1 .. Len(text) : text[k] = c

Stripped(text) ==
    LET pos   == LastNotOf(text, "0")
        short == IF pos = 0 THEN text ELSE SubSeq(text, 1, pos)
    IN  IF short[Len(short)] = "." THEN SubSeq(short, 1, Len(short) - 1)
        ELSE short

Read(t) ==
    /\ FormatGoes(t, "read", "done")
    /\ result' = [result EXCEPT ![t] = Stripped(CString(buffer))]
    /\ mutex' = Free
    /\ UNCHANGED <<buffer, putPos, firstTime, number>>

Use(t) ==
    /\ FormatGoes(t, "done", "idle")
    /\ number' = [number EXCEPT ![t] = Zero]
    /\ result' = [result EXCEPT ![t] = <<>>]
    /\ UNCHANGED <<mutex, buffer, putPos, firstTime>>

FormatStep(t) ==
    \/ \E n \in Number : Lock(t, n)
    \/ Seek(t) \/ Write(t) \/ Read(t) \/ Use(t)

NumberSpec == NumberInit /\ [][\E t \in Thread : FormatStep(t)]_numberVars

-----------------------------------------------------------------------------
(***************************************************************************)
(* Properties.                                                             *)
(***************************************************************************)
HasPoint(text) == \E k \in DOMAIN text : text[k] = "."

ZerosRestored(text) ==
    IF ~HasPoint(text) THEN text \o <<".", "0", "0">>
    ELSE IF text[Len(text) - 1] = "." THEN Append(text, "0")
    ELSE text

\* "use mutex because we have only one buffer, and this function can be called
\* from multiple threads at once": a thread gets the text of its own number,
\* with nothing of a longer number before it, and with its trailing zeros gone
\* but none of those that count.
EachGetsItsOwnNumber ==
    \A t \in Thread : formatPc[t] = "done" =>
        /\ ZerosRestored(result[t]) = Fixed(number[t])
        /\ HasPoint(result[t]) => result[t][Len(result[t])] \notin {"0", "."}

\* The stream is rewritten from its beginning and keeps the size of the
\* longest number, however many numbers there have been.
BufferStaysSmall ==
    \E n \in Number \cup {Zero} : Len(buffer) <= Len(Fixed(n)) + 1
=============================================================================
