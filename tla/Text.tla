-------------------------------- MODULE Text --------------------------------
(***************************************************************************)
(* Configuration text.  A text is a sequence of lexemes; two neighbours    *)
(* stand side by side without a blank, so <<"chain", "inner">> is the word *)
(* chaininner.  No keyword of the grammar begins another word and no two   *)
(* words in a row spell a third, so a rule of the grammar that matches     *)
(* characters matches whole lexemes.                                       *)
(*                                                                         *)
(* Reading and printing numbers is what std::istringstream, std::stoi and  *)
(* operator<< of the standard library do.                                  *)
(***************************************************************************)
EXTENDS Integers, SequencesExt

CONSTANTS
    Names,     \* words in lower case that are no keywords
    Types,     \* words in upper case: packet types, known or not
    Numbers    \* the numbers a text can hold

Keywords ==
    {"default_action", "accept", "reject", "call", "goto", "chain", "default",
     "if", "from", "to", "with", "priority", "any", "udp", "port", "address",
     "max_bitrate", "serial", "device", "baudrate", "flow_control", "preload",
     "yes", "no"}

\* A number that does not fit into 32 bits, and what it reads as.
Overlong == "99999999999"
Huge == 2147483647

Numerals == {ToString(n) : n \in Numbers} \cup {Overlong}
ValueOf == [l \in Numerals |->
              IF l = Overlong THEN Huge
              ELSE CHOOSE n \in Numbers : ToString(n) = l]

IsNumber(l) == l \in Numerals

Words == Keywords \cup Names \cup Types
Blanks == {" ", "\n"}

-----------------------------------------------------------------------------

\* The number two neighbours spell
Joined(a, b) ==
    LET scale == Min({p \in {10 ^ k : k \in 1 .. 9} : b < p})
    IN  IF a > (Huge - b) \div scale THEN Huge ELSE a * scale + b

\* Every number of t, in order; what stands between them counts as a blank.
NumbersIn(t) ==
    LET Take(acc, l) ==
          IF ~ IsNumber(l) THEN [acc EXCEPT !.open = FALSE]
          ELSE IF acc.open
               THEN [acc EXCEPT !.numbers = Front(@) \o
                                   <<Joined(Last(@), ValueOf[l])>>]
               ELSE [open |-> TRUE,
                     numbers |-> Append(acc.numbers, ValueOf[l])]
    IN  FoldLeft(Take, [open |-> FALSE, numbers |-> <<>>], t).numbers

\* istringstream >> int: a sign, then digits; what has none reads as zero.
ReadInteger(t) ==
    LET body == IF t # <<>> /\ t[1] \in {"+", "-"} THEN Tail(t) ELSE t
        size == IF body # <<>> /\ IsNumber(body[1])
                THEN NumbersIn(body)[1] ELSE 0
    IN  IF t # <<>> /\ t[1] = "-" THEN 0 - size ELSE size

\* operator<< of an integer
PrintInteger(n) == IF n < 0 THEN <<"-", ToString(0 - n)>> ELSE <<ToString(n)>>

-----------------------------------------------------------------------------
(* The outcome of an operation that may throw *)

Value(v) == [error |-> "none", value |-> v]
Throws(error) == [error |-> error, value |-> "none"]
Good(result) == result.error = "none"

\* The next step, which an exception leaves out.
Then(result, Step(_)) == IF Good(result) THEN Step(result.value) ELSE result

\* std::optional
Unset == [set |-> FALSE]
Set(v) == [set |-> TRUE, value |-> v]
OptionalOf(S) == {Unset} \cup [set : {TRUE}, value : S]
=============================================================================
