------------------------------ MODULE SourceDates ------------------------------
(***************************************************************************)
(* sourceDateStart and sourceDateEnd as they are: texts.  The OpenAPI      *)
(* schema asks for date-time strings, nothing in the gateway parses them,  *)
(* and isDatesValid compares with <=, which for two strings is the order   *)
(* of their characters.  Module Records has numbers for dates; here is     *)
(* under which condition that is right, and what happens without it.       *)
(***************************************************************************)
EXTENDS Integers, Sequences

CONSTANTS
    Written,    \* the timestamps that clients write
    Rewrites,   \* the catalog answers with timestamps of its own, in UTC
    Precision,  \* with this many digits after the seconds
    Undefined   \* a date that the payload omits, or that nobody has stored

(***************************************************************************)
(* A timestamp such as 2024-05-01T10:00:00.125+02:00.  `clock' is its text *)
(* up to the seconds, which sorts as it counts; a fraction of any number   *)
(* of digits may follow, and then the zone: Z or an offset, in units of    *)
(* clock.                                                                  *)
(***************************************************************************)
Timestamps ==
  { t \in [clock : Nat, digits : Seq(0..9), sign : {"Z", "+", "-"}, offset : Nat] :
      t.sign = "Z" => t.offset = 0 }

ASSUME WrittenAssumption ==
  /\ Written \subseteq Timestamps
  /\ \A t \in Written : t.offset <= t.clock
  /\ Undefined \notin Timestamps
  /\ Rewrites \in BOOLEAN
  /\ Precision \in Nat

(***************************************************************************)
(* The characters of a timestamp by their codes, the clock and the offset, *)
(* of fixed width each, as one.  Text(t)[2] is what follows the seconds: a *)
(* point or the zone.                                                      *)
(***************************************************************************)
Code == [Z |-> 90, plus |-> 43, minus |-> 45, point |-> 46, zero |-> 48]

ZoneMark(t) ==
  CASE t.sign = "Z" -> Code.Z
    [] t.sign = "+" -> Code.plus
    [] t.sign = "-" -> Code.minus

Fraction(t) ==
  IF t.digits = <<>>
  THEN <<>>
  ELSE <<Code.point>> \o [i \in DOMAIN t.digits |-> Code.zero + t.digits[i]]

Text(t) == <<t.clock>> \o Fraction(t) \o <<ZoneMark(t), t.offset>>

(***************************************************************************)
(* startDate <= endDate on strings: the first character in which they      *)
(* differ decides.  No timestamp is the beginning of another.              *)
(***************************************************************************)
FirstDifference(u, v, i) == u[i] # v[i] /\ \A j \in 1..i - 1 : u[j] = v[j]

isDatesValid(s, t) ==
  \A i \in DOMAIN Text(s) \cap DOMAIN Text(t) :
    FirstDifference(Text(s), Text(t), i) => Text(s)[i] < Text(t)[i]

(***************************************************************************)
(* The instant a timestamp stands for: its second, in UTC, and the digits  *)
(* of what follows, which are zero where none is written.                  *)
(***************************************************************************)
East(t) == IF t.sign = "-" THEN -t.offset ELSE t.offset

Second(t)   == t.clock - East(t)
Digit(t, i) == IF i \in DOMAIN t.digits THEN t.digits[i] ELSE 0

isLater(s, t) ==
  \/ Second(s) > Second(t)
  \/ /\ Second(s) = Second(t)
     /\ \E i \in DOMAIN s.digits :
          /\ Digit(s, i) > Digit(t, i)
          /\ \A j \in 1..i - 1 : Digit(s, j) = Digit(t, j)

(* How the catalog writes a timestamp, cutting it off or filling it up.    *)
Utc(t) ==
  [ clock |-> Second(t), digits |-> [i \in 1..Precision |-> Digit(t, i)],
    sign |-> "Z", offset |-> 0 ]

Stored(t) == IF Rewrites THEN Utc(t) ELSE t

-----------------------------------------------------------------------------
VARIABLES
    start,  \* sourceDateStart of the record, as the catalog answers with it
    end     \* sourceDateEnd

dates == <<start, end>>

Exists == start # Undefined

Or(given, stored) == IF given = Undefined THEN stored ELSE given

(* Mutant: dates are compared only if the payload gives both.              *)
isUpdateInOrder_GivenOnly(s, e) ==
  s # Undefined /\ e # Undefined => isDatesValid(s, e)

isUpdateInOrder(s, e) ==
  s # Undefined \/ e # Undefined => isDatesValid(Or(s, start), Or(e, end))

InitDates == start = Undefined /\ end = Undefined

(* The dates of a new model, both of them required.                        *)
IngestDates(s, e) ==
  /\ ~Exists
  /\ isDatesValid(s, e)
  /\ start' = Stored(s)
  /\ end' = Stored(e)

(* The dates of an update: either, both or none.                           *)
UpdateDates(s, e) ==
  /\ Exists
  /\ isUpdateInOrder(s, e)
  /\ start' = IF s = Undefined THEN start ELSE Stored(s)
  /\ end' = IF e = Undefined THEN end ELSE Stored(e)

-----------------------------------------------------------------------------
(***************************************************************************)
(* What the error message of validationManager.ts:22 promises, as the      *)
(* instants have it: the record never starts later than it ends, whatever  *)
(* sequence of accepted requests made it.                                  *)
(***************************************************************************)
InstantsOrdered == Exists => ~isLater(start, end)

(***************************************************************************)
(* All clients write their dates alike: in one zone, and with one number   *)
(* of digits after the seconds; and as the catalog does, if it rewrites    *)
(* them.                                                                   *)
(***************************************************************************)
WrittenAlike ==
  /\ \A s, t \in Written :
       s.sign = t.sign /\ s.offset = t.offset /\ Len(s.digits) = Len(t.digits)
  /\ Rewrites => \A t \in Written : t.sign = "Z" /\ Len(t.digits) = Precision
================================================================================
