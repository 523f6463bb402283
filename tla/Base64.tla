------------------------------- MODULE Base64 -------------------------------
(***************************************************************************)
(* base64.cpp: how an image travels in the JSON body of POST /api/ocr.  A  *)
(* byte is in 0..255.  A character is the number 0..63 it stands for, Pad  *)
(* for "=", Space for white space, or Other.                               *)
(***************************************************************************)
EXTENDS Integers, SequencesExt

Pad == 64
Space == 65
Other == 66
Bytes == 0..255

Byte(data, i) == IF i <= Len(data) THEN data[i] ELSE 0

(* Mutant: the last group ends in one "=", whatever it holds. *)
OnePad(data, i) ==
  LET a == Byte(data, i)
      b == Byte(data, i + 1)
      c == Byte(data, i + 2)
  IN  << a \div 4, (a % 4) * 16 + b \div 16, (b % 16) * 4 + c \div 64,
         IF i + 2 <= Len(data) THEN c % 64 ELSE Pad >>

(* The 24 bits of the group of three bytes that starts at i, six at a time. *)
Group(data, i) ==
  LET a == Byte(data, i)
      b == Byte(data, i + 1)
      c == Byte(data, i + 2)
  IN  << a \div 4, (a % 4) * 16 + b \div 16,
         IF i + 1 <= Len(data) THEN (b % 16) * 4 + c \div 64 ELSE Pad,
         IF i + 2 <= Len(data) THEN c % 64 ELSE Pad >>

(* base64_encode() *)
Encode(data) ==
  [k \in 1..(4 * ((Len(data) + 2) \div 3)) |->
     Group(data, 3 * ((k - 1) \div 4) + 1)[((k - 1) % 4) + 1]]

(* The loop of base64_decode(): a space is skipped, "=" ends the loop and   *)
(* whatever else is no character of the alphabet ends it with an error.     *)
(* Of the int `value' only the bits that no byte has had yet are kept; no   *)
(* others are read again.                                                   *)
Power2 == <<1, 2, 4, 8, 16, 32>>
Held(phase, saw_payload, value, bits, result) ==
  [phase |-> phase, saw_payload |-> saw_payload, value |-> value, bits |-> bits,
   result |-> result]

Take(state, c) ==
  LET value == 64 * state.value + c
      bits == state.bits + 6
      unit == Power2[bits + 1]
  IN  IF bits < 0
      THEN Held("reading", TRUE, value, bits, state.result)
      ELSE Held("reading", TRUE, value % unit, bits - 8,
                Append(state.result, (value \div unit) % 256))

Step(state, c) ==
  IF state.phase # "reading" \/ c = Space THEN state
  ELSE IF c = Pad THEN [state EXCEPT !.phase = "padded"]
  ELSE IF c = Other THEN [state EXCEPT !.phase = "invalid"]
  ELSE Take(state, c)

(* base64_decode() *)
Decode(input) ==
  LET run[k \in 0..Len(input)] == IF k = 0 THEN Held("reading", FALSE, 0, -8, <<>>)
                                ELSE Step(run[k - 1], input[k])
      last == run[Len(input)]
  IN  IF last.phase = "invalid"
      THEN [ok |-> FALSE, error |-> "Invalid base64 character"]
      ELSE IF ~last.saw_payload /\ input # <<>>
      THEN [ok |-> FALSE, error |-> "Empty base64 payload"]
      ELSE [ok |-> TRUE, bytes |-> last.result]
=============================================================================
