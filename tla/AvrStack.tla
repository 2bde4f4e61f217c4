------------------------------ MODULE AvrStack ------------------------------
(***************************************************************************)
(* What PUSH, POP, CALL and RET promise a program: a bounded last-in       *)
(* first-out stack of bytes on which a return address travels as two bytes *)
(* and comes back as the word it was.                                      *)
(***************************************************************************)
EXTENDS AvrBits, Sequences

CONSTANT Capacity   \* bytes the stack can hold

VARIABLES
  stack,   \* the live bytes, top first
  moved    \* the byte or address the last stack operation moved, or Nothing

stackvars == <<stack, moved>>

Nothing == -1

Init == stack = <<>> /\ moved = Nothing

Push ==
  /\ Len(stack) < Capacity
  /\ moved' \in Byte
  /\ stack' = <<moved'>> \o stack

Pop ==
  /\ stack # <<>>
  /\ moved' = Head(stack)
  /\ stack' = Tail(stack)

PushAddress ==
  /\ Len(stack) + 2 <= Capacity
  /\ moved' \in Word
  /\ stack' = <<LowByte(moved'), HighByte(moved')>> \o stack

PopAddress ==
  /\ Len(stack) >= 2
  /\ moved' = WordOf(stack[2], stack[1])
  /\ stack' = SubSeq(stack, 3, Len(stack))

\* A store reaches a live byte: the stack lies in ordinary memory.
Overwrite ==
  /\ moved' = Nothing
  /\ \E k \in DOMAIN stack, b \in Byte : stack' = [stack EXCEPT ![k] = b]

\* Anything else, a refused stack operation included, or a reset.
Other == moved' = Nothing /\ stack' \in {stack, <<>>}

Next == Push \/ Pop \/ PushAddress \/ PopAddress \/ Overwrite \/ Other

Spec == Init /\ [][Next]_stackvars
=============================================================================
