------------------------------ MODULE UnaryCalc ------------------------------
(***************************************************************************)
(* The calculator of ALP appendix A (calculator.c, stack.c, number.c): a   *)
(* number is a chain of malloced cells, so every operation allocates and   *)
(* frees.  The heap is a function from the allocated cells to their        *)
(* one_less_; 0 is the null pointer, the number zero.  A token of a line   *)
(* is one step.  malloc does not fail: the code does not look.             *)
(***************************************************************************)
EXTENDS Integers, Sequences, FiniteSets

CONSTANTS MaxDigit,  \* bound: a number typed is 0 .. MaxDigit
          MaxNumber, \* bound on a sum or product
          MaxDepth   \* bound on the numbers on the stack

ASSUME UnaryCalcAssumption == {MaxDigit, MaxNumber, MaxDepth} \subseteq Nat

VARIABLES heap,         \* one_less_ of every allocated cell
          number_stack, \* the top first
          calcStatus,   \* "line", "return 0", "return 1" or "abort"
          printed,      \* the last answer
          values        \* history: the stack of a calculator on Nat

unaryVars == <<heap, number_stack, calcStatus, printed, values>>

make_zero == 0
zerop(n)  == n = 0

\* Behind the cell n.
one_less(h, n) == IF zerop(n) THEN make_zero ELSE h[n]

\* Where the loops over n are after i turns.
Below(h, n) == LET at[i \in Nat] == IF i = 0 THEN n ELSE one_less(h, at[i - 1]) IN at

number_to_unsigned_int(h, n) ==
  CHOOSE k \in 0 .. Cardinality(DOMAIN h) :
    zerop(Below(h, n)[k]) /\ \A i \in 0 .. k - 1 : ~zerop(Below(h, n)[i])

\* The first k cells of n.
TopCells(h, n, k)  == {Below(h, n)[i] : i \in 0 .. k - 1}
CellsOfNumber(h, n) == TopCells(h, n, number_to_unsigned_int(h, n))

\* Functions that change the heap return it with their number.
Fresh(h) == CHOOSE c \in 1 .. Cardinality(DOMAIN h) + 1 : c \notin DOMAIN h

add_one(h, n) ==
  <<[c \in DOMAIN h \cup {Fresh(h)} |-> IF c = Fresh(h) THEN n ELSE h[c]], Fresh(h)>>

\* k times.
decrement_number(h, n, k) == <<[c \in DOMAIN h \ TopCells(h, n, k) |-> h[c]], Below(h, n)[k]>>

destroy_number(h, n) == decrement_number(h, n, number_to_unsigned_int(h, n))[1]

\* A loop that adds one to answer in each of k turns.
AddOnes(h, answer, k) ==
  LET after[i \in 0 .. k] ==
        IF i = 0 THEN <<h, answer>> ELSE add_one(after[i - 1][1], after[i - 1][2])
  IN after[k]

string_to_number(h, num) == AddOnes(h, make_zero, num)

copy_number(h, n) == AddOnes(h, make_zero, number_to_unsigned_int(h, n))

add(h, n1, n2) ==
  LET copy == copy_number(h, n2)
  IN AddOnes(copy[1], copy[2], number_to_unsigned_int(copy[1], n1))

\* <<>> when the assertion of the loop fails.
subtract(h, n1, n2) ==
  LET copy == copy_number(h, n1)
      subtrahend == number_to_unsigned_int(copy[1], n2)
  IN IF subtrahend > number_to_unsigned_int(copy[1], copy[2]) THEN <<>>
     ELSE decrement_number(copy[1], copy[2], subtrahend)

\* Mutant of AddAgain: the sum so far is not destroyed.
AddAgainLeaks(r, n2) == LET answer2 == add(r[1], r[2], n2) IN answer2

\* One turn of the loop of product on the heap and the sum so far.
AddAgain(r, n2) ==
  LET answer2 == add(r[1], r[2], n2) IN <<destroy_number(answer2[1], r[2]), answer2[2]>>

product(h, n1, n2) ==
  LET after[i \in 0 .. number_to_unsigned_int(h, n1)] ==
        IF i = 0 THEN <<h, make_zero>> ELSE AddAgain(after[i - 1], n2)
  IN after[number_to_unsigned_int(h, n1)]

\* even and odd call each other on one cell less; f is the first of them.
LastCalled(h, n, f) ==
  LET called[i \in Nat] ==
        IF i = 0 THEN f ELSE IF called[i - 1] = "even" THEN "odd" ELSE "even"
  IN called[number_to_unsigned_int(h, n)]

\* Mutant of OfZero: zero is taken for odd.
OfZeroSwapped(h, f) == IF f = "odd" THEN add_one(h, make_zero) ELSE <<h, make_zero>>

OfZero(h, f) == IF f = "even" THEN add_one(h, make_zero) ELSE <<h, make_zero>>

even(h, n) == OfZero(h, LastCalled(h, n, "even"))
odd(h, n)  == OfZero(h, LastCalled(h, n, "odd"))

-----------------------------------------------------------------------------

UnaryCalcInit ==
  /\ heap = <<>> /\ number_stack = <<>> /\ calcStatus = "line"
  /\ printed = 0 /\ values = <<>>

push_stack(s, n) == <<n>> \o s
Push(r, rest) == heap' = r[1] /\ number_stack' = push_stack(rest, r[2])

PushNumber(num) ==
  /\ Len(number_stack) < MaxDepth
  /\ Push(string_to_number(heap, num), number_stack)
  /\ values' = <<num>> \o values
  /\ UNCHANGED <<calcStatus, printed>>

\* A missing operand: main returns 1.
Fail(stack) ==
  /\ calcStatus' = "return 1" /\ number_stack' = stack
  /\ UNCHANGED <<heap, printed, values>>

Operand1 == number_stack[2]
Operand2 == number_stack[1]

\* answer is what the function makes of the two operands, value what it should; neither is
\* looked at before there are two.  With one operand only, it is popped and never destroyed.
apply_binary_function(answer, value) ==
  \/ Len(number_stack) < 2 /\ Fail(<<>>)
  \/ /\ Len(number_stack) >= 2
     /\ \/ /\ answer = <<>> /\ calcStatus' = "abort"
           /\ UNCHANGED <<heap, number_stack, printed, values>>
        \/ /\ answer # <<>> /\ value <= MaxNumber
           /\ Push(<<destroy_number(destroy_number(answer[1], Operand1), Operand2), answer[2]>>,
                   SubSeq(number_stack, 3, Len(number_stack)))
           /\ values' = <<value>> \o SubSeq(values, 3, Len(values))
           /\ UNCHANGED <<calcStatus, printed>>

apply_unary_function(answer, value) ==
  \/ number_stack = <<>> /\ Fail(<<>>)
  \/ /\ number_stack # <<>>
     /\ Push(<<destroy_number(answer[1], number_stack[1]), answer[2]>>, Tail(number_stack))
     /\ values' = <<value>> \o Tail(values)
     /\ UNCHANGED <<calcStatus, printed>>

\* The end of the line: the answer is printed and the rest destroyed.
clear_stack(h, s) ==
  LET after[i \in 0 .. Len(s)] == IF i = 0 THEN h ELSE destroy_number(after[i - 1], s[i])
  IN after[Len(s)]

EndOfLine ==
  \/ number_stack = <<>> /\ Fail(<<>>)
  \/ /\ number_stack # <<>>
     /\ printed' = number_to_unsigned_int(heap, number_stack[1])
     /\ heap' = clear_stack(destroy_number(heap, number_stack[1]), Tail(number_stack))
     /\ number_stack' = <<>> /\ values' = <<>>
     /\ UNCHANGED calcStatus

EndOfFile == calcStatus' = "return 0" /\ UNCHANGED <<heap, number_stack, printed, values>>

UnaryCalcNext ==
  /\ calcStatus = "line"
  /\ \/ \E num \in 0 .. MaxDigit : PushNumber(num)
     \/ apply_binary_function(add(heap, Operand1, Operand2), values[2] + values[1])
     \/ apply_binary_function(subtract(heap, Operand1, Operand2), values[2] - values[1])
     \/ apply_binary_function(product(heap, Operand1, Operand2), values[2] * values[1])
     \/ apply_unary_function(even(heap, number_stack[1]), 1 - (values[1] % 2))
     \/ apply_unary_function(odd(heap, number_stack[1]), values[1] % 2)
     \/ EndOfLine \/ EndOfFile

UnaryCalcSpec == UnaryCalcInit /\ [][UnaryCalcNext]_unaryVars

-----------------------------------------------------------------------------

\* Every allocated cell belongs to one number on the stack: the temporaries
\* of add, subtract and product, the operands and the printed answer were
\* freed, once each (number.c 35, 104; calculator.c 38, 39, 54, 95).
NoCellLeaks ==
  calcStatus = "line" =>
    /\ DOMAIN heap = UNION {CellsOfNumber(heap, number_stack[i]) : i \in DOMAIN number_stack}
    /\ \A i, j \in DOMAIN number_stack : i # j =>
         CellsOfNumber(heap, number_stack[i]) \cap CellsOfNumber(heap, number_stack[j]) = {}

\* The functions on chains of cells compute what the comment of calculator.c
\* (7 to 15) says of "+", "-", "*", "even" and "odd", and the assertion of
\* subtract fails just when the difference would be negative.
CalculatesPostfix ==
  /\ Len(values) = Len(number_stack) \/ calcStatus = "return 1"
  /\ (calcStatus = "abort" => values[2] < values[1])
  /\ calcStatus = "line" => \A i \in 1 .. Len(values) :
       number_to_unsigned_int(heap, number_stack[i]) = values[i]

\* The calculator computes what its comment says, and frees what it allocated.
CalculatorInv == NoCellLeaks /\ CalculatesPostfix
==============================================================================
