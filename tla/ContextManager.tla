--------------------------- MODULE ContextManager ---------------------------
(***************************************************************************)
(* The context manager: which messages of a conversation the next request  *)
(* to the model takes along.  A message is its role and its length; the    *)
(* instructions, which Build puts before all of them and does not count,   *)
(* are left out.                                                           *)
(***************************************************************************)
EXTENDS Integers, Sequences

CONSTANTS BudgetChars, OutputReserveChars  \* 0 for the default

ASSUME BudgetAssumption == {BudgetChars, OutputReserveChars} \subseteq Nat

Message(sizes) == [role : {"text", "tool"}, size : sizes]

\* What a request may hold, once the answer has its share.
Available ==
  LET budget == IF BudgetChars = 0 THEN 120000 ELSE BudgetChars
      tenth == IF budget \div 10 > 12000 THEN 12000 ELSE budget \div 10
  IN budget - (IF OutputReserveChars = 0 THEN tenth ELSE OutputReserveChars)

\* A tool result that is longer than its limit is cut; 0 is no limit.
TooLong(m, limit) == m.role = "tool" /\ limit > 0 /\ m.size > limit

\* What is left of its end once half of the limit and the marker are taken off;
\* under a limit below 32 no end is kept.
EndKept(limit) == limit - limit \div 2 - 17

\* Cutting slices the text at that distance from its end, beyond it if negative.
Panics(m, limit) == TooLong(m, limit) /\ limit >= 32 /\ EndKept(limit) < 0

\* Where cutting does not panic the text is as long as the limit, marker included.
Truncated(m, limit) == IF TooLong(m, limit) THEN [m EXCEPT !.size = limit] ELSE m

\* Mutant: a tool result is counted before it is cut.
MUT_TakenUncut(messages, limit) ==
  LET n == Len(messages)
      taken[k \in 0..n] ==
        IF k = 0 THEN [start |-> n + 1, used |-> 0]
        ELSE LET so == taken[k - 1]
                 i == n - k + 1
             IN IF /\ so.start = i + 1 /\ ~Panics(messages[i], limit)
                   /\ so.used + messages[i].size <= Available
                THEN [start |-> i, used |-> so.used + messages[i].size]
                ELSE so
  IN taken

\* The messages taken along after k rounds: from the last one backwards until
\* one does not fit, or cannot be cut.
Taken(messages, limit) ==
  LET n == Len(messages)
      taken[k \in 0..n] ==
        IF k = 0 THEN [start |-> n + 1, used |-> 0]
        ELSE LET so == taken[k - 1]
                 i == n - k + 1
                 size == Truncated(messages[i], limit).size
             IN IF so.start = i + 1 /\ ~Panics(messages[i], limit) /\ so.used + size <= Available
                THEN [start |-> i, used |-> so.used + size]
                ELSE so
  IN taken

\* The first message that is taken along.
Start(messages, limit) == Taken(messages, limit)[Len(messages)].start

\* Build panics at the message before those it has taken along.
Panicked(messages, limit) ==
  Available > 0 /\ Start(messages, limit) > 1 /\ Panics(messages[Start(messages, limit) - 1], limit)

\* Not even the last message fits (ErrBudgetExceeded).
Exceeded(messages, limit) ==
  \/ Available <= 0
  \/ messages # <<>> /\ Start(messages, limit) > Len(messages) /\ ~Panicked(messages, limit)

Build(messages, limit) ==
  [i \in 1..(Len(messages) - Start(messages, limit) + 1) |->
     Truncated(messages[Start(messages, limit) + i - 1], limit)]

\* The lengths of the first messages together.
Sums(messages) ==
  LET sums[k \in 0..Len(messages)] == IF k = 0 THEN 0 ELSE sums[k - 1] + messages[k].size
  IN sums

Chars(messages) == Sums(messages)[Len(messages)]

=============================================================================
