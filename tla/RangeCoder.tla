----------------------------- MODULE RangeCoder -----------------------------
(***************************************************************************)
(* The packet compressor of ENet (src/src/enet/compress.c): a range coder  *)
(* over an adaptive model of the bytes seen, the contexts of which are the *)
(* two bytes before.  This program never installs it.                      *)
(*                                                                         *)
(* The widths are constants: a byte is one of Values, a number has four    *)
(* digits to the Base (256 in the code), a count at most CountLimit (255). *)
(* A symbol is named by its place in the array, counted from 1, where the  *)
(* code has offsets, and 0 is none; the root context is the first symbol.  *)
(* The exclusion of contexts, which is compiled out, is left out, and so   *)
(* is the division of the input into buffers.                              *)
(***************************************************************************)
EXTENDS Integers, Sequences, SequencesExt

CONSTANTS
  Values,      \* how many bytes there are, 256
  Base,        \* the digits of the output, 256
  CountLimit,  \* 0xFF
  Slack,       \* the 0x100 that a total stays below BOTTOM
  MaxSymbols,  \* the length of the array, 4096
  MaxLength    \* bound on the input

ASSUME CoderAssumption ==
  /\ {Values, Base, CountLimit, Slack, MaxSymbols, MaxLength} \subseteq Nat \ {0}
  /\ Base * Base > Slack /\ Slack > 7 /\ Base * Base - Slack > Values + 7
  /\ MaxSymbols > 4

Bottom  == Base * Base
Top     == Base * Base * Base
Modulus == Base * Top

SymbolDelta == 3
EscapeMinimum == 1
SubSymbolDelta == 2
SubEscapeDelta == 5
SubOrder == 2

Delta(context)   == IF context = 1 THEN SymbolDelta ELSE SubSymbolDelta
Minimum(context) == IF context = 1 THEN 1 ELSE 0

Symbol(value, count) ==
  [value |-> value, count |-> count, under |-> count, left |-> 0, right |-> 0,
   symbols |-> 0, escapes |-> 0, total |-> 0, parent |-> 1]

Root == 1
FreshModel == <<[Symbol(0, 0) EXCEPT !.escapes = EscapeMinimum,
                                     !.total = EscapeMinimum + Values]>>

-----------------------------------------------------------------------------
(***************************************************************************)
(* The range coder: where the first digit of the interval is settled, or   *)
(* the interval is too narrow, a digit goes out.                           *)
(***************************************************************************)
Digit(number) == (number % Modulus) \div Top
Settled(low, range) == Digit(low) = Digit(low + range)

\* Mutated Narrowed: a narrow interval around a carry keeps its width.
NarrowedNever(low, range) == range

Narrowed(low, range) == IF Settled(low, range) THEN range ELSE (-low) % Bottom

RECURSIVE Normal(_, _)
Normal(low, range) ==
  IF ~ Settled(low, range) /\ range >= Bottom
  THEN [low |-> low, range |-> range, digits |-> <<>>]
  ELSE LET rest == Normal((low * Base) % Modulus,
                          (Narrowed(low, range) * Base) % Modulus)
       IN [rest EXCEPT !.digits = <<Digit(low)>> \o @]

Interval(coder, under, count, total) ==
  LET part == coder.range \div total
  IN Normal((coder.low + under * part) % Modulus, part * count)

RECURSIVE LastDigits(_)
LastDigits(low) ==
  IF low = 0 THEN <<>> ELSE <<Digit(low)>> \o LastDigits((low * Base) % Modulus)

-----------------------------------------------------------------------------
(***************************************************************************)
(* The model.  The symbols seen in a context are a binary tree ordered by  *)
(* value, in which "under" is the weight of a symbol and its left subtree. *)
(***************************************************************************)
RECURSIVE Search(_, _, _)
Search(symbols, i, value) ==      \* the nodes from i on the way to a value
  LET node == symbols[i]
      next == CASE value < node.value -> node.left
                [] value > node.value -> node.right
                [] OTHER -> 0
  IN IF next = 0 THEN <<i>> ELSE <<i>> \o Search(symbols, next, value)

\* The weight of what is on that way at or before the value.
Before(symbols, path, value) ==
  FoldLeft(LAMBDA sum, i : CASE symbols[i].value < value -> sum + symbols[i].under
                             [] symbols[i].value = value ->
                                  sum + symbols[i].under - symbols[i].count
                             [] OTHER -> sum,
           0, path)

\* The value is counted once more in a context; a new symbol where there is none.
Visited(symbols, context, path, value) ==
  LET new == Len(symbols) + 1
      found == path # <<>> /\ symbols[Last(path)].value = value
      Heavier(more, i) ==
        CASE value > symbols[i].value -> more
          [] value < symbols[i].value -> [more EXCEPT ![i].under = @ + Delta(context)]
          [] OTHER -> [more EXCEPT ![i].under = @ + Delta(context),
                                   ![i].count = @ + Delta(context)]
      counted == FoldLeft(Heavier, symbols, path)
      hung == CASE path = <<>> -> [counted EXCEPT ![context].symbols = new]
                [] path # <<>> /\ value < symbols[Last(path)].value ->
                     [counted EXCEPT ![Last(path)].left = new]
                [] OTHER -> [counted EXCEPT ![Last(path)].right = new]
  IN IF found THEN [symbols |-> counted, at |-> Last(path)]
     ELSE [symbols |-> Append(hung, Symbol(value, Delta(context))), at |-> new]

PathTo(symbols, context, value) ==
  IF symbols[context].symbols = 0 THEN <<>>
  ELSE Search(symbols, symbols[context].symbols, value)

\* ENET_CONTEXT_ENCODE
ContextEncode(symbols, context, value) ==
  LET path == PathTo(symbols, context, value)
      visited == Visited(symbols, context, path, value)
      found == visited.at <= Len(symbols)
  IN [symbols |-> visited.symbols, at |-> visited.at,
      under |-> value * Minimum(context) + Before(symbols, path, value),
      count |-> Minimum(context) + IF found THEN symbols[visited.at].count ELSE 0]

(***************************************************************************)
(* Rescaling halves the counts of a context.                               *)
(***************************************************************************)
Half(n) == n - n \div 2

RECURSIVE Weigh(_, _)
Weigh(symbols, i) ==       \* a subtree weighed anew, and its weight
  IF i = 0 THEN [symbols |-> symbols, weight |-> 0]
  ELSE LET left == Weigh(symbols, symbols[i].left)
           mine == Half(left.symbols[i].count)
           right == Weigh([left.symbols EXCEPT ![i].count = mine,
                                               ![i].under = mine + left.weight],
                          symbols[i].right)
       IN [symbols |-> right.symbols, weight |-> mine + left.weight + right.weight]

Rescale(symbols, context) ==
  LET weighed == Weigh(symbols, symbols[context].symbols)
      escapes == Half(symbols[context].escapes)
  IN [weighed.symbols EXCEPT
        ![context].escapes = escapes,
        ![context].total = weighed.weight + escapes + Values * Minimum(context)]

\* What a context learns after a value; "escaped" where it had not seen it.
Adapted(symbols, context, count, escaped) ==
  LET more == IF escaped THEN SubEscapeDelta ELSE 0
      grown == [symbols EXCEPT ![context].escapes = @ + more,
                               ![context].total = @ + more + Delta(context)]
  IN IF \/ count > CountLimit - 2 * Delta(context) + Minimum(context)
        \/ grown[context].total > Bottom - Slack
     THEN Rescale(grown, context) ELSE grown

\* The symbol found in one context points to the one found in the next.
Linked(coder, link, at) ==
  IF link = 0 THEN [coder EXCEPT !.predicted = at]
  ELSE [coder EXCEPT !.symbols[link].parent = at]

\* Mutated Full: room for one symbol more is counted on.
FullLate(symbols) == Len(symbols) >= MaxSymbols - SubOrder + 1

\* The next byte may need a symbol in each of three contexts.
Full(symbols) == Len(symbols) >= MaxSymbols - SubOrder

\* The end of a byte: the context of the next.
NextInput(coder) ==
  LET next == IF coder.order >= SubOrder
              THEN [coder EXCEPT !.predicted = coder.symbols[coder.predicted].parent]
              ELSE [coder EXCEPT !.order = @ + 1]
  IN IF Full(coder.symbols)
     THEN [next EXCEPT !.symbols = FreshModel, !.predicted = Root, !.order = 0]
     ELSE next

-----------------------------------------------------------------------------
(***************************************************************************)
(* enet_range_coder_compress, for one byte: from the longest context to    *)
(* the root, until one has seen the byte.                                  *)
(***************************************************************************)
Coded(coder, under, count, total) ==
  LET interval == Interval(coder, under, count, total)
  IN [coder EXCEPT !.low = interval.low, !.range = interval.range,
                   !.out = @ \o interval.digits]

RECURSIVE PutFrom(_, _, _, _)
PutFrom(coder, context, link, value) ==
  LET old == coder.symbols[context]
      found == ContextEncode(coder.symbols, context, value)
      seen == found.count > 0
      coded == CASE seen -> Coded(coder, old.escapes + found.under, found.count, old.total)
                 [] ~ seen /\ old.escapes > 0 /\ old.escapes < old.total ->
                      Coded(coder, 0, old.escapes, old.total)
                 [] OTHER -> coder
      next == Linked([coded EXCEPT !.symbols =
                        Adapted(found.symbols, context, found.count, ~ seen)],
                     link, found.at)
  IN IF seen THEN next
     ELSE PutFrom(next, next.symbols[context].parent, found.at, value)

Put(coder, value) == NextInput(PutFrom(coder, coder.predicted, 0, value))

FreshCoder == [low |-> 0, range |-> Modulus - 1, out |-> <<>>, symbols |-> FreshModel,
               predicted |-> Root, order |-> 0]

Compressed(coder) == coder.out \o LastDigits(coder.low)

-----------------------------------------------------------------------------
(***************************************************************************)
(* enet_range_coder_decompress.  "code" is the number the digits of the    *)
(* input make, as far as they were read.                                   *)
(***************************************************************************)
DigitAt(input, n) == IF n \in DOMAIN input THEN input[n] ELSE 0

Read(decoder, total) ==
  ((decoder.code - decoder.low) % Modulus) \div (decoder.range \div total)

Decoded(decoder, under, count, total) ==
  LET interval == Interval(decoder, under, count, total)
      n == Len(interval.digits)
      Shift(code, i) == (code * Base + DigitAt(decoder.input, decoder.read + i)) % Modulus
  IN [decoder EXCEPT !.low = interval.low, !.range = interval.range,
                     !.code = FoldLeft(Shift, @, [i \in 1 .. n |-> i]),
                     !.read = @ + n]

\* ENET_CONTEXT_DECODE from node i on: the nodes visited and the value of the
\* code; a value that the root context has not seen has its place in a gap, in
\* another context there is none.
NoValue == -1

RECURSIVE Locate(_, _, _, _, _)
Locate(symbols, i, code, under, minimum) ==
  LET node == symbols[i]
      after == under + node.under + (node.value + 1) * minimum
      before == node.count + minimum
      Further(next, weight) ==
        LET rest == Locate(symbols, next, code, weight, minimum)
        IN [rest EXCEPT !.path = <<i>> \o @]
      Here(value, start, count) ==
        [path |-> <<i>>, value |-> value, under |-> start, count |-> count]
  IN CASE code >= after /\ node.right # 0 -> Further(node.right, under + node.under)
       [] minimum = 0 /\ \/ code >= after /\ node.right = 0
                         \/ code < after - before /\ node.left = 0 -> Here(NoValue, 0, 0)
       [] minimum > 0 /\ code >= after /\ node.right = 0 ->
            Here(node.value + 1 + (code - after) \div minimum,
                 code - ((code - after) % minimum), minimum)
       [] code < after - before /\ node.left # 0 -> Further(node.left, under)
       [] minimum > 0 /\ code < after - before /\ node.left = 0 ->
            Here(node.value - 1 - (after - before - code - 1) \div minimum,
                 code - ((after - before - code - 1) % minimum), minimum)
       [] OTHER -> Here(node.value, after - before, before)

Located(symbols, context, code) ==
  LET minimum == Minimum(context)
  IN IF symbols[context].symbols = 0 /\ minimum = 0
     THEN [path |-> <<>>, value |-> NoValue, under |-> 0, count |-> 0]
     ELSE IF symbols[context].symbols = 0
     THEN [path |-> <<>>, value |-> code \div minimum,
           under |-> code - (code % minimum), count |-> minimum]
     ELSE Locate(symbols, symbols[context].symbols, code, 0, minimum)

\* patchContexts: the contexts that escaped learn the value, too.
RECURSIVE Patched(_, _, _, _, _, _)
Patched(decoder, patch, context, link, value, bottom) ==
  IF patch = context THEN Linked(decoder, link, bottom)
  ELSE LET found == ContextEncode(decoder.symbols, patch, value)
           next == Linked([decoder EXCEPT !.symbols =
                             Adapted(found.symbols, patch, found.count, found.count = 0)],
                          link, found.at)
       IN Patched(next, next.symbols[patch].parent, context, found.at, value, bottom)

\* One byte; the end is an escape from the root context.
RECURSIVE GetFrom(_, _)
GetFrom(decoder, context) ==
  LET old == decoder.symbols[context]
      code == Read(decoder, old.total)
      escaped == Decoded(decoder, 0, old.escapes, old.total)
      found == Located(decoder.symbols, context, code - old.escapes)
      visited == Visited(decoder.symbols, context, found.path, found.value)
      coded == Decoded(decoder, old.escapes + found.under, found.count, old.total)
      learnt == [coded EXCEPT
                   !.symbols = Adapted(visited.symbols, context, found.count, FALSE),
                   !.out = Append(@, found.value)]
      useless == context # Root /\ (old.escapes <= 0 \/ old.escapes >= old.total)
  IN CASE useless -> GetFrom(decoder, old.parent)
       [] ~ useless /\ code < old.escapes ->
            IF context # Root THEN GetFrom(escaped, old.parent)
            ELSE [escaped EXCEPT !.over = TRUE]
       [] ~ useless /\ code >= old.escapes /\ found.value = NoValue ->
            [decoder EXCEPT !.over = TRUE, !.out = <<>>]
       [] OTHER -> NextInput(Patched(learnt, learnt.predicted, context, 0,
                                     found.value, visited.at))

\* All bytes, as far as outData has room for them.
RECURSIVE Got(_, _)
Got(decoder, limit) ==
  IF decoder.over \/ Len(decoder.out) > limit THEN decoder.out
  ELSE Got(GetFrom(decoder, decoder.predicted), limit)

Decompressed(input, limit) ==
  Got([FreshCoder EXCEPT !.out = <<>>] @@
      [input |-> input, read |-> 4, over |-> FALSE,
       code |-> FoldLeft(LAMBDA code, n : code * Base + DigitAt(input, n), 0,
                         <<1, 2, 3, 4>>)],
      limit)

-----------------------------------------------------------------------------
(***************************************************************************)
(* The compressor at work: any bytes, one after the other.                 *)
(***************************************************************************)
VARIABLES coder, bytes

Init == coder = FreshCoder /\ bytes = <<>>

Next ==
  /\ Len(bytes) < MaxLength
  /\ \E value \in 0 .. Values - 1 :
       /\ coder' = Put(coder, value)
       /\ bytes' = Append(bytes, value)

Spec == Init /\ [][Next]_<<coder, bytes>>

\* What is compressed comes out again, neither more nor less of it, although the
\* end is not marked and both sides learn their models apart from each other.
\* (An empty output means that the datagram is sent as it is.)
RoundTrip ==
  LET output == Compressed(coder)
  IN output # <<>> => Decompressed(output, Len(bytes)) = bytes

\* No symbol is created past the end of the array, however the bytes spread over
\* the contexts, before the check at the end of the byte starts anew.
WithinArray ==
  \A value \in 0 .. Values - 1 :
    Len(PutFrom(coder, coder.predicted, 0, value).symbols) <= MaxSymbols
=============================================================================
