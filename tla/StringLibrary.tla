--------------------------- MODULE StringLibrary ---------------------------
(***************************************************************************)
(* Functions of kernel/std/stdlib.cpp, kernel/memory/alloc.cpp and         *)
(* include/std/string.hpp that the kernel computes with, each as its loop  *)
(* does it, against what the C and C++ libraries say of them.              *)
(*                                                                         *)
(* A string is the sequence of the codes of its characters, without the 0. *)
(* Where the code deviates, the promise at the end names the case.         *)
(***************************************************************************)
EXTENDS Integers, Sequences, SequencesExt, FiniteSetsExt

CONSTANTS Strings,     \* strings to call the functions with
          Numbers,     \* values of type int, from -Word \div 2
          Word,        \* 2 to the number of bits of an int
          TmpSize,     \* characters in tmp of itoa (16)
          Smashed,     \* what comes of a call that stored over its own frame
          MaxItems     \* conversions and characters in a format

ASSUME LibraryAssumption ==
  /\ Strings \subseteq Seq(1 .. 127)
  /\ Word \in Nat \ {0}
  /\ TmpSize \in Nat
  /\ Numbers \subseteq -(Word \div 2) .. Word \div 2 - 1
  /\ MaxItems \in Nat

\* s[n], the 0 at the end included
At(s, n) == IF n \in DOMAIN s THEN s[n] ELSE 0

-----------------------------------------------------------------------------
(* Comparing and moving *)

strcmp(s1, s2) ==
  LET n == Min({k \in 1 .. Len(s1) + 1 : At(s1, k) = 0 \/ At(s1, k) # At(s2, k)})
  IN At(s1, n) - At(s2, n)

strncmp(s1, s2, n) ==
  LET stops == {k \in 1 .. n : At(s1, k) = 0 \/ At(s1, k) # At(s2, k)}
      k == Min(stops)
  IN IF stops = {} \/ At(s1, k) = At(s2, k) THEN 0
     ELSE IF At(s1, k) < At(s2, k) THEN -1 ELSE 1

\* dst[i] = src[i], one after the other
Copy(memory, dst, src, order) ==
  FoldLeft(LAMBDA m, i : [m EXCEPT ![dst + i] = m[src + i]], memory, order)

Upwards(count) == [i \in 1 .. count |-> i - 1]

memcpy(memory, dst, src, count) == Copy(memory, dst, src, Upwards(count))

memmove(memory, dst, src, count) ==
  Copy(memory, dst, src,
       IF dst < src THEN Upwards(count) ELSE Reverse(Upwards(count)))

-----------------------------------------------------------------------------
(* Numbers *)

Zero == 48
Minus == 45

Digits(v, radix, ten) ==
  LET D[n \in 0 .. v] ==
        LET rest == n % radix
            digit == IF rest < 10 THEN Zero + rest ELSE ten + rest - 10
        IN IF n < radix THEN <<digit>> ELSE Append(D[n \div radix], digit)
  IN D[v]

\* The digits beyond 9 begin with 'a'; there is a sign in base 10 only.  They
\* are stored in tmp from the last to the first, however many there are.
itoa(value, radix) ==
  LET sign == radix = 10 /\ value < 0
      tmp == Digits(IF sign THEN -value ELSE value % Word, radix, 97)
  IN IF Len(tmp) > TmpSize THEN Smashed
     ELSE IF sign THEN <<Minus>> \o tmp ELSE tmp

\* They begin with 'A', and base 10 is always negative.
ltoa(N, base) ==
  IF base = 10 THEN <<Minus>> \o Digits((-N) % Word, base, 65)
               ELSE Digits(N % Word, base, 65)

\* A sign is counted as a digit, too.
atoi(str) ==
  (IF At(str, 1) = Minus THEN -1 ELSE 1)
    * FoldLeft(LAMBDA value, c : value * 10 + c - Zero, 0, str)

-----------------------------------------------------------------------------
(* vsprintf, into a buffer of zeros *)

Percent == 37
Decimal == 100
String == 115
Hex == 120
Character == 99

\* The buffer with a string stored from a place on.
Put(buffer, at, string) ==
  [n \in 1 .. Max({Len(buffer), at + Len(string) - 1}) |->
     IF n \in at .. at + Len(string) - 1 THEN string[n - at + 1]
                                         ELSE At(buffer, n)]

\* The characters before the next conversion.
Amount(format) ==
  LET ends == {n \in 2 .. Len(format) : format[n] = Percent}
  IN IF ends = {} THEN Len(format) ELSE Min(ends) - 1

Converted(conversion, argument) ==
  CASE conversion = Decimal   -> itoa(argument, 10)
    [] conversion = Hex       -> <<Zero, Hex>> \o ltoa(argument, 16)
    [] conversion = String    -> argument
    [] conversion = Character -> <<argument>>

\* One turn of the loop: a conversion, or the characters up to the next one.
\* An unknown conversion ends it.
Converting(s) ==
  LET format == s.format
      started == Put(s.buffer, s.written + 1, <<format[1]>>)
      Go(string, rest, parameters) ==
        [buffer |-> Put(started, s.written + 1, string), written |-> s.written + Len(string),
         format |-> rest, parameters |-> parameters]
      text == IF format[1] = Percent THEN Tail(format) ELSE format
      amount == Amount(text)
  IN IF format = << >> THEN s
     ELSE IF format[1] # Percent \/ At(format, 2) = Percent
     THEN Go(SubSeq(text, 1, amount), SubSeq(text, amount + 1, Len(text)), s.parameters)
     ELSE IF At(format, 2) \in {Character, Hex, Decimal, String}
     THEN Go(Converted(format[2], Head(s.parameters)),
               SubSeq(format, 3, Len(format)), Tail(s.parameters))
     ELSE [s EXCEPT !.buffer = started, !.format = << >>]

\* Every turn takes a character of the format or more.
Format(format, parameters) ==
  LET after[n \in 0 .. Len(format)] ==
        IF n = 0 THEN [buffer |-> << >>, written |-> 0,
                       format |-> format, parameters |-> parameters]
                 ELSE Converting(after[n - 1])
  IN after[Len(format)].buffer

\* What a reader of the buffer sees, up to the first 0.
Seen(buffer) == SubSeq(buffer, 1, Min({n \in 1 .. Len(buffer) + 1 : At(buffer, n) = 0}) - 1)

vsprintf(format, parameters) == Seen(Format(format, parameters))

-----------------------------------------------------------------------------
(* std::string, whose places begin with 0 *)

npos == -1

\* Only as many characters as both have are compared.
compare(this, pos1, count1, str) ==
  LET count == IF count1 = npos \/ pos1 + count1 > Len(this)
               THEN Len(this) - pos1 ELSE count1
      differ == {p \in 1 .. Min({count, Len(str)}) : this[p + pos1] # str[p]}
      p == Min(differ)
  IN IF differ = {} THEN 0 ELSE IF this[p + pos1] > str[p] THEN 1 ELSE -1

\* Place 0 is not looked at.
find_last_of(this, str) ==
  LET found == {i \in 1 .. Len(this) - 1 : compare(this, i, Len(str), str) = 0}
  IN IF found = {} THEN npos ELSE Max(found)

find(this, str) ==
  LET found == {i \in 0 .. Len(this) - 1 : compare(this, i, npos, str) = 0}
  IN IF found = {} THEN npos ELSE Min(found)

substr(this, pos, count) ==
  SubSeq(this, pos + 1,
         IF count = npos \/ pos + count > Len(this) THEN Len(this) ELSE pos + count)

-----------------------------------------------------------------------------
(* Promises, of some strings *)

Sign(n) == IF n < 0 THEN -1 ELSE IF n > 0 THEN 1 ELSE 0

\* a comes before b in the order of a dictionary.
Before(a, b) ==
  \/ IsStrictPrefix(a, b)
  \/ \E n \in DOMAIN a \cap DOMAIN b :
       a[n] < b[n] /\ SubSeq(a, 1, n - 1) = SubSeq(b, 1, n - 1)

First(string, n) == SubSeq(string, 1, Min({n, Len(string)}))

ComparesLikeC(strings) ==
  \A a, b \in strings :
    /\ strcmp(a, b) < 0 <=> Before(a, b)
    /\ strcmp(a, b) = 0 <=> a = b
    /\ \A n \in 0 .. 4 : strncmp(a, b, n) = Sign(strcmp(First(a, n), First(b, n)))

\* memmove also when the two places overlap, memcpy unless it copies upwards
\* over what it has still to read.
MovesLikeC ==
  LET memory == [n \in 0 .. 5 |-> n]
      Moved(dst, src, count) ==
        [n \in 0 .. 5 |-> IF n \in dst .. dst + count - 1
                          THEN memory[n - dst + src] ELSE memory[n]]
  IN \A dst, src, count \in 0 .. 3 :
       /\ memmove(memory, dst, src, count) = Moved(dst, src, count)
       /\ dst \notin src + 1 .. src + count - 1
            => memcpy(memory, dst, src, count) = Moved(dst, src, count)

ValueOf(digits, radix, ten) ==
  FoldLeft(LAMBDA value, digit :
             value * radix + (IF digit >= ten THEN digit - ten + 10 ELSE digit - Zero),
           0, digits)

\* Octal, decimal and hexadecimal numbers fit into tmp, binary ones up to
\* TmpSize digits.  The digits have the value that was converted, and no zeros
\* in front; atoi reads them again unless there is a sign.
NumbersLikeC ==
  \A v \in Numbers :
    /\ \A radix \in {2, 8, 10, 16} :
         LET digits == itoa(v, radix)
             unsigned == IF radix = 10 /\ v < 0 THEN Tail(digits) ELSE digits
         IN IF radix = 2 /\ v % Word >= 2 ^ TmpSize THEN digits = Smashed
            ELSE /\ digits # Smashed
                 /\ ValueOf(unsigned, radix, 97) =
                      IF radix = 10 THEN Sign(v) * v ELSE v % Word
                 /\ Head(unsigned) = Zero => Len(unsigned) = 1
    /\ ValueOf(ltoa(v, 16), 16, 65) = v % Word
    /\ v >= 0 => atoi(itoa(v, 10)) = v

Item(text, parameters, printed) ==
  [text |-> text, parameters |-> parameters, printed |-> printed]

Items ==
  {Item(<<97>>, << >>, <<97>>), Item(<<Percent, Percent>>, << >>, <<Percent>>),
   Item(<<Percent, Character>>, <<98>>, <<98>>)}
    \cup {Item(<<Percent, Decimal>>, <<v>>, itoa(v, 10)) : v \in Numbers}
    \cup {Item(<<Percent, Hex>>, <<v>>, <<Zero, Hex>> \o ltoa(v, 16)) : v \in Numbers}
    \cup {Item(<<Percent, String>>, <<a>>, a) : a \in Strings}

\* A format prints its characters and conversions one after the other, but an
\* empty string at its end leaves the percent sign.
FormatsLikeC ==
  \A items \in SeqOf(Items, MaxItems) :
    LET Parts(Field(_)) == FlattenSeq([n \in DOMAIN items |-> Field(items[n])])
        Text(item) == item.text
        Parameters(item) == item.parameters
        Printed(item) == item.printed
    IN (items # << >> => Printed(Last(items)) # << >>)
         => vsprintf(Parts(Text), Parts(Parameters)) = Parts(Printed)

\* A character is found where it is, unless its last place is the first one;
\* path and file name, cut there, make up the name again.
StringsLikeC(strings) ==
  \A this \in strings \ {<< >>} : \A ch \in 97 .. 98 :
    LET places == {i \in 0 .. Len(this) - 1 : this[i + 1] = ch}
        slash == find_last_of(this, <<ch>>) + 1
    IN /\ find_last_of(this, <<ch>>) = IF places \subseteq {0} THEN npos ELSE Max(places)
       /\ find(this, <<ch>>) = IF places = {} THEN npos ELSE Min(places)
       /\ substr(this, 0, slash) \o substr(this, slash, npos) = this
=============================================================================
