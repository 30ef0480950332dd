----------------------------- MODULE Arguments -----------------------------
(***************************************************************************)
(* How parse (kernel/tty.cpp) makes the words of a command line, and how   *)
(* ls and FAT16::readDirectory make the folders of its path: strtok of     *)
(* kernel/std/stdlib.cpp over the storage of a std::string, whose tokens   *)
(* are pushed onto a std::vector before the next call of strtok.           *)
(*                                                                         *)
(* A std::string has no 0 at its end: strtok and strlen read on into the   *)
(* heap.  When the text is split its block is the last one of the heap and *)
(* is followed by zeros (vmalloc clears pages); the first block that is    *)
(* allocated meanwhile puts its header there, which begins with the four   *)
(* bytes of "in_use : 1, size : 31", the low one first; a line is short    *)
(* enough for the third to be 0.  So it matters what the bytes are:        *)
(* characters are their codes.                                             *)
(*                                                                         *)
(* The static variables nxt and size of strtok outlive every call.         *)
(***************************************************************************)
EXTENDS StringLibrary

CONSTANTS Lines,      \* the command lines, without their line end
          Garbage,    \* what may lie behind the vector of words
          MaxLines    \* how many lines are typed in the model

Space == 32
Slash == 47
ls == <<108, 115>>
ps == <<112, 115>>
cat == <<99, 97, 116>>
Null == 0
BufferSize == 1024  \* of tty_buffer

ASSUME ArgumentsAssumption ==
  /\ Lines \subseteq Seq(1 .. 127) /\ Garbage \subseteq Seq(1 .. 127)
  /\ \A text \in Lines \cup Garbage : Len(text) < BufferSize
  /\ MaxLines \in Nat

VARIABLES
  pc,           \* where the thread is
  caller,       \* whose loop over strtok it is in: "parse" or "path"
  line,         \* clipped_str, the line that is parsed
  path,         \* the argument of readDirectory
  storage,      \* the bytes of the text that strtok splits, and three behind
  newest,       \* its block is the last one of the heap
  token,        \* what strtok returned: a place in the storage, or Null
  nxt, size,    \* the static variables of strtok
  words,        \* args, or path_tokens
  overwritten,  \* history: a byte behind the text was set to 0
  lines         \* how many lines were typed

statics == <<nxt, size>>
vars == <<pc, caller, line, path, storage, newest, token, statics, words,
          overwritten, lines>>

Init ==
  /\ pc = "idle"
  /\ caller = "parse"
  /\ line = << >> /\ path = << >>
  /\ storage = <<0, 0, 0>>
  /\ newest = FALSE
  /\ token = Null
  /\ nxt = Null /\ size = 0
  /\ words = << >>
  /\ overwritten = FALSE
  /\ lines = 0

-----------------------------------------------------------------------------
(* Strings in storage *)

\* The first 0 at or behind a place; there is always one.
EndOf(bytes, at) == Min({n \in at .. Len(bytes) : bytes[n] = 0})

strlen(bytes, at) == EndOf(bytes, at) - at

StringAt(bytes, at) == SubSeq(bytes, at, EndOf(bytes, at) - 1)

\* strspn with one delimiter
strspn(bytes, at, delim) ==
  Min({n \in 0 .. Len(bytes) - at : bytes[at + n] # delim})

\* A loop that steps back at the end of the text, too.
StepBackAlways(s) == [s EXCEPT !.nxt = @ - 1, !.size = @ + 1]

\* if (size > 1) { nxt--; size++; }
StepBack(s) ==
  IF s.size > 1 THEN [s EXCEPT !.nxt = @ - 1, !.size = @ + 1] ELSE s

Delimiter == IF caller = "parse" THEN Space ELSE Slash

\* readDirectory takes a slash from the front of its path.
Relative(dir) == IF Head(dir) = Slash THEN Tail(dir) ELSE dir

\* The text that is split.
Text == IF caller = "parse" THEN line ELSE Relative(path)

-----------------------------------------------------------------------------
(* parse, ls and readDirectory *)

\* A text is copied into a new string, which is then split.
Split(who, text) ==
  /\ caller' = who
  /\ storage' = text \o <<0, 0, 0>>
  /\ newest' = TRUE
  /\ words' = << >>
  /\ overwritten' = FALSE
  /\ pc' = "first"
  /\ UNCHANGED <<token, statics>>

Parse(text) ==
  /\ pc = "idle"
  /\ lines < MaxLines
  /\ text # << >>
  /\ lines' = lines + 1
  /\ line' = text
  /\ path' = << >>
  /\ Split("parse", text)

\* An empty line: new char[0] is null, strtok(NULL, " ") goes on with what it
\* split last and finds nothing, and args[0] is read through a null pointer,
\* which is not mapped.
ParseEmptyLine ==
  /\ pc = "idle"
  /\ lines < MaxLines
  /\ << >> \in Lines
  /\ lines' = lines + 1
  /\ line' = << >>
  /\ pc' = "fault"
  /\ UNCHANGED <<caller, path, storage, newest, token, statics, words, overwritten>>

\* The page fault has no handler and the instruction is tried again.
FaultAgain == pc = "fault" /\ UNCHANGED vars

\* strtok with a text: it is in the storage from its first place on.
FirstToken ==
  /\ pc = "first"
  /\ nxt' = 1
  /\ size' = strlen(storage, 1)
  /\ token' = 1
  /\ pc' = "strtok"
  /\ UNCHANGED <<caller, line, path, storage, newest, words, overwritten, lines>>

\* strtok(NULL): behind the 0 that the last call has left, unless the end of
\* the text was reached.
NextToken ==
  /\ pc = "next"
  /\ IF size > 0 THEN nxt' = nxt + 1 /\ size' = size - 1 /\ token' = nxt + 1
                 ELSE token' = Null /\ UNCHANGED statics
  /\ pc' = "strtok"
  /\ UNCHANGED <<caller, line, path, storage, newest, words, overwritten, lines>>

\* One turn of the loop of strtok: a row of delimiters becomes zeros.
Turn ==
  /\ pc = "strtok"
  /\ storage[nxt] # 0
  /\ LET i == strspn(storage, nxt, Delimiter)
         cut == [nxt |-> nxt + i - 1, size |-> size - (i - 1)]
         moved == IF i = 0 THEN [nxt |-> nxt, size |-> size] ELSE StepBack(cut)
     IN /\ storage' = [n \in DOMAIN storage |->
                         IF n \in nxt .. nxt + i - 1 THEN 0 ELSE storage[n]]
        /\ nxt' = moved.nxt + 1
        /\ size' = moved.size - 1
        /\ overwritten' = (overwritten \/ (i > 0 /\ nxt + i - 1 > Len(storage) - 3))
  /\ UNCHANGED <<pc, caller, line, path, newest, token, words, lines>>

\* The loop ends at a 0, and so does the caller's if there was no token.
Return ==
  /\ pc = "strtok"
  /\ storage[nxt] = 0
  /\ pc' = IF token = Null THEN "split" ELSE "push"
  /\ UNCHANGED <<caller, line, path, storage, newest, token, statics, words,
                 overwritten, lines>>

\* A header whose first bit is not set.
UnusedHeader(n) == 2 * (n + 12)

\* The header of a block: in_use, and twice its size, which counts the three
\* words of the header.
Header(n) == 2 * (n + 12) + 1

\* Its first and its second byte.
Low(n) == Header(n) % 256
High(n) == Header(n) \div 256

\* How many bytes are allocated first: the characters, or, for an empty
\* string, the vector's array of one string of two words and its length.
FirstBlock(string) == IF string # << >> THEN Len(string) ELSE 12

\* push_back(std::string(i))
PushWord ==
  /\ pc = "push"
  /\ LET word == StringAt(storage, token)
     IN /\ words' = Append(words, word)
        /\ storage' = IF newest
                      THEN [storage EXCEPT ![Len(storage) - 2] = Low(FirstBlock(word)),
                                           ![Len(storage) - 1] = High(FirstBlock(word))]
                      ELSE storage
  /\ newest' = FALSE
  /\ pc' = "next"
  /\ UNCHANGED <<caller, line, path, token, statics, overwritten, lines>>

\* An ls that does not cut off the last byte.
WholePath(c_path) ==
  IF c_path # << >> /\ Last(c_path) = Slash THEN c_path ELSE Append(c_path, Slash)

\* ls: c_path.substr(0, c_path.size()-1), and a slash if there is none
TrimPath(c_path) ==
  LET trim_path == IF c_path = << >> THEN << >> ELSE Front(c_path)
  IN IF trim_path # << >> /\ Last(trim_path) = Slash
     THEN trim_path ELSE Append(trim_path, Slash)

\* readDirectory: the path without a slash at its front.  If nothing is left,
\* strtok(NULL, "/") goes on with what it split last.
ReadDirectory(dir) ==
  /\ path' = dir
  /\ UNCHANGED <<line, lines>>
  /\ LET text == Relative(dir)
     IN IF text # << >> THEN Split("path", text)
        ELSE /\ caller' = "path"
             /\ words' = << >>
             /\ pc' = "next"
             /\ UNCHANGED <<storage, newest, token, statics, overwritten>>

\* Ext::load
lib == <<ps, ls, cat>>

Names(cmd) == {n \in DOMAIN lib : strcmp(lib[n], cmd) = 0}

\* Ext::lib.present(args[0])
present(cmd) == Names(cmd) # {}

\* Ext::lib.get(args[0]): the first of that name
get(cmd) == lib[Min(Names(cmd))]

LsIsCalled == present(words[1]) /\ get(words[1]) = ls

Ls ==
  /\ pc = "split" /\ caller = "parse"
  /\ LsIsCalled
  /\ IF Len(words) > 1 THEN ReadDirectory(TrimPath(words[2]))
     ELSE \E c_path \in Garbage : ReadDirectory(TrimPath(c_path))

\* Another command, or none of that name; or ls has its folders.
Done ==
  /\ pc = "split"
  /\ caller = "parse" => ~LsIsCalled
  /\ pc' = "idle"
  /\ UNCHANGED <<caller, line, path, storage, newest, token, statics, words,
                 overwritten, lines>>

Next == \/ \E text \in Lines : Parse(text)
        \/ ParseEmptyLine \/ FaultAgain
        \/ FirstToken \/ NextToken \/ Turn \/ Return \/ PushWord \/ Ls \/ Done

Spec == Init /\ [][Next]_vars

-----------------------------------------------------------------------------
(* Properties *)

\* The fields of a text: what is between its delimiters, and an empty one if
\* it begins with a delimiter.
Starts(text, delim) ==
  {n \in DOMAIN text : n = 1 \/ (text[n] # delim /\ text[n - 1] = delim)}

EndOfField(text, delim, k) ==
  Min({n \in k .. Len(text) + 1 : n = Len(text) + 1 \/ text[n] = delim})

Field(text, delim, k) == SubSeq(text, k, EndOfField(text, delim, k) - 1)

Nth(S, n) == CHOOSE k \in S : Cardinality({j \in S : j <= k}) = n

Fields(text, delim) ==
  [n \in 1 .. Cardinality(Starts(text, delim)) |->
     Field(text, delim, Nth(Starts(text, delim), n))]

\* What a reader finds at the beginning of a header.
HeaderText(n) == IF High(n) = 0 THEN <<Low(n)>> ELSE <<Low(n), High(n)>>

\* Every word is a field, but the last of several has a byte or two more,
\* unless the text ends with a delimiter: from the header of what was allocated
\* behind.
WithHeader(fields, text, delim) ==
  IF Len(fields) < 2 \/ Last(text) = delim THEN fields
  ELSE [fields EXCEPT ![Len(fields)] = @ \o HeaderText(FirstBlock(fields[1]))]

AtSplit(who) == pc = "split" /\ caller = who

\* What parse hands to a command, whatever was parsed before: the fields of the
\* line, in order, each whole, with nothing from the heap but those bytes.  The
\* name of the command never has them.
WordsAreTheFields ==
  AtSplit("parse") => words = WithHeader(Fields(line, Space), line, Space)

\* "append trailing slash" (ls.cpp:7): for "ls p" the byte that ls cuts off is
\* the one from the heap, so readDirectory gets p with a slash, and the folders
\* are those of p, also when the heap's byte happens to be a slash.
LsGetsItsPath ==
  LET fields == Fields(line, Space)
  IN AtSplit("path") /\ Len(fields) = 2 /\ Last(line) # Space
       => /\ path = WholePath(fields[2])
          /\ words = Fields(Relative(path), Slash)

\* strtok writes outside of its text only if the header's first byte is a slash,
\* that is behind a path whose first folder has 11 characters, or 128 more, or
\* 256 more and so on.
HeapUntouched ==
  overwritten => caller = "path" /\ Len(words[1]) % 128 = 11

\* What a command computes from its words (present and ps compare them, cat
\* splits its path, "command not found" prints one) with the functions of
\* StringLibrary is what the standard libraries promise, apart from the
\* deviations that each promise names.
CommandsComputeLikeC ==
  AtSplit("parse") =>
    /\ ComparesLikeC(Strings \cup ToSet(words))
    /\ StringsLikeC(Strings \cup ToSet(words))
    /\ MovesLikeC
    /\ NumbersLikeC
    /\ FormatsLikeC
=============================================================================
