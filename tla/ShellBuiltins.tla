--------------------------- MODULE ShellBuiltins ---------------------------
(***************************************************************************)
(* The commands the restricted shell has itself                            *)
(* (src/internal/agent/shell_builtins.go).  A filter maps the text on its  *)
(* input to the text it prints; a text is a sequence of lines, a line a    *)
(* sequence of words, and a word is a number of the lexical order.  The    *)
(* file commands take the operands one after the other and stop at the     *)
(* first that fails; the tree has one level of directories.                *)
(***************************************************************************)
EXTENDS Integers, Sequences, FiniteSets, SequencesExt

CONSTANTS
    Words, Value,    \* the words, and the number each of them starts with
    NaN,             \*   or that it is none
    MaxLines, MaxWords,   \* bound: texts
    FileNames,
    MaxCommands      \* bound: commands of a script

ASSUME ShellBuiltinsAssumption ==
    /\ Words \subseteq Nat /\ NaN \in Int
    /\ Value \in [Words -> Int]
    /\ {MaxLines, MaxWords, MaxCommands} \subseteq Nat

VARIABLES
    text,      \* what the pipeline has printed so far
    calls,     \* the arguments of the calls xargs has made
    input,     \* what xargs had read
    tree,      \* [FilePaths -> Node]
    commands

builtinVars == <<text, calls, input, tree, commands>>

Lines == BoundedSeq(Words, MaxWords)
Texts == BoundedSeq(Lines, MaxLines)
Least(a, b) == IF a <= b THEN a ELSE b

----------------------------------------------------------------------------
\* head -n, tail -n and tail -n +: the last counts lines from 1.
HeadLines(t, n) == SubSeq(t, 1, Least(n, Len(t)))

\* Mutant: tail -n takes one line too many.
TailOneMore(t, n) == IF n >= Len(t) THEN t ELSE SubSeq(t, Len(t) - n, Len(t))

TailLines(t, n) == IF n >= Len(t) THEN t ELSE SubSeq(t, Len(t) - n + 1, Len(t))

TailFrom(t, n) == SubSeq(t, n, Len(t))

\* Comparing as strings.
LexLess(a, b) ==
    \/ Len(a) < Len(b) /\ a = SubSeq(b, 1, Len(a))
    \/ \E i \in 1 .. Least(Len(a), Len(b)) :
          a[i] < b[i] /\ SubSeq(a, 1, i - 1) = SubSeq(b, 1, i - 1)

\* parseLeadingFloat
NumberOf(line) == IF line = <<>> THEN NaN ELSE Value[line[1]]

\* Two lines are compared as numbers only if both are numbers.
SortsBefore(flags, a, b) ==
    LET x == NumberOf(a)  y == NumberOf(b)
        reverse == "r" \in flags
    IN  IF "n" \in flags /\ x # NaN /\ y # NaN
        THEN IF reverse THEN x > y ELSE x < y
        ELSE IF reverse THEN LexLess(b, a) ELSE LexLess(a, b)

\* sort.SliceStable is an insertion sort of up to 20 lines: a line moves to
\* the left as long as it sorts before the one it meets.
InsertLine(flags, sorted, line) ==
    LET stays == {i \in 1 .. Len(sorted) : ~ SortsBefore(flags, line, sorted[i])}
        at == IF stays = {} THEN 0 ELSE CHOOSE i \in stays : \A j \in stays : j <= i
    IN  SubSeq(sorted, 1, at) \o <<line>> \o SubSeq(sorted, at + 1, Len(sorted))

\* The lines that begin a group of equal lines.
GroupStarts(t) == {i \in 1 .. Len(t) : i = 1 \/ t[i] # t[i - 1]}

Pick(t, places) ==
    LET Add(kept, i) == IF i \in places THEN Append(kept, t[i]) ELSE kept
    IN  FoldLeftDomain(LAMBDA kept, i : Add(kept, i), <<>>, t)

SortLines(t, flags) ==
    LET sorted == FoldLeft(LAMBDA s, line : InsertLine(flags, s, line), <<>>, t)
    IN  IF "u" \in flags THEN Pick(sorted, GroupStarts(sorted)) ELSE sorted

\* uniq, with -d the groups of several lines, with -u those of one.
UniqLines(t, flags) ==
    LET alone(i) == i = Len(t) \/ t[i + 1] # t[i]
    IN  Pick(t, {i \in GroupStarts(t) : /\ "d" \in flags => ~ alone(i)
                                        /\ "u" \in flags => alone(i)})

\* cut -f: a line without the delimiter is a field like any other.
CutFields(t, fields) == [i \in 1 .. Len(t) |-> Pick(t[i], fields)]

\* fgrep, egrep and with -v also sed /pattern/d.
MatchingLines(t, word, invert) ==
    Pick(t, {i \in 1 .. Len(t) : (word \in ToSet(t[i])) # invert})

\* sed s/old/new/[g]
SubstituteWord(t, old, new, global) ==
    [i \in 1 .. Len(t) |-> [j \in 1 .. Len(t[i]) |->
        IF t[i][j] = old /\ (global \/ \A k \in 1 .. j - 1 : t[i][k] # old)
        THEN new ELSE t[i][j]]]

FiltersOf(t) ==
    {HeadLines(t, n) : n \in 0 .. MaxLines}
        \cup {TailLines(t, n) : n \in 0 .. MaxLines}
        \cup {TailFrom(t, n) : n \in 1 .. MaxLines + 1}
        \cup {SortLines(t, f) : f \in SUBSET {"r", "n", "u"}}
        \cup {UniqLines(t, f) : f \in SUBSET {"d", "u"}}
        \cup {CutFields(t, f) : f \in SUBSET (1 .. MaxWords)}
        \cup {MatchingLines(t, w, v) : w \in Words, v \in BOOLEAN}
        \cup {SubstituteWord(t, v, w, g) : v \in Words, w \in Words, g \in BOOLEAN}

----------------------------------------------------------------------------
\* xargs drops empty lines and passes n of the others, or all, at a time.
Items(t) == Pick(t, {i \in 1 .. Len(t) : t[i] # <<>>})

Batches(items, n) ==
    LET size == IF n = 0 THEN Len(items) ELSE n
        count == IF items = <<>> THEN 0 ELSE (Len(items) + size - 1) \div size
    IN  [b \in 1 .. count |->
            SubSeq(items, (b - 1) * size + 1, Least(b * size, Len(items)))]

----------------------------------------------------------------------------
FilePaths == {<<n>> : n \in FileNames} \cup (FileNames \X FileNames)
Missing == [kind |-> "absent", lines |-> <<>>]
Directory == [kind |-> "dir", lines |-> <<>>]
File(t) == [kind |-> "file", lines |-> t]

Up(p) == SubSeq(p, 1, Len(p) - 1)
Base(p) == p[Len(p)]
Inside(d) == {p \in FilePaths : Len(p) = 2 /\ Up(p) = d}

\* MkdirAll of the parent fails if it is a file.
ParentOK(t, p) == Len(p) = 1 \/ t[Up(p)].kind # "file"
WithParent(t, p) == IF Len(p) = 1 THEN t ELSE [t EXCEPT ![Up(p)] = Directory]
WriteFile(t, p, lines) == [WithParent(t, p) EXCEPT ![p] = File(lines)]

Outcome(ok, t) == [ok |-> ok, tree |-> t]

\* touch and tee make the parent; tee truncates (-a does not).
Touch(t, p) ==
    IF ParentOK(t, p) /\ t[p].kind # "dir"
    THEN Outcome(TRUE, WriteFile(t, p, t[p].lines)) ELSE Outcome(FALSE, t)

TeeTo(t, p, lines) ==
    IF ParentOK(t, p) /\ t[p].kind # "dir"
    THEN Outcome(TRUE, WriteFile(t, p, lines)) ELSE Outcome(FALSE, t)

Mkdir(t, p, parents) ==
    IF IF parents THEN ParentOK(t, p) /\ t[p].kind # "file"
       ELSE t[p].kind = "absent" /\ (Len(p) = 1 \/ t[Up(p)].kind = "dir")
    THEN Outcome(TRUE, [WithParent(t, p) EXCEPT ![p] = Directory]) ELSE Outcome(FALSE, t)

\* Mutant: rm removes a directory and not what is in it.
RemoveShallow(t, p, recursive) ==
    IF t[p].kind = "absent" /\ ~ recursive THEN Outcome(FALSE, t)
    ELSE Outcome(TRUE, [t EXCEPT ![p] = Missing])

\* os.Remove, with -r os.RemoveAll.
RemovePath(t, p, recursive) ==
    LET full == \E q \in Inside(p) : t[q].kind # "absent"
    IN  IF ~ recursive /\ (t[p].kind = "absent" \/ full) THEN Outcome(FALSE, t)
        ELSE Outcome(TRUE, [q \in FilePaths |->
                               IF q = p \/ q \in Inside(p) THEN Missing ELSE t[q]])

\* Into a directory that exists, or to the name itself.
Target(t, src, dst) == IF t[dst].kind = "dir" THEN dst \o <<Base(src)>> ELSE dst

\* copyFile makes the target's parent, opens the source and creates the
\* target: a file copied onto itself is empty then.
CopyTo(t, src, dst) ==
    LET to == Target(t, src, dst)
    IN  IF t[src].kind # "file" \/ to \notin FilePaths THEN Outcome(FALSE, t)
        ELSE IF ~ ParentOK(t, to) \/ t[to].kind = "dir" THEN Outcome(FALSE, t)
        ELSE Outcome(TRUE, WriteFile(t, to, IF to = src THEN <<>> ELSE t[src].lines))

\* os.Rename replaces a file by a file.
MoveTo(t, src, dst) ==
    LET to == Target(t, src, dst)
    IN  IF t[src].kind # "file" \/ to \notin FilePaths THEN Outcome(FALSE, t)
        ELSE IF t[to].kind = "dir" \/ (Len(to) = 2 /\ t[Up(to)].kind # "dir")
        THEN Outcome(FALSE, t)
        ELSE Outcome(TRUE, [[t EXCEPT ![src] = Missing] EXCEPT ![to] = t[src]])

\* One operand after the other, up to the first that fails.
Each(Do(_, _), t, operands) ==
    FoldLeft(LAMBDA o, p : IF o.ok THEN Do(o.tree, p) ELSE o, Outcome(TRUE, t), operands)

Operands == {<<p>> : p \in FilePaths} \cup (FilePaths \X FilePaths)

----------------------------------------------------------------------------
BuiltinsInit ==
    /\ text \in Texts /\ calls = <<>> /\ input = <<>>
    /\ tree = [p \in FilePaths |-> Missing]
    /\ commands = 0

\* The next command of the pipeline reads what the last one printed.
Filter ==
    /\ commands < MaxCommands /\ commands' = commands + 1
    /\ text' \in FiltersOf(text)
    /\ UNCHANGED <<calls, input, tree>>

\* xargs -n: the calls up to the first that fails, if one does.
Xargs(n) ==
    LET batches == Batches(Items(text), n)
    IN  /\ commands < MaxCommands /\ commands' = commands + 1
        /\ \E made \in (IF batches = <<>> THEN {0} ELSE 1 .. Len(batches)) :
              calls' = SubSeq(batches, 1, made)
        /\ input' = text /\ text' = <<>>
        /\ UNCHANGED tree

FileCommand(Do(_, _), operands) ==
    /\ commands < MaxCommands /\ commands' = commands + 1
    /\ tree' = Each(Do, tree, operands).tree
    /\ UNCHANGED <<text, calls, input>>

\* cat of files
Cat(p) ==
    /\ commands < MaxCommands /\ commands' = commands + 1
    /\ tree[p].kind = "file" /\ text' = tree[p].lines
    /\ UNCHANGED <<calls, input, tree>>

FileCommands(ps) ==
    \/ FileCommand(Touch, ps)
    \/ FileCommand(LAMBDA t, p : TeeTo(t, p, text), ps)
    \/ \E parents \in BOOLEAN : FileCommand(LAMBDA t, p : Mkdir(t, p, parents), ps)
    \/ \E deep \in BOOLEAN : FileCommand(LAMBDA t, p : RemovePath(t, p, deep), ps)
    \/ \E dst \in FilePaths : \/ FileCommand(LAMBDA t, p : CopyTo(t, p, dst), ps)
                              \/ FileCommand(LAMBDA t, p : MoveTo(t, p, dst), ps)

BuiltinsNext ==
    \/ Filter
    \/ \E ps \in Operands : FileCommands(ps)
    \/ \E n \in 0 .. MaxLines : Xargs(n)
    \/ \E p \in FilePaths : Cat(p)

BuiltinsSpec == BuiltinsInit /\ [][BuiltinsNext]_builtinVars

----------------------------------------------------------------------------
\* The types of the text and of the tree, in which whatever is in a directory
\* is in a directory that exists.
BuiltinsTypeOK ==
    /\ text \in Texts /\ commands \in 0 .. MaxCommands
    /\ \A p \in FilePaths :
          /\ tree[p].kind \in {"absent", "dir", "file"}
          /\ Len(p) = 2 /\ tree[p].kind # "absent" => tree[Up(p)].kind = "dir"

\* The filters agree with each other on every text a pipeline can print, so
\* that a script may split a text and put it together again: head and tail
\* +n part it, tail is the end of it; sort keeps every line as often as it
\* occurs, and orders it; sort -u and sort | uniq are the same; and xargs passes
\* every item once and in order, unless a call fails, and then nothing after
\* that call (shell_builtins.go:161-560).
FiltersAgree ==
    LET sorted == SortLines(text, {})
    IN  /\ \A n \in 0 .. MaxLines :
              /\ HeadLines(text, n) \o TailFrom(text, n + 1) = text
              /\ TailLines(text, n) = TailFrom(text, IF n >= Len(text) THEN 1
                                                     ELSE Len(text) - n + 1)
        /\ \A line \in ToSet(text) \cup ToSet(sorted) :
              Cardinality({i \in 1 .. Len(text) : text[i] = line})
                  = Cardinality({i \in 1 .. Len(sorted) : sorted[i] = line})
        /\ \A i, j \in 1 .. Len(sorted) : i < j => ~ LexLess(sorted[j], sorted[i])
        /\ UniqLines(sorted, {}) = SortLines(text, {"u"})
        /\ IsPrefix(FlattenSeq(calls), Items(input))
==============================================================================
