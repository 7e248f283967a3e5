------------------------------ MODULE ToolOutputs ------------------------------
(***************************************************************************)
(* Large tool outputs: internal/agent/tool_output.go, its two tools        *)
(* (view_tool_output, grep_tool_output in tools_internal.go) and           *)
(* internal/knowledge/agent_run_tool_output.go.  An output that is too     *)
(* large for the model is cleaned, cut to a number of bytes and stored;    *)
(* the model gets a summary and reads the rest in pages of lines or        *)
(* searches it.  Text is a sequence of units: a line end, a carriage       *)
(* return, a terminal sequence, or a character of one or of several bytes. *)
(***************************************************************************)
EXTENDS Naturals, Sequences, FiniteSets, SequencesExt

CONSTANTS
  Letters,         \* characters of one byte
  WideLetters,     \* characters of WideBytes bytes
  WideBytes,
  TokenLimit,      \* an output with more tokens is stored
  MaxStoredBytes,  \* 4 MB
  MaxPreview,      \* characters of a preview of a match, 240
  PreviewBudget,   \* bytes of all previews of a search, 8 KB
  MaxUnits, MaxLine, Limits  \* bounds: of an output, of a long line, of a page

ASSUME OutputsAssumption ==
  /\ WideBytes \in 2..4 /\ TokenLimit \in Nat \ {0} /\ MaxStoredBytes \in Nat \ {0}
  /\ MaxPreview \in Nat \ 0..6 /\ PreviewBudget \in Nat /\ Limits \subseteq Nat \ {0}

VARIABLES
  said,     \* what the tool answered, and the part of it that is worth storing
  inline,   \* what the model got: "nothing", "all" or "summary"
  output,   \* the stored row
  reading,  \* the pages read so far
  matched,    \* the last search
  preview   \* the preview of a match in a long line

outputVars == <<said, inline, output, reading, matched, preview>>

LineEnd == "\n"
Return == "\r"
Terminal == "ESC"
Units == Letters \cup WideLetters \cup {LineEnd, Return, Terminal}

NothingSaid == [tool |-> "", content |-> <<>>, inner |-> <<>>]
NoOutput == [content |-> <<>>, lines |-> 0, truncated |-> FALSE, bytes |-> 0]
NotReading == [at |-> "idle", offset |-> 0, lines |-> <<>>]
NotFound == [at |-> "idle"]
NoPreview == [at |-> "idle"]

OutputsInit ==
  /\ said = NothingSaid /\ inline = "nothing" /\ output = NoOutput
  /\ reading = NotReading /\ matched = NotFound /\ preview = NoPreview

-----------------------------------------------------------------------------
(* Storing.                                                                *)

\* strings.ReplaceAll of "\r\n".
WithoutReturns(v) ==
  LET keep == {k \in DOMAIN v : ~(v[k] = Return /\ k < Len(v) /\ v[k + 1] = LineEnd)}
  IN FoldLeft(LAMBDA r, k : IF k \in keep THEN Append(r, v[k]) ELSE r, <<>>, [k \in DOMAIN v |-> k])

\* canonicalizeToolOutput: line ends first, then terminal sequences.
Canonical(v) == SelectSeq(WithoutReturns(v), LAMBDA u : u # Terminal)

Width(u) == IF u \in WideLetters THEN WideBytes ELSE 1
Bytes(v) == FoldLeft(LAMBDA n, u : n + Width(u), 0, v)

\* shapeSpilledToolContent: of view and web_fetch_get only the text inside is
\* stored; a view without text is stored as it came.
Shape(tool, content, inner) ==
  CASE tool = "view" -> IF inner = <<>> THEN content ELSE inner
    [] tool = "web_fetch_get" -> inner
    [] OTHER -> content

\* truncateUTF8StringToBytes: the loop looks at the start of the character
\* before, so that the cut is a character or two behind the limit.
Truncated(v, max) ==
  LET start(k) == Bytes(SubSeq(v, 1, k - 1))
      over == {k \in 2..Len(v) : start(k - 1) > max}
      fits == {k \in 0..Len(v) : Bytes(SubSeq(v, 1, k)) <= max}
      first == CHOOSE k \in over : \A j \in over : k <= j
      last == CHOOSE k \in fits : \A j \in fits : k >= j
  IN IF Bytes(v) <= max THEN v
     ELSE IF over # {} THEN SubSeq(v, 1, first - 1) ELSE SubSeq(v, 1, last)

\* splitToolOutputLines
SplitLines(v) ==
  LET add(lines, u) == IF u = LineEnd THEN Append(lines, <<>>)
                       ELSE [lines EXCEPT ![Len(lines)] = Append(@, u)]
      all == FoldLeft(add, <<<<>>>>, WithoutReturns(v))
  IN IF Last(all) = <<>> THEN Front(all) ELSE all

\* A token is a unit here.  An error of the store leaves the answer as it was.
SpillToolResponse(tool, content, inner, stores) ==
  LET base == Canonical(Shape(tool, Canonical(content), inner))
      row == Truncated(base, MaxStoredBytes)
  IN /\ inline = "nothing" /\ preview = NoPreview
     /\ said' = [tool |-> tool, content |-> content, inner |-> inner]
     /\ IF /\ tool \notin {"view_tool_output", "grep_tool_output"}
           /\ Len(Canonical(content)) > TokenLimit /\ Len(base) > TokenLimit /\ stores
        THEN /\ inline' = "summary"
             /\ output' = [content |-> row, lines |-> Len(SplitLines(row)),
                           truncated |-> row # base, bytes |-> Bytes(base)]
        ELSE inline' = "all" /\ UNCHANGED output
     /\ UNCHANGED <<reading, matched, preview>>

-----------------------------------------------------------------------------
(* Reading.                                                                *)

\* Mutant: the last line of a page is also the first of the next one.
PageEndTooFar(offset, limit, total) ==
  IF offset + limit + 1 < total THEN offset + limit + 1 ELSE total

PageEnd(offset, limit, total) == IF offset + limit < total THEN offset + limit ELSE total

\* GetAgentRunToolOutputPage, asked again behind the lines of the last page
\* until it says that nothing is left out.
ViewToolOutput(limit) ==
  /\ inline = "summary" /\ reading.at # "done" /\ matched = NotFound
  /\ LET lines == SubSeq(SplitLines(output.content), 1, output.lines)
         end == PageEnd(reading.offset, limit, Len(lines))
     IN reading' = [at |-> IF reading.offset + limit < Len(lines) THEN "more" ELSE "done",
                    offset |-> IF reading.offset + limit < Len(lines)
                               THEN reading.offset + limit ELSE Len(lines),
                    lines |-> reading.lines \o SubSeq(lines, reading.offset + 1, end)]
  /\ UNCHANGED <<said, inline, output, matched, preview>>

\* buildToolOutputMatchPreview of the match after the first s characters of a
\* line of n, l characters long: what it shows of the line, and its length.
Preview(n, s, l) ==
  LET length == IF l = 0 THEN 1 ELSE l
      matchEnd == IF s + length < n THEN s + length ELSE n
      room == MaxPreview - (IF s > 0 THEN 3 ELSE 0) - (IF matchEnd < n THEN 3 ELSE 0)
      window == IF room < length THEN length ELSE room
      half == (window - length) \div 2
      s1 == IF s > half THEN s - half ELSE 0
      back(end) == IF end > window THEN end - window ELSE 0
      e2 == IF s1 + window < matchEnd THEN matchEnd ELSE s1 + window
      s2 == IF s1 + window < matchEnd THEN back(matchEnd) ELSE s1
      e3 == IF e2 > n THEN n ELSE e2
      s3 == IF e2 > n THEN back(n) ELSE s2
      dots == IF s3 > 0 THEN 3 ELSE 0
      total == dots + (e3 - s3) + (IF e3 < n THEN 3 ELSE 0)
  IN IF n <= MaxPreview THEN [from |-> 0, to |-> n, length |-> n]
     ELSE IF total <= MaxPreview THEN [from |-> s3, to |-> e3, length |-> total]
     ELSE [from |-> s3, length |-> MaxPreview,
           to |-> IF e3 < s3 + MaxPreview - dots THEN e3 ELSE s3 + MaxPreview - dots]

PreviewMatch(n, s, l) ==
  /\ inline = "nothing" /\ preview = NoPreview
  /\ preview' = [at |-> "shown", n |-> n, s |-> s, l |-> l, shows |-> Preview(n, s, l)]
  /\ UNCHANGED <<said, inline, output, reading, matched>>

\* The loop over the lines: it ends at a match that is one too many, or whose
\* preview goes beyond the budget.
Search(lines, letter, limit) ==
  LET look(r, k) ==
        IF r.truncated \/ letter \notin Range(lines[k]) THEN r
        ELSE IF Len(r.matches) >= limit \/ r.used + Bytes(lines[k]) > PreviewBudget
        THEN [r EXCEPT !.truncated = TRUE]
        ELSE [r EXCEPT !.matches = Append(@, k), !.used = @ + Bytes(lines[k])]
  IN FoldLeft(look, [matches |-> <<>>, used |-> 0, truncated |-> FALSE], [k \in DOMAIN lines |-> k])

\* SearchAgentRunToolOutput for a letter; the lines are shorter than a preview.
GrepToolOutput(letter, limit) ==
  /\ inline = "summary" /\ matched = NotFound /\ reading = NotReading
  /\ matched' = [at |-> "found", letter |-> letter, limit |-> limit,
               result |-> Search(SplitLines(output.content), letter, limit)]
  /\ UNCHANGED <<said, inline, output, reading, preview>>

Texts == UNION {[1..n -> Units] : n \in 0..MaxUnits}
ShortTexts == UNION {[1..n -> Letters \cup {LineEnd}] : n \in 0..(TokenLimit + 1)}

OutputsNext ==
  \/ \E content \in Texts, stores \in BOOLEAN : SpillToolResponse("bash", content, <<>>, stores)
  \/ \E tool \in {"view", "web_fetch_get", "view_tool_output"},
        inner \in ShortTexts, letter \in Letters :
       SpillToolResponse(tool, [k \in 1..(Len(inner) + TokenLimit) |-> letter], inner, TRUE)
  \/ \E limit \in Limits : ViewToolOutput(limit)
  \/ \E letter \in Letters, limit \in Limits : GrepToolOutput(letter, limit)
  \/ \E n \in 1..MaxLine : \E s \in 0..(n - 1) : \E l \in 0..(n - s) : PreviewMatch(n, s, l)

OutputsSpec == OutputsInit /\ [][OutputsNext]_outputVars

-----------------------------------------------------------------------------
(* Properties.                                                             *)

OutputsTypeOK ==
  /\ inline \in {"nothing", "all", "summary"}
  /\ output.content \in Seq(Units \ {Terminal}) /\ output.lines \in Nat
  /\ reading.at \in {"idle", "more", "done"} /\ reading.offset \in Nat

\* What one reads in the lines of a text: no terminal sequences, no returns.
Readable(lines) ==
  [k \in DOMAIN lines |-> SelectSeq(lines[k], LAMBDA u : u \notin {Terminal, Return})]

\* Pages read one after the other until none is left give every stored line once
\* and in order; these are the lines of what the tool said, or a beginning of
\* them, carriage returns aside, that says so and goes at most two characters beyond the limit
\* (spillToolResponse, GetAgentRunToolOutputPage).
PagesAreTheOutput ==
  LET whole == Shape(said.tool, said.content, said.inner)
  IN inline = "summary" =>
       /\ reading.at = "done" => reading.lines = SplitLines(output.content)
       /\ reading.at = "done" /\ ~output.truncated =>
            Readable(reading.lines) = Readable(SplitLines(SelectSeq(whole, LAMBDA u : u # Terminal)))
       /\ IsPrefix(output.content, Canonical(Canonical(whole)))
       /\ Bytes(output.content) <= MaxStoredBytes + 2 * WideBytes
       /\ output.truncated <=> Bytes(output.content) < output.bytes

\* A search answers the first lines with a match, and says that it left some out
\* exactly when it did (SearchAgentRunToolOutput).
SearchTellsWhatIsMissing ==
  matched # NotFound =>
    LET lines == SplitLines(output.content)
        hits == {k \in DOMAIN lines : matched.letter \in Range(lines[k])}
        given == Range(matched.result.matches)
    IN /\ given \subseteq hits /\ \A j \in given, k \in hits \ given : j < k
       /\ matched.result.truncated <=> given # hits

\* A preview is no longer than allowed and shows the match: all of it when there
\* is room, else where it begins (buildToolOutputMatchPreview).
PreviewShowsMatch ==
  preview # NoPreview =>
    LET p == preview.shows
        least == IF preview.l = 0 THEN 1 ELSE preview.l
        room == IF least < MaxPreview - 6 THEN least ELSE MaxPreview - 6
    IN /\ p.length <= MaxPreview
       /\ p.from <= preview.s /\ preview.s + room <= p.to /\ p.to <= preview.n

\* The three together.
OutputsCanBeRead == PagesAreTheOutput /\ SearchTellsWhatIsMissing /\ PreviewShowsMatch
===============================================================================
