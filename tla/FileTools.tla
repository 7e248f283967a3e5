------------------------------- MODULE FileTools -------------------------------
(***************************************************************************)
(* The file tools of an execution and the copies of the workspace command: *)
(* internal/agent/tools_files.go, internal/workspace/files.go.  Tool calls *)
(* of one or of several runs work on the same workspace without a lock.    *)
(* Directories are those that the paths of the files imply.                *)
(***************************************************************************)
EXTENDS Naturals, Sequences, FiniteSets

CONSTANTS
  Callers,    \* tool calls that may run at the same time
  TreePaths,  \* paths, as sequences of names
  PathOrder,  \* the place of each path in a walk of the workspace
  Letters, NewLine,   \* what file contents are made of
  EditLists,  \* what "multiedit" is called with; "edit" has one element
  FirstTree,  \* the files at the start
  HostTree,   \* what "workspace put" copies: contents below its root
  SearchText, \* what "grep" looks for
  MaxLength, MaxCalls, MaxCopies, PageLimits  \* bounds

ASSUME FileToolsAssumption ==
  /\ NewLine \in Letters /\ MaxLength \in Nat /\ MaxCalls \in Nat /\ MaxCopies \in Nat
  /\ PageLimits \subseteq Nat \ {0}

VARIABLES
  fileTree,     \* contents of the files, by path
  edit,     \* what each tool call is doing
  serial,   \* the contents if the calls had run one after the other
  overlap,  \* paths that calls worked on at the same time
  page,     \* a reader that views one file page by page
  grep,   \* the last search and its answer
  copying,  \* a copy into the workspace
  fileCalls, copies

fileVars == <<fileTree, edit, serial, overlap, page, grep, copying, fileCalls, copies>>

NoEdit == [at |-> "idle", path |-> <<>>, edits |-> <<>>, body |-> <<>>]
NoPage == [path |-> <<>>, offset |-> 0, got |-> <<>>, state |-> "none", changed |-> FALSE]
NoSearch == [hits |-> {}, limit |-> 0, truncated |-> FALSE, state |-> "none"]
NoCopy == [dst |-> <<>>, left |-> {}, state |-> "none"]

FileToolsInit ==
  /\ fileTree = FirstTree /\ serial = FirstTree /\ overlap = {}
  /\ edit = [c \in Callers |-> NoEdit]
  /\ page = NoPage /\ grep = NoSearch /\ copying = NoCopy
  /\ fileCalls = 0 /\ copies = 0

-----------------------------------------------------------------------------
(* Exact replacements.                                                     *)

Occurs(old, body, i) ==
  i + Len(old) - 1 <= Len(body) /\ SubSeq(body, i, i + Len(old) - 1) = old

\* strings.Count and strings.ReplaceAll: matches from the left, none of which
\* overlap.
Replaced(body, old, new) ==
  LET from[i \in 1..(Len(body) + 1)] ==
        IF i > Len(body) THEN [count |-> 0, body |-> <<>>]
        ELSE IF Occurs(old, body, i)
        THEN [count |-> from[i + Len(old)].count + 1, body |-> new \o from[i + Len(old)].body]
        ELSE [from[i + 1] EXCEPT !.body = <<body[i]>> \o @]
  IN from[1]

\* strings.Replace with n = 1.
ReplacedFirst(body, old, new) ==
  LET at == CHOOSE i \in 1..Len(body) :
              Occurs(old, body, i) /\ \A j \in 1..(i - 1) : ~Occurs(old, body, j)
  IN SubSeq(body, 1, at - 1) \o new \o SubSeq(body, at + Len(old), Len(body))

\* Mutant: a second match does not refuse an edit that asks for one.
EditRefusedWithoutMatch(body, e) ==
  IF e.old = <<>> THEN body # <<>> ELSE Replaced(body, e.old, e.new).count = 0

EditRefused(body, e) ==
  IF e.old = <<>> THEN body # <<>>
  ELSE LET n == Replaced(body, e.old, e.new).count IN n = 0 \/ (~e.all /\ n # 1)

ApplyExactEditString(body, e) ==
  IF e.old = <<>> THEN e.new
  ELSE IF e.all THEN Replaced(body, e.old, e.new).body
  ELSE ReplacedFirst(body, e.old, e.new)

\* The edits one after the other; the first that is refused refuses all.
MultiEdit(body, edits) ==
  LET after[n \in 0..Len(edits)] ==
        IF n = 0 THEN [ok |-> TRUE, body |-> body]
        ELSE IF ~after[n - 1].ok \/ EditRefused(after[n - 1].body, edits[n])
        THEN [ok |-> FALSE, body |-> body]
        ELSE [ok |-> TRUE, body |-> ApplyExactEditString(after[n - 1].body, edits[n])]
  IN after[Len(edits)]

-----------------------------------------------------------------------------
(* Writing and editing.                                                    *)

Below(p, q) == Len(p) < Len(q) /\ SubSeq(q, 1, Len(p)) = p

\* The trees hold texts at paths, no file is a directory as well, and a walk
\* has a place for every path there can be.
ASSUME TreesAssumption ==
  /\ TreePaths \cup DOMAIN HostTree \subseteq Seq(STRING) /\ <<>> \notin TreePaths
  /\ EditLists \subseteq Seq([old : Seq(Letters), new : Seq(Letters), all : BOOLEAN])
  /\ \A s \in DOMAIN HostTree : HostTree[s] \in Seq(Letters)
  /\ DOMAIN FirstTree \subseteq TreePaths /\ IsFiniteSet(DOMAIN FirstTree)
  /\ \A p \in DOMAIN FirstTree : FirstTree[p] \in Seq(Letters)
  /\ \A p, q \in DOMAIN FirstTree : ~Below(p, q)
  /\ \A p \in TreePaths : PathOrder[p] \in Nat
  /\ \A p \in TreePaths, s \in DOMAIN HostTree : PathOrder[<<p[1]>> \o s] \in Nat

\* MkdirAll and WriteFile: no directory of the path is a file, and the path
\* itself is no directory.
Writable(p) == \A q \in DOMAIN fileTree : ~Below(q, p) /\ ~Below(p, q)

WithFile(tree, p, body) == [q \in DOMAIN tree \cup {p} |-> IF q = p THEN body ELSE tree[q]]

ReadEditableFile(p) == IF p \in DOMAIN fileTree THEN fileTree[p] ELSE <<>>

\* Whoever pages through a file sees it change; a search is out of date.
Outdate(p) ==
  /\ page' = IF page.path = p THEN [page EXCEPT !.changed = TRUE] ELSE page
  /\ grep' = NoSearch

Busy(p) == \E o \in Callers : edit[o].at # "idle" /\ edit[o].path = p

BeginEdit(c, p, edits, body) ==
  /\ edit' = [edit EXCEPT ![c] = [at |-> "write", path |-> p, edits |-> edits, body |-> body]]
  /\ overlap' = IF Busy(p) THEN overlap \cup {p} ELSE overlap

\* edit and multiedit: the file is read and the new text computed.
ReadForEdit(c) ==
  /\ edit[c].at = "idle" /\ fileCalls < MaxCalls /\ fileCalls' = fileCalls + 1
  /\ \E p \in TreePaths, edits \in EditLists :
       LET result == MultiEdit(ReadEditableFile(p), edits)
       IN IF result.ok /\ Len(result.body) <= MaxLength /\ Writable(p)
          THEN BeginEdit(c, p, edits, result.body) ELSE UNCHANGED <<edit, overlap>>
  /\ UNCHANGED <<fileTree, serial, page, grep, copying, copies>>

\* write: whatever the file held is replaced.
WriteWhole(c) ==
  /\ edit[c].at = "idle" /\ fileCalls < MaxCalls /\ fileCalls' = fileCalls + 1
  /\ \E p \in TreePaths, l \in Letters :
       Writable(p) /\ BeginEdit(c, p, <<>>, <<l, l>>)
  /\ UNCHANGED <<fileTree, serial, page, grep, copying, copies>>

\* os.WriteFile: the file is emptied, then filled.  It fails where a copy has
\* put a directory meanwhile.
EmptyFile(c) ==
  /\ edit[c].at = "write"
  /\ IF Writable(edit[c].path)
     THEN /\ edit' = [edit EXCEPT ![c].at = "fill"]
          /\ fileTree' = WithFile(fileTree, edit[c].path, <<>>)
          /\ Outdate(edit[c].path)
     ELSE edit' = [edit EXCEPT ![c] = NoEdit] /\ UNCHANGED <<fileTree, page, grep>>
  /\ UNCHANGED <<serial, overlap, copying, fileCalls, copies>>

\* What the call reported done, on the contents as they would be without
\* overlap: an edit that asks for one match replaces text that occurs once.
AsReported(body, edits, written) ==
  IF edits = <<>> THEN written
  ELSE IF Len(edits) = 1 /\ ~edits[1].all /\ edits[1].old # <<>>
  THEN LET places == {i \in 1..Len(body) : Occurs(edits[1].old, body, i)}
           first == IF places = {} THEN 0 ELSE CHOOSE i \in places : \A j \in places : i <= j
       IN IF places # {} /\ \A j \in places : j < first + Len(edits[1].old)
          THEN SubSeq(body, 1, first - 1) \o edits[1].new
                 \o SubSeq(body, first + Len(edits[1].old), Len(body))
          ELSE body
  ELSE MultiEdit(body, edits).body

\* What is written to a file that a copy removed meanwhile is written nowhere,
\* and reported done.
FillFile(c) ==
  /\ edit[c].at \in {"fill", "fill nowhere"}
  /\ LET p == edit[c].path
         before == IF p \in DOMAIN serial THEN serial[p] ELSE <<>>
     IN /\ fileTree' = IF edit[c].at = "fill" THEN WithFile(fileTree, p, edit[c].body) ELSE fileTree
        /\ serial' = WithFile(serial, p, AsReported(before, edit[c].edits, edit[c].body))
        /\ Outdate(p)
  /\ edit' = [edit EXCEPT ![c] = NoEdit]
  /\ UNCHANGED <<overlap, copying, fileCalls, copies>>

-----------------------------------------------------------------------------
(* Reading.                                                                *)

\* strings.Split at the newlines.
SplitLines(body) ==
  LET cuts == {0, Len(body) + 1} \cup {i \in 1..Len(body) : body[i] = NewLine}
      nth[n \in 0..(Cardinality(cuts) - 1)] ==
        CHOOSE i \in cuts : Cardinality({j \in cuts : j < i}) = n
  IN [n \in 1..(Cardinality(cuts) - 1) |-> SubSeq(body, nth[n - 1] + 1, nth[n] - 1)]

\* view drops the empty line after the last newline.
ViewLines(body) ==
  LET lines == SplitLines(body)
  IN IF lines[Len(lines)] = <<>> THEN SubSeq(lines, 1, Len(lines) - 1) ELSE lines

\* Mutant: the end of the window is one line too far.
WindowEndTooFar(offset, limit, total) == IF offset + limit < total THEN offset + limit + 1 ELSE total

WindowEnd(offset, limit, total) == IF offset + limit < total THEN offset + limit ELSE total

\* view: the reader asks for the next page where the last one ended.
ViewFile ==
  /\ page.state = "none" \/ page.state = "more"
  /\ \E p \in DOMAIN fileTree, limit \in PageLimits :
       /\ page.state = "more" => p = page.path
       /\ LET lines == ViewLines(fileTree[p])
              start == IF page.offset > Len(lines) THEN Len(lines) ELSE page.offset
              end == WindowEnd(start, limit, Len(lines))
          IN page' = [path |-> p, offset |-> start + limit,
                      got |-> page.got \o SubSeq(lines, start + 1, end),
                      state |-> IF start + limit < Len(lines) THEN "more" ELSE "done",
                      changed |-> page.changed]
  /\ UNCHANGED <<fileTree, edit, serial, overlap, grep, copying, fileCalls, copies>>

PutAway ==
  /\ page.state = "done" /\ page' = NoPage
  /\ UNCHANGED <<fileTree, edit, serial, overlap, grep, copying, fileCalls, copies>>

Hits == {h \in (DOMAIN fileTree) \X (1..(MaxLength + 1)) :
           LET lines == SplitLines(fileTree[h[1]])
           IN h[2] <= Len(lines)
                /\ \E i \in 1..Len(lines[h[2]]) : lines[h[2]][i] = SearchText}
WalkBefore(a, b) ==
  PathOrder[a[1]] < PathOrder[b[1]] \/ (a[1] = b[1] /\ a[2] < b[2])

\* grepWithGo: the walk collects up to limit matching lines.
GrepWithGo ==
  /\ grep.state = "none"
  /\ \E limit \in PageLimits :
       grep' = [hits |-> {h \in Hits : Cardinality({g \in Hits : WalkBefore(g, h)}) < limit},
                  limit |-> limit, truncated |-> Cardinality(Hits) > limit, state |-> "done"]
  /\ UNCHANGED <<fileTree, edit, serial, overlap, page, copying, fileCalls, copies>>

\* grepWithRipgrep: ripgrep reports the files in any order, and when it fails
\* half-way what it has reported is the answer.  Failing before any match it
\* leaves the search to grepWithGo.
GrepWithRipgrep ==
  /\ grep.state = "none"
  /\ \E limit \in PageLimits, reported \in SUBSET Hits :
       /\ reported # {} \/ Hits = {}
       /\ \E kept \in SUBSET reported :
            /\ Cardinality(kept)
                 = (IF Cardinality(reported) > limit THEN limit ELSE Cardinality(reported))
            /\ grep' = [hits |-> kept, limit |-> limit,
                          truncated |-> Cardinality(reported) > limit,
                          state |-> IF reported = Hits THEN "done" ELSE "failed"]
  /\ UNCHANGED <<fileTree, edit, serial, overlap, page, copying, fileCalls, copies>>

-----------------------------------------------------------------------------
(* Copies into the workspace (CopyTree).                                   *)

InTarget(dst) == {p \in DOMAIN fileTree : p = dst \/ Below(dst, p)}

\* What is at the destination is removed first, when it may be overwritten.
BeginCopy ==
  /\ copying.state \in {"none", "done"} /\ copies < MaxCopies /\ copies' = copies + 1
  /\ \E dst \in {<<p[1]>> : p \in TreePaths}, overwrite \in BOOLEAN :
       /\ \A q \in DOMAIN fileTree : ~Below(q, dst)
       /\ InTarget(dst) = {} \/ overwrite
       /\ copying' = [dst |-> dst, left |-> DOMAIN HostTree, state |-> "copying"]
       /\ fileTree' = [p \in DOMAIN fileTree \ InTarget(dst) |-> fileTree[p]]
       /\ overlap' = overlap \cup {p \in TreePaths : p = dst \/ Below(dst, p)}
       /\ edit' = [c \in Callers |->
                    IF edit[c].at = "fill" /\ edit[c].path \in InTarget(dst)
                    THEN [edit[c] EXCEPT !.at = "fill nowhere"] ELSE edit[c]]
  /\ page' = [page EXCEPT !.changed = TRUE] /\ grep' = NoSearch
  /\ UNCHANGED <<serial, fileCalls>>

\* One file after the other; a file that cannot be written ends the copy.
CopyRegularFile ==
  /\ copying.state = "copying"
  /\ IF copying.left = {} THEN copying' = [copying EXCEPT !.state = "done"] /\ UNCHANGED fileTree
     ELSE \E s \in copying.left :
            LET p == copying.dst \o s
            IN IF Writable(p)
               THEN /\ fileTree' = WithFile(fileTree, p, HostTree[s])
                    /\ copying' = [copying EXCEPT !.left = @ \ {s}]
               ELSE copying' = NoCopy /\ UNCHANGED fileTree
  /\ page' = [page EXCEPT !.changed = TRUE] /\ grep' = NoSearch
  /\ UNCHANGED <<edit, serial, overlap, fileCalls, copies>>

FileToolsNext ==
  \/ \E c \in Callers : ReadForEdit(c) \/ WriteWhole(c) \/ EmptyFile(c) \/ FillFile(c)
  \/ ViewFile \/ PutAway \/ GrepWithGo \/ GrepWithRipgrep
  \/ BeginCopy \/ CopyRegularFile

FileToolsSpec == FileToolsInit /\ [][FileToolsNext]_fileVars

-----------------------------------------------------------------------------
(* Correctness.                                                            *)

FileToolsTypeOK ==
  /\ DOMAIN serial \subseteq TreePaths
  /\ \A p \in DOMAIN fileTree : fileTree[p] \in Seq(Letters)
  /\ \A p, q \in DOMAIN fileTree : ~Below(p, q)
  /\ \A c \in Callers : edit[c].at \in {"idle", "write", "fill", "fill nowhere"}
  /\ overlap \subseteq TreePaths
  /\ page.state \in {"none", "more", "done"} /\ copying.state \in {"none", "copying", "done"}
  /\ fileCalls \in 0..MaxCalls /\ copies \in 0..MaxCopies

\* A file that no two calls worked on at the same time holds what the calls
\* reported, one after the other; an edit that asks for a unique match changed
\* text that occurs in one place only (applyExactEdit, writeFile).
EditsAreSerial ==
  \A p \in DOMAIN serial \ overlap :
    (\A c \in Callers : edit[c].at = "fill" => edit[c].path # p) => fileTree[p] = serial[p]

\* The pages of a file that did not change meanwhile are the file: no line is
\* missing, none is there twice (viewFile).
PagesAreTheFile ==
  page.state = "done" /\ ~page.changed => page.got = ViewLines(fileTree[page.path])

\* What a search reports is a matching line, and a search that does not say it
\* was cut short reports every one, whichever engine searched, unless ripgrep
\* failed half-way: then nothing in the answer tells that lines are missing
\* (grepWithGo, grepWithRipgrep; tools_files.go:613-625).
SearchIsComplete ==
  /\ grep.hits \subseteq Hits
  /\ grep.state = "done" /\ ~grep.truncated => grep.hits = Hits

FilesAreExact == EditsAreSerial /\ PagesAreTheFile /\ SearchIsComplete
================================================================================
