------------------------------- MODULE ToolsProofs -------------------------------
(***************************************************************************)
(* The tools of an execution do what they report.                          *)
(*                                                                         *)
(* Containers are used and left as the leases say, for any number of runs  *)
(* and skills, however often docker fails and runs are killed, as long as  *)
(* no shell script calls skill commands.  The lock file of a lease is      *)
(* unlinked while others may wait for the lock of the old file, so the lock*)
(* does not exclude by itself: what does is that a run that gives a lease  *)
(* back has the file that is there, and that a run that waits for an old   *)
(* file finds nobody who has a lease (LockFilesOK).                        *)
(*                                                                         *)
(* The tool policy, the restricted shell's copies and the background       *)
(* processes of a container each have an invariant of their own; the last  *)
(* section puts them together with that of the file tools.                 *)
(***************************************************************************)
EXTENDS MCTools, SequenceTheorems, FiniteSetTheorems, WellFoundedInduction, TLAPS

-----------------------------------------------------------------------------
(***************************************************************************)
(* The file tools.                                                         *)
(*                                                                         *)
(* What the file tools report is what is in the files, for any texts,      *)
(* paths, edits and numbers of tool calls.  The replacements, the edits of *)
(* one call and the cutting into lines are recursive functions of texts.   *)
(* What they compute for every text is proved by taking the least number   *)
(* for which it would be wrong (LeastNumber): the same as an induction,    *)
(* and it needs no theorem with an operator for a parameter.               *)
(***************************************************************************)

\* A set of numbers has a least one.
LEMMA LeastNumber ==
  ASSUME NEW S \in SUBSET Nat, S # {}
  PROVE  \E x \in S : \A y \in S : x <= y
<1> DEFINE R == OpToRel(<, Nat)
<1>1. IsWellFoundedOn(R, Nat)
  BY NatLessThanWellFounded
<1>2. \A x, y \in Nat : y < x => <<y, x>> \in R
  BY DEF OpToRel
<1> HIDE DEF R
<1>3. PICK x \in S : \A y \in S : ~(<<y, x>> \in R)
  BY <1>1, WFMin
<1>4. ASSUME NEW y \in S PROVE x <= y
  <2>1. x \in Nat /\ y \in Nat
    OBVIOUS
  <2>2. ~(y < x)
    BY <1>2, <1>3, <2>1
  <2>3. QED
    BY <2>1, <2>2
<1>5. QED
  BY <1>4

\* The scan for matches from place i on, given what it finds behind i.
ScanStep(f, body, old, new, i) ==
    IF i > Len(body) THEN [count |-> 0, body |-> <<>>]
    ELSE IF Occurs(old, body, i)
    THEN [count |-> f[i + Len(old)].count + 1, body |-> new \o f[i + Len(old)].body]
    ELSE [f[i + 1] EXCEPT !.body = <<body[i]>> \o @]

IsScan(f, body, old, new, m) ==
    f = [i \in m .. (Len(body) + 1) |-> ScanStep(f, body, old, new, i)]

\* What is found at i depends on what is behind i only.
LEMMA ScanLooksAhead ==
  ASSUME NEW n \in Nat, NEW body, Len(body) = n, NEW old, Len(old) \in Nat \ {0}, NEW new,
         NEW f, NEW g, NEW i \in 1 .. (n + 1), \A j \in (i + 1) .. (n + 1) : f[j] = g[j]
  PROVE  ScanStep(f, body, old, new, i) = ScanStep(g, body, old, new, i)
<1>1. CASE i > n
  BY <1>1 DEF ScanStep
<1>2. CASE ~(i > n)
  <2>1. f[i + 1] = g[i + 1]
    BY <1>2
  <2>2. Occurs(old, body, i) => f[i + Len(old)] = g[i + Len(old)]
    <3>1. Occurs(old, body, i) => i + Len(old) - 1 <= n
      BY DEF Occurs
    <3>2. QED
      BY <3>1
  <2>3. QED
    BY <1>2, <2>1, <2>2 DEF ScanStep
<1>3. QED
  BY <1>1, <1>2

LEMMA ScanExists ==
  ASSUME NEW n \in Nat, NEW body, Len(body) = n, NEW old, Len(old) \in Nat \ {0}, NEW new
  PROVE  \E f : IsScan(f, body, old, new, 1)
<1> DEFINE Bad == {k \in Nat : k <= n /\ ~ \E f : IsScan(f, body, old, new, n + 1 - k)}
<1> SUFFICES ASSUME ~ \E f : IsScan(f, body, old, new, 1) PROVE FALSE
  OBVIOUS
<1>1. n \in Bad
  OBVIOUS
<1>2. PICK k \in Bad : \A j \in Bad : k <= j
  <2> HIDE DEF Bad
  <2>1. Bad \subseteq Nat
    BY DEF Bad
  <2>2. QED
    BY <1>1, <2>1, LeastNumber
<1>3. k \in Nat /\ k <= n /\ ~ \E f : IsScan(f, body, old, new, n + 1 - k)
  OBVIOUS
<1>4. CASE k = 0
  <2> DEFINE f == [i \in (n + 1) .. (n + 1) |-> [count |-> 0, body |-> <<>>]]
  <2>1. \A i \in (n + 1) .. (n + 1) : ScanStep(f, body, old, new, i) = [count |-> 0, body |-> <<>>]
    BY DEF ScanStep
  <2>2. f = [i \in (n + 1) .. (n + 1) |-> ScanStep(f, body, old, new, i)]
    BY <2>1
  <2>3. IsScan(f, body, old, new, n + 1)
    BY <2>2 DEF IsScan
  <2>4. QED
    BY <2>3, <1>3, <1>4
<1>5. CASE k # 0
  <2> DEFINE m == n + 1 - k
  <2>1. m \in 1 .. n /\ n + 1 - (k - 1) = m + 1 /\ k - 1 \in Nat
    BY <1>3, <1>5
  <2>2. k - 1 \notin Bad
    BY <1>2, <1>3, <2>1
  <2>3. PICK g : IsScan(g, body, old, new, m + 1)
    BY <2>1, <2>2, <1>3
  <2> HIDE DEF m, Bad
  <2>4. g = [i \in (m + 1) .. (n + 1) |-> ScanStep(g, body, old, new, i)]
    BY <2>3 DEF IsScan
  <2> DEFINE f == [i \in m .. (n + 1) |-> IF i = m THEN ScanStep(g, body, old, new, m) ELSE g[i]]
  <2>5. \A i \in m .. (n + 1) : ScanStep(f, body, old, new, i) = ScanStep(g, body, old, new, i)
    <3> TAKE i \in m .. (n + 1)
    <3>1. i \in 1 .. (n + 1) /\ \A j \in (i + 1) .. (n + 1) : f[j] = g[j]
      BY <2>1
    <3> HIDE DEF f
    <3>2. QED
      BY <3>1, ScanLooksAhead
  <2>6. ASSUME NEW i \in m .. (n + 1) PROVE f[i] = ScanStep(f, body, old, new, i)
    <3>1. ScanStep(f, body, old, new, i) = ScanStep(g, body, old, new, i)
      BY <2>5
    <3>2. f[i] = IF i = m THEN ScanStep(g, body, old, new, m) ELSE g[i]
      OBVIOUS
    <3>3. i # m => i \in (m + 1) .. (n + 1)
      BY <2>1
    <3>4. i # m => g[i] = ScanStep(g, body, old, new, i)
      BY <3>3, <2>4
    <3> HIDE DEF f
    <3>5. QED
      BY <3>1, <3>2, <3>4
  <2>7. f = [i \in m .. (n + 1) |-> ScanStep(f, body, old, new, i)]
    BY <2>6
  <2>8. IsScan(f, body, old, new, m)
    BY <2>7 DEF IsScan
  <2>9. QED
    BY <2>8, <1>3 DEF m
<1>6. QED
  BY <1>4, <1>5

LEMMA ReplacedScans ==
  ASSUME NEW n \in Nat, NEW body, Len(body) = n, NEW old, Len(old) \in Nat \ {0}, NEW new
  PROVE  \E f : /\ \A i \in 1 .. (n + 1) : f[i] = ScanStep(f, body, old, new, i)
                /\ Replaced(body, old, new) = f[1]
<1> DEFINE f == CHOOSE g : IsScan(g, body, old, new, 1)
<1>1. IsScan(f, body, old, new, 1)
  BY ScanExists
<1>2. Replaced(body, old, new) = f[1]
  BY DEF Replaced, IsScan, ScanStep
<1> HIDE DEF f
<1>3. \A i \in 1 .. (n + 1) : f[i] = ScanStep(f, body, old, new, i)
  BY <1>1 DEF IsScan
<1>4. QED
  BY <1>2, <1>3

\* What is found from any place on is a number of matches and a text; and where
\* none is found there is none.
LEMMA ScanFacts ==
  ASSUME NEW L, NEW body \in Seq(L), NEW old \in Seq(L), NEW new \in Seq(L), old # <<>>,
         NEW f, \A i \in 1 .. (Len(body) + 1) : f[i] = ScanStep(f, body, old, new, i)
  PROVE  \A i \in 1 .. (Len(body) + 1) :
            /\ f[i] \in [count : Nat, body : Seq(L)]
            /\ f[i].count = 0 => \A j \in i .. Len(body) : ~ Occurs(old, body, j)
<1> DEFINE n == Len(body)
           Fine(i) == /\ f[i] \in [count : Nat, body : Seq(L)]
                      /\ f[i].count = 0 => \A j \in i .. n : ~ Occurs(old, body, j)
           Bad == {k \in Nat : k <= n /\ ~ Fine(n + 1 - k)}
<1>1. n \in Nat /\ Len(old) \in Nat \ {0}
  BY LenProperties, EmptySeq
<1> SUFFICES ASSUME NEW i \in 1 .. (n + 1), ~ Fine(i) PROVE FALSE
  BY DEF Fine
<1> HIDE DEF Fine
<1>2. n + 1 - i \in Bad
  <2>1. n + 1 - (n + 1 - i) = i /\ n + 1 - i \in Nat /\ n + 1 - i <= n
    BY <1>1
  <2>2. QED
    BY <2>1
<1>3. PICK k \in Bad : \A j \in Bad : k <= j
  <2>1. Bad \subseteq Nat
    OBVIOUS
  <2> HIDE DEF Bad
  <2>2. QED
    BY <1>2, <2>1, LeastNumber
<1> DEFINE m == n + 1 - k
<1>4. k \in Nat /\ k <= n /\ ~ Fine(m) /\ m \in 1 .. (n + 1)
  BY <1>1
<1>5. ASSUME NEW j \in (m + 1) .. (n + 1) PROVE Fine(j)
  <2>1. n + 1 - j \in Nat /\ n + 1 - j < k /\ n + 1 - j <= n /\ n + 1 - (n + 1 - j) = j
    BY <1>1, <1>4
  <2>2. n + 1 - j \notin Bad
    BY <1>3, <1>4, <2>1
  <2>3. QED
    BY <2>1, <2>2
<1> HIDE DEF Bad, m
<1>6. f[m] = ScanStep(f, body, old, new, m)
  BY <1>4
<1>7. CASE m > n
  <2>1. f[m] = [count |-> 0, body |-> <<>>]
    BY <1>6, <1>7 DEF ScanStep
  <2>2. <<>> \in Seq(L)
    BY EmptySeq
  <2>3. \A j \in m .. n : FALSE
    BY <1>1, <1>4, <1>7
  <2>4. QED
    BY <2>1, <2>2, <2>3, <1>4 DEF Fine
<1>8. CASE m <= n /\ Occurs(old, body, m)
  <2> DEFINE j == m + Len(old)
  <2>1. j \in (m + 1) .. (n + 1)
    BY <1>1, <1>4, <1>8 DEF Occurs
  <2>2. f[m] = [count |-> f[j].count + 1, body |-> new \o f[j].body]
    BY <1>1, <1>4, <1>6, <1>8 DEF ScanStep
  <2>3. f[j] \in [count : Nat, body : Seq(L)]
    BY <2>1, <1>5 DEF Fine
  <2>4. new \o f[j].body \in Seq(L) /\ f[j].count + 1 \in Nat /\ f[j].count + 1 # 0
    BY <2>3, ConcatProperties
  <2>5. f[m] \in [count : Nat, body : Seq(L)] /\ f[m].count # 0
    BY <2>2, <2>4
  <2>6. QED
    BY <2>5, <1>4 DEF Fine
<1>9. CASE m <= n /\ ~ Occurs(old, body, m)
  <2>1. f[m] = [f[m + 1] EXCEPT !.body = <<body[m]>> \o @]
    BY <1>1, <1>4, <1>6, <1>9 DEF ScanStep
  <2>2. Fine(m + 1) /\ m + 1 \in Nat
    BY <1>1, <1>4, <1>5, <1>9
  <2>3. f[m + 1] \in [count : Nat, body : Seq(L)]
    BY <2>2 DEF Fine
  <2>4. <<body[m]>> \in Seq(L)
    <3>1. body[m] \in L
      BY <1>4, <1>9, ElementOfSeq
    <3>2. QED
      BY <3>1
  <2>5. <<body[m]>> \o f[m + 1].body \in Seq(L)
    BY <2>3, <2>4, ConcatProperties
  <2>6. f[m] \in [count : Nat, body : Seq(L)] /\ f[m].count = f[m + 1].count
    BY <2>1, <2>3, <2>5
  <2>7. f[m].count = 0 => \A j \in m .. n : ~ Occurs(old, body, j)
    <3>1. f[m].count = 0 => \A j \in (m + 1) .. n : ~ Occurs(old, body, j)
      BY <2>2, <2>6 DEF Fine
    <3>2. \A j \in m .. n : j = m \/ j \in (m + 1) .. n
      BY <1>1, <1>4
    <3>3. QED
      BY <3>1, <3>2, <1>9
  <2>8. QED
    BY <2>6, <2>7, <1>4 DEF Fine
<1>10. QED
  BY <1>1, <1>4, <1>7, <1>8, <1>9

\* Places without a match add nothing to the count.
LEMMA ScanSkips ==
  ASSUME NEW L, NEW body \in Seq(L), NEW old \in Seq(L), NEW new \in Seq(L), old # <<>>,
         NEW f, \A i \in 1 .. (Len(body) + 1) : f[i] = ScanStep(f, body, old, new, i),
         NEW m \in 1 .. (Len(body) + 1),
         \A j \in 1 .. (m - 1) : ~ Occurs(old, body, j)
  PROVE  f[1].count = f[m].count
<1> DEFINE n == Len(body)
           Bad == {k \in Nat : k <= m - 1 /\ f[m - k].count # f[m].count}
<1>1. n \in Nat /\ m \in Nat \ {0} /\ m <= n + 1
  BY LenProperties
<1> SUFFICES ASSUME f[1].count # f[m].count PROVE FALSE
  OBVIOUS
<1>2. m - 1 \in Bad
  <2>1. m - 1 \in Nat /\ m - (m - 1) = 1
    BY <1>1
  <2>2. QED
    BY <2>1
<1>3. PICK k \in Bad : \A j \in Bad : k <= j
  <2>1. Bad \subseteq Nat
    OBVIOUS
  <2> HIDE DEF Bad
  <2>2. QED
    BY <1>2, <2>1, LeastNumber
<1>4. k \in Nat /\ k <= m - 1 /\ f[m - k].count # f[m].count
  OBVIOUS
<1>5. k # 0
  BY <1>1, <1>4
<1> DEFINE i == m - k
<1>6. i \in 1 .. n /\ i \in 1 .. (m - 1) /\ m - (k - 1) = i + 1 /\ i + 1 \in 1 .. (n + 1)
  BY <1>1, <1>4, <1>5
<1>7. f[i + 1].count = f[m].count
  <2>1. k - 1 \in Nat /\ k - 1 <= m - 1 /\ ~ (k <= k - 1)
    BY <1>1, <1>4, <1>5
  <2>2. k - 1 \notin Bad
    BY <2>1, <1>3
  <2>3. QED
    BY <2>1, <2>2, <1>6
<1> HIDE DEF Bad, i
<1>8. f[i] = [f[i + 1] EXCEPT !.body = <<body[i]>> \o @]
  <2>1. ~ (i > n) /\ i \in 1 .. (n + 1) /\ ~ Occurs(old, body, i)
    BY <1>1, <1>6
  <2>2. f[i] = ScanStep(f, body, old, new, i)
    BY <2>1
  <2>3. QED
    BY <2>1, <2>2 DEF ScanStep
<1>9. f[i + 1] \in [count : Nat, body : Seq(L)]
  BY ZenonT(60), <1>6, ScanFacts
<1>10. f[i].count = f[i + 1].count
  BY <1>8, <1>9
<1>11. QED
  BY <1>4, <1>7, <1>10 DEF i

\* The text after all replacements is a text.
LEMMA ReplacedType ==
  ASSUME NEW L, NEW body \in Seq(L), NEW old \in Seq(L), NEW new \in Seq(L), old # <<>>
  PROVE  Replaced(body, old, new) \in [count : Nat, body : Seq(L)]
<1>1. Len(body) \in Nat /\ Len(old) \in Nat \ {0}
  BY LenProperties, EmptySeq
<1>2. PICK f : /\ \A i \in 1 .. (Len(body) + 1) : f[i] = ScanStep(f, body, old, new, i)
               /\ Replaced(body, old, new) = f[1]
  BY <1>1, ReplacedScans
<1>3. 1 \in 1 .. (Len(body) + 1)
  BY <1>1
<1>4. f[1] \in [count : Nat, body : Seq(L)]
  BY <1>2, <1>3, ScanFacts
<1>5. QED
  BY <1>2, <1>4

\* The first match, if the count is one: every other overlaps it.
OnlyAt(body, old, a) ==
    /\ a \in 1 .. Len(body) /\ Occurs(old, body, a)
    /\ \A j \in 1 .. (a - 1) : ~ Occurs(old, body, j)
    /\ \A j \in 1 .. Len(body) : Occurs(old, body, j) => j < a + Len(old)

LEMMA OneMatch ==
  ASSUME NEW L, NEW body \in Seq(L), NEW old \in Seq(L), NEW new \in Seq(L), old # <<>>,
         Replaced(body, old, new).count = 1
  PROVE  \E a : OnlyAt(body, old, a)
<1> DEFINE n == Len(body)
           places == {i \in 1 .. n : Occurs(old, body, i)}
<1>1. n \in Nat /\ Len(old) \in Nat \ {0}
  BY LenProperties, EmptySeq
<1>2. PICK f : /\ \A i \in 1 .. (n + 1) : f[i] = ScanStep(f, body, old, new, i)
               /\ Replaced(body, old, new) = f[1]
  BY <1>1, ReplacedScans
<1>3. f[n + 1].count = 0
  <2>1. n + 1 \in 1 .. (n + 1) /\ n + 1 > n
    BY <1>1
  <2>2. f[n + 1] = [count |-> 0, body |-> <<>>]
    BY <1>2, <2>1 DEF ScanStep
  <2>3. QED
    BY <2>2
<1>4. places # {}
  <2> SUFFICES ASSUME places = {} PROVE FALSE
    OBVIOUS
  <2>1. n + 1 \in 1 .. (n + 1) /\ \A j \in 1 .. (n + 1 - 1) : ~ Occurs(old, body, j)
    BY <1>1
  <2>2. f[1].count = f[n + 1].count
    BY <1>2, <2>1, ScanSkips
  <2>3. QED
    BY <2>2, <1>2, <1>3
<1>5. PICK a \in places : \A j \in places : a <= j
  <2>1. places \subseteq Nat
    BY <1>1
  <2> HIDE DEF places
  <2>2. QED
    BY <2>1, <1>4, LeastNumber
<1>6. a \in 1 .. n /\ Occurs(old, body, a) /\ \A j \in 1 .. (a - 1) : ~ Occurs(old, body, j)
  <2>1. a \in 1 .. n /\ Occurs(old, body, a)
    OBVIOUS
  <2>2. ASSUME NEW j \in 1 .. (a - 1) PROVE ~ Occurs(old, body, j)
    <3>1. j \in 1 .. n /\ ~ (a <= j)
      BY <1>1, <2>1
    <3>2. QED
      BY <3>1, <1>5
  <2>3. QED
    BY <2>1, <2>2
<1> HIDE DEF places
<1> DEFINE b == a + Len(old)
<1>7. a \in 1 .. (n + 1) /\ b \in 1 .. (n + 1)
  BY <1>1, <1>6 DEF Occurs
<1>8. f[1].count = f[a].count
  BY <1>2, <1>6, <1>7, ScanSkips
<1>9. f[a] = [count |-> f[b].count + 1, body |-> new \o f[b].body]
  <2>1. ~ (a > n) /\ f[a] = ScanStep(f, body, old, new, a)
    BY <1>1, <1>2, <1>6, <1>7
  <2>2. QED
    BY <2>1, <1>6 DEF ScanStep
<1>10. f[b].count \in Nat
  <2> HIDE DEF b
  <2>1. \A i \in 1 .. (n + 1) : f[i] \in [count : Nat, body : Seq(L)]
    BY <1>2, ScanFacts
  <2>2. QED
    BY <2>1, <1>7
<1>11. f[b].count = 0
  BY <1>2, <1>8, <1>9, <1>10
<1>12. \A j \in b .. n : ~ Occurs(old, body, j)
  BY <1>2, <1>7, <1>11, ScanFacts
<1>13. \A j \in 1 .. n : Occurs(old, body, j) => j < b
  BY <1>1, <1>7, <1>12
<1>14. QED
  BY <1>6, <1>13 DEF OnlyAt

-----------------------------------------------------------------------------
Edits(L) == [old : Seq(L), new : Seq(L), all : BOOLEAN]

\* A match lies inside the text.
LEMMA OccursInside ==
  ASSUME NEW L, NEW body \in Seq(L), NEW old \in Seq(L), old # <<>>,
         NEW a \in 1 .. Len(body), Occurs(old, body, a)
  PROVE  /\ SubSeq(body, 1, a - 1) \in Seq(L)
         /\ SubSeq(body, a + Len(old), Len(body)) \in Seq(L)
<1>1. Len(body) \in Nat /\ Len(old) \in Nat \ {0}
  BY LenProperties, EmptySeq
<1>2. \A i \in 1 .. Len(body) : body[i] \in L
  BY ElementOfSeq
<1>3. /\ \A i \in 1 .. (a - 1) : body[i] \in L
      /\ \A i \in (a + Len(old)) .. Len(body) : body[i] \in L
  BY <1>1, <1>2
<1>4. QED
  BY <1>1, <1>3, SubSeqProperties

\* An edit that is not refused makes a text.
LEMMA ApplyType ==
  ASSUME NEW L, NEW body \in Seq(L), NEW e \in Edits(L), ~ EditRefused(body, e)
  PROVE  ApplyExactEditString(body, e) \in Seq(L)
<1>1. e.old \in Seq(L) /\ e.new \in Seq(L) /\ e.all \in BOOLEAN
  BY DEF Edits
<1>2. CASE e.old = <<>>
  BY <1>1, <1>2 DEF ApplyExactEditString
<1>3. CASE e.old # <<>> /\ e.all
  <2>1. Replaced(body, e.old, e.new) \in [count : Nat, body : Seq(L)]
    BY <1>1, <1>3, ReplacedType
  <2>2. QED
    BY <2>1, <1>3 DEF ApplyExactEditString
<1>4. CASE e.old # <<>> /\ ~ e.all
  <2>1. Replaced(body, e.old, e.new).count = 1
    BY <1>4 DEF EditRefused
  <2>2. PICK a : OnlyAt(body, e.old, a)
    BY <2>1, <1>1, <1>4, OneMatch
  <2> DEFINE at == CHOOSE i \in 1..Len(body) :
                     Occurs(e.old, body, i) /\ \A j \in 1..(i - 1) : ~Occurs(e.old, body, j)
  <2>3. at \in 1 .. Len(body) /\ Occurs(e.old, body, at)
    BY <2>2 DEF OnlyAt
  <2>4. ApplyExactEditString(body, e) =
          SubSeq(body, 1, at - 1) \o e.new \o SubSeq(body, at + Len(e.old), Len(body))
    BY <1>4 DEF ApplyExactEditString, ReplacedFirst
  <2> HIDE DEF at
  <2>5. /\ SubSeq(body, 1, at - 1) \in Seq(L)
        /\ SubSeq(body, at + Len(e.old), Len(body)) \in Seq(L)
    BY <2>3, <1>1, <1>4, OccursInside
  <2>6. SubSeq(body, 1, at - 1) \o e.new \in Seq(L)
    BY <2>5, <1>1, ConcatProperties
  <2>7. QED
    BY <2>4, <2>5, <2>6, ConcatProperties
<1>5. QED
  BY <1>1, <1>2, <1>3, <1>4

\* The edits up to the n-th, given what those before it have made.
EditStep(f, body, edits, n) ==
    IF n = 0 THEN [ok |-> TRUE, body |-> body]
    ELSE IF ~f[n - 1].ok \/ EditRefused(f[n - 1].body, edits[n])
    THEN [ok |-> FALSE, body |-> body]
    ELSE [ok |-> TRUE, body |-> ApplyExactEditString(f[n - 1].body, edits[n])]

IsEditRun(f, body, edits, m) == f = [n \in 0 .. m |-> EditStep(f, body, edits, n)]

LEMMA EditRunExists ==
  ASSUME NEW m \in Nat, NEW body, NEW edits
  PROVE  \E f : IsEditRun(f, body, edits, m)
<1> DEFINE Bad == {k \in Nat : ~ \E f : IsEditRun(f, body, edits, k)}
<1> SUFFICES ASSUME m \in Bad PROVE FALSE
  OBVIOUS
<1>1. PICK k \in Bad : \A j \in Bad : k <= j
  <2>1. Bad \subseteq Nat
    OBVIOUS
  <2> HIDE DEF Bad
  <2>2. QED
    BY <2>1, LeastNumber
<1>2. k \in Nat /\ ~ \E f : IsEditRun(f, body, edits, k)
  OBVIOUS
<1>3. CASE k = 0
  <2> DEFINE f == [n \in 0 .. 0 |-> [ok |-> TRUE, body |-> body]]
  <2>1. \A n \in 0 .. 0 : EditStep(f, body, edits, n) = [ok |-> TRUE, body |-> body]
    BY DEF EditStep
  <2>2. f = [n \in 0 .. 0 |-> EditStep(f, body, edits, n)]
    BY <2>1
  <2>3. QED
    BY <2>2, <1>2, <1>3 DEF IsEditRun
<1>4. CASE k # 0
  <2>1. k - 1 \in Nat /\ ~ (k <= k - 1)
    BY <1>2, <1>4
  <2>2. k - 1 \notin Bad
    BY <2>1, <1>1
  <2>3. PICK g : IsEditRun(g, body, edits, k - 1)
    BY <2>1, <2>2
  <2> HIDE DEF Bad
  <2>4. g = [n \in 0 .. (k - 1) |-> EditStep(g, body, edits, n)]
    BY <2>3 DEF IsEditRun
  <2> DEFINE f == [n \in 0 .. k |-> IF n = k THEN EditStep(g, body, edits, k) ELSE g[n]]
  <2>5. ASSUME NEW n \in 0 .. k PROVE f[n] = EditStep(f, body, edits, n)
    <3>1. n # 0 => f[n - 1] = g[n - 1]
      BY <1>2
    <3>2. f[n] = IF n = k THEN EditStep(g, body, edits, k) ELSE g[n]
      OBVIOUS
    <3> HIDE DEF f
    <3>3. EditStep(f, body, edits, n) = EditStep(g, body, edits, n)
      BY <3>1 DEF EditStep
    <3>4. n # k => n \in 0 .. (k - 1)
      BY <1>2
    <3>5. n # k => g[n] = EditStep(g, body, edits, n)
      BY <3>4, <2>4
    <3>6. QED
      BY <3>2, <3>3, <3>5
  <2>6. f = [n \in 0 .. k |-> EditStep(f, body, edits, n)]
    BY <2>5
  <2>7. QED
    BY <2>6, <1>2 DEF IsEditRun
<1>5. QED
  BY <1>3, <1>4

LEMMA MultiEditRuns ==
  ASSUME NEW L, NEW body, NEW edits \in Seq(L)
  PROVE  \E f : /\ \A n \in 0 .. Len(edits) : f[n] = EditStep(f, body, edits, n)
                /\ MultiEdit(body, edits) = f[Len(edits)]
<1> DEFINE f == CHOOSE g : IsEditRun(g, body, edits, Len(edits))
<1>1. Len(edits) \in Nat
  BY LenProperties
<1>2. IsEditRun(f, body, edits, Len(edits))
  BY <1>1, EditRunExists
<1>3. MultiEdit(body, edits) = f[Len(edits)]
  BY DEF MultiEdit, IsEditRun, EditStep
<1> HIDE DEF f
<1>4. \A n \in 0 .. Len(edits) : f[n] = EditStep(f, body, edits, n)
  BY <1>2 DEF IsEditRun
<1>5. QED
  BY <1>3, <1>4

\* Edits of a text make a text.
LEMMA MultiEditType ==
  ASSUME NEW L, NEW body \in Seq(L), NEW edits \in Seq(Edits(L))
  PROVE  MultiEdit(body, edits) \in [ok : BOOLEAN, body : Seq(L)]
<1>1. PICK f : /\ \A n \in 0 .. Len(edits) : f[n] = EditStep(f, body, edits, n)
               /\ MultiEdit(body, edits) = f[Len(edits)]
  BY MultiEditRuns
<1>2. Len(edits) \in Nat
  BY LenProperties
<1> DEFINE Results == [ok : BOOLEAN, body : Seq(L)]
           Bad == {k \in Nat : k <= Len(edits) /\ f[k] \notin Results}
<1> SUFFICES ASSUME f[Len(edits)] \notin Results PROVE FALSE
  BY <1>1
<1>3. PICK k \in Bad : \A j \in Bad : k <= j
  <2>1. Bad \subseteq Nat /\ Len(edits) \in Bad
    BY <1>2
  <2> HIDE DEF Bad
  <2>2. QED
    BY <2>1, LeastNumber
<1>4. k \in Nat /\ k <= Len(edits) /\ f[k] \notin Results
  OBVIOUS
<1>5. f[k] = EditStep(f, body, edits, k)
  BY <1>1, <1>2, <1>4
<1>6. k # 0
  BY <1>4, <1>5 DEF EditStep
<1>7. f[k - 1] \in Results
  <2>1. k - 1 \in Nat /\ ~ (k <= k - 1) /\ k - 1 <= Len(edits)
    BY <1>2, <1>4, <1>6
  <2>2. k - 1 \notin Bad
    BY <2>1, <1>3
  <2>3. QED
    BY <2>1, <2>2
<1> HIDE DEF Bad
<1>8. edits[k] \in Edits(L)
  BY <1>2, <1>4, <1>6, ElementOfSeq
<1>9. f[k - 1].body \in Seq(L)
  BY <1>7
<1>10. ~ EditRefused(f[k - 1].body, edits[k]) =>
          ApplyExactEditString(f[k - 1].body, edits[k]) \in Seq(L)
  BY <1>8, <1>9, ApplyType
<1>11. f[k] \in Results
  BY <1>5, <1>6, <1>10 DEF EditStep
<1>12. QED
  BY <1>4, <1>11

\* An edit that is not refused does what it reports.
LEMMA EditsAsReported ==
  ASSUME NEW L, NEW body \in Seq(L), NEW edits \in Seq(Edits(L)), MultiEdit(body, edits).ok
  PROVE  AsReported(body, edits, MultiEdit(body, edits).body) = MultiEdit(body, edits).body
<1> DEFINE e == edits[1]
           plain == Len(edits) = 1 /\ ~ e.all /\ e.old # <<>>
<1>1. CASE edits = <<>> \/ ~ plain
  BY <1>1 DEF AsReported
<1>2. CASE edits # <<>> /\ plain
  <2>1. PICK f : /\ \A n \in 0 .. Len(edits) : f[n] = EditStep(f, body, edits, n)
                 /\ MultiEdit(body, edits) = f[Len(edits)]
    BY MultiEditRuns
  <2>2. f[0] = [ok |-> TRUE, body |-> body]
    <3>1. f[0] = EditStep(f, body, edits, 0)
      BY <2>1, <1>2
    <3>2. QED
      BY <3>1 DEF EditStep
  <2>3. /\ MultiEdit(body, edits) = f[1] /\ f[1] = EditStep(f, body, edits, 1)
    BY <2>1, <1>2
  <2>4. ~ EditRefused(body, e) /\ MultiEdit(body, edits).body = ApplyExactEditString(body, e)
    BY <2>2, <2>3 DEF EditStep
  <2>5. e \in Edits(L)
    BY <1>2, ElementOfSeq
  <2>6. e.old \in Seq(L) /\ e.new \in Seq(L)
    BY <2>5 DEF Edits
  <2>7. Replaced(body, e.old, e.new).count = 1
    BY <2>4, <1>2 DEF EditRefused
  <2>8. PICK a : OnlyAt(body, e.old, a)
    BY <2>6, <2>7, <1>2, OneMatch
  <2>9. Len(body) \in Nat /\ Len(e.old) \in Nat
    BY <2>6, LenProperties
  <2> DEFINE at == CHOOSE i \in 1..Len(body) :
                     Occurs(e.old, body, i) /\ \A j \in 1..(i - 1) : ~Occurs(e.old, body, j)
             places == {i \in 1..Len(body) : Occurs(e.old, body, i)}
             first == IF places = {} THEN 0 ELSE CHOOSE i \in places : \A j \in places : i <= j
  <2>10. at = a
    <3>1. \A i \in 1 .. Len(body) :
             Occurs(e.old, body, i) /\ (\A j \in 1 .. (i - 1) : ~ Occurs(e.old, body, j)) => i = a
      BY <2>8, <2>9 DEF OnlyAt
    <3>2. QED
      BY <3>1, <2>8 DEF OnlyAt
  <2>11. a \in places /\ \A j \in places : a <= j
    BY <2>8, <2>9 DEF OnlyAt
  <2>12. first = a
    <3>1. \A i \in places : (\A j \in places : i <= j) => i = a
      BY <2>11, <2>9
    <3> HIDE DEF places
    <3>2. QED
      BY <3>1, <2>11
  <2>13. \A j \in places : j < first + Len(e.old)
    BY <2>8, <2>12 DEF OnlyAt
  <2>14. AsReported(body, edits, MultiEdit(body, edits).body) =
           IF places # {} /\ \A j \in places : j < first + Len(e.old)
           THEN SubSeq(body, 1, first - 1) \o e.new \o SubSeq(body, first + Len(e.old), Len(body))
           ELSE body
    BY <1>2 DEF AsReported
  <2>15. MultiEdit(body, edits).body =
           SubSeq(body, 1, at - 1) \o e.new \o SubSeq(body, at + Len(e.old), Len(body))
    BY <2>4, <1>2 DEF ApplyExactEditString, ReplacedFirst
  <2> HIDE DEF places, first, at
  <2>16. QED
    BY <2>10, <2>11, <2>12, <2>13, <2>14, <2>15
<1>3. QED
  BY <1>1, <1>2

-----------------------------------------------------------------------------
(* The invariant.                                                          *)

\* What the tool calls know of the files they work on.
EditsTyped ==
  /\ edit \in [Callers -> [at : {"idle", "write", "fill", "fill nowhere"},
                           path : TreePaths \cup {<<>>},
                           edits : EditLists \cup {<<>>}, body : Seq(Letters)]]
  /\ \A c \in Callers : edit[c].at # "idle" => edit[c].path \in TreePaths
  /\ \A c \in Callers : edit[c].at = "fill" => edit[c].path \in DOMAIN fileTree
  /\ \A c \in Callers : edit[c].at = "fill nowhere" => edit[c].path \in overlap

\* The workspace is a tree of texts.
CopiedPaths == {<<p[1]>> \o s : p \in TreePaths, s \in DOMAIN HostTree}

TreeTyped ==
  /\ DOMAIN fileTree \subseteq TreePaths \cup CopiedPaths /\ IsFiniteSet(DOMAIN fileTree)
  /\ \A p \in DOMAIN fileTree : fileTree[p] \in Seq(Letters)
  /\ \A p, q \in DOMAIN fileTree : ~Below(p, q)
  /\ DOMAIN serial \subseteq TreePaths /\ overlap \subseteq TreePaths
  /\ fileCalls \in 0..MaxCalls /\ copies \in 0..MaxCopies

\* A copy writes to paths that it has declared overlapping.
CopyTyped ==
  /\ copying.state \in {"none", "copying", "done"}
  /\ copying = [dst |-> copying.dst, left |-> copying.left, state |-> copying.state]
  /\ copying.state = "copying" =>
       /\ copying.left \subseteq DOMAIN HostTree
       /\ \E q \in TreePaths : copying.dst = <<q[1]>>
       /\ \A p \in TreePaths : p = copying.dst \/ Below(copying.dst, p) => p \in overlap

\* What p holds if the calls had run one after the other.
BodyIn(held, p) == IF p \in DOMAIN held THEN held[p] ELSE <<>>
SerialBody(p) == BodyIn(serial, p)

\* One call works on a path without overlap, what it is about to write is what it
\* reports, and between calls the file is as after one call at a time.
AloneOrOverlap ==
  /\ \A c, d \in Callers :
       /\ edit[c].at # "idle" /\ edit[d].at # "idle"
       /\ edit[c].path = edit[d].path /\ edit[c].path \notin overlap
       => c = d
  /\ \A c \in Callers :
       edit[c].at # "idle" /\ edit[c].path \notin overlap =>
         AsReported(SerialBody(edit[c].path), edit[c].edits, edit[c].body) = edit[c].body
  /\ \A p \in TreePaths \ overlap :
       (\A c \in Callers : edit[c].at = "fill" => edit[c].path # p) =>
         /\ p \in DOMAIN serial <=> p \in DOMAIN fileTree
         /\ p \in DOMAIN serial => serial[p] = fileTree[p]

\* The pages so far are the first lines of the file.
PagesFollow ==
  /\ page.state \in {"none", "more", "done"}
  /\ page.state = "none" => page.offset = 0 /\ page.got = <<>>
  /\ page.state = "more" => page.offset \in Nat
  /\ page = [path |-> page.path, offset |-> page.offset, got |-> page.got,
             state |-> page.state, changed |-> page.changed]
  /\ page.state # "none" /\ ~page.changed =>
       /\ page.path \in DOMAIN fileTree
       /\ page.state = "more" =>
            /\ page.offset < Len(ViewLines(fileTree[page.path]))
            /\ page.got = SubSeq(ViewLines(fileTree[page.path]), 1, page.offset)
       /\ page.state = "done" => page.got = ViewLines(fileTree[page.path])

FilesInv == EditsTyped /\ TreeTyped /\ CopyTyped /\ AloneOrOverlap /\ PagesFollow /\ SearchIsComplete

-----------------------------------------------------------------------------
\* A file put into a tree.
LEMMA PutFacts ==
  \A f, p, v :
    /\ DOMAIN WithFile(f, p, v) = {p} \cup DOMAIN f /\ WithFile(f, p, v)[p] = v
    /\ \A x \in DOMAIN f : x # p => WithFile(f, p, v)[x] = f[x]
BY DEF WithFile

\* The paths there are: sequences that are not empty.
LEMMA PathFacts ==
  /\ TreePaths \cup CopiedPaths \subseteq Seq(STRING)
  /\ \A p \in TreePaths : p # <<>> /\ p[1] \in STRING
  /\ \A p \in TreePaths \cup CopiedPaths : Len(p) \in Nat /\ ~ Below(p, p) /\ PathOrder[p] \in Nat
<1>0. \A p \in CopiedPaths : \E q \in TreePaths, s \in DOMAIN HostTree : p = <<q[1]>> \o s
  <2> DEFINE path(q, s) == <<q[1]>> \o s
  <2>1. CopiedPaths = {path(q, s) : q \in TreePaths, s \in DOMAIN HostTree}
    BY DEF CopiedPaths
  <2> HIDE DEF path
  <2>2. \A p \in CopiedPaths : \E q \in TreePaths, s \in DOMAIN HostTree : p = path(q, s)
    BY <2>1
  <2>3. QED
    BY <2>2 DEF path
<1>1. ASSUME NEW p \in TreePaths PROVE p \in Seq(STRING) /\ p # <<>> /\ p[1] \in STRING
  <2>1. p \in Seq(STRING) /\ p # <<>>
    BY TreesAssumption
  <2>2. QED
    BY <2>1, EmptySeq, LenProperties
<1>2. \A s \in DOMAIN HostTree : s \in Seq(STRING)
  BY TreesAssumption
<1>3. ASSUME NEW p \in CopiedPaths PROVE p \in Seq(STRING)
  <2>1. PICK q \in TreePaths, s \in DOMAIN HostTree : p = <<q[1]>> \o s
    BY <1>0
  <2>2. <<q[1]>> \in Seq(STRING)
    BY <1>1
  <2>3. QED
    BY <2>1, <2>2, <1>2, ConcatProperties
<1>4. \A p \in TreePaths \cup CopiedPaths : PathOrder[p] \in Nat
  <2>1. \A p \in TreePaths : PathOrder[p] \in Nat
    BY TreesAssumption
  <2>2. \A p \in TreePaths, s \in DOMAIN HostTree : PathOrder[<<p[1]>> \o s] \in Nat
    BY TreesAssumption
  <2>3. \A p \in CopiedPaths : \E q \in TreePaths, s \in DOMAIN HostTree : p = <<q[1]>> \o s
    BY <1>0
  <2>4. QED
    BY <2>1, <2>2, <2>3, Zenon
<1>5. \A p \in TreePaths \cup CopiedPaths : Len(p) \in Nat
  BY <1>1, <1>3, LenProperties
<1>6. \A p \in TreePaths \cup CopiedPaths : ~ Below(p, p)
  BY <1>5 DEF Below
<1>7. QED
  BY <1>1, <1>3, <1>4, <1>5, <1>6

\* A copied file lies at or below the destination.
LEMMA CopyStaysInside ==
  ASSUME NEW q \in TreePaths, NEW s \in DOMAIN HostTree
  PROVE  <<q[1]>> \o s = <<q[1]>> \/ Below(<<q[1]>>, <<q[1]>> \o s)
<1> DEFINE d == <<q[1]>>
<1>1. d \in Seq(STRING) /\ s \in Seq(STRING) /\ Len(d) = 1
  BY PathFacts, TreesAssumption
<1> HIDE DEF d
<1>2. Len(s) \in Nat /\ Len(d \o s) = 1 + Len(s) /\ d \o s \in Seq(STRING)
  <2>1. Len(s) \in Nat
    BY <1>1, LenProperties, ZenonT(40)
  <2>2. d \o s \in Seq(STRING) /\ Len(d \o s) = Len(d) + Len(s)
    BY <1>1, ConcatProperties, ZenonT(40)
  <2>3. QED
    BY <1>1, <2>1, <2>2
<1>3. CASE Len(s) = 0
  <2>1. s = <<>>
    BY <1>1, <1>3, EmptySeq
  <2>2. QED
    BY <2>1, <1>1, ConcatEmptySeq DEF d
<1>4. CASE Len(s) # 0
  <2>1. Len(d) < Len(d \o s)
    BY <1>1, <1>2, <1>4
  <2>2. SubSeq(d \o s, 1, Len(d)) = d
    BY <1>1, <1>2
  <2>3. QED
    BY <2>1, <2>2 DEF Below, d
<1>5. QED
  BY <1>3, <1>4

\* What the reader sees is a sequence of lines.
LEMMA ViewLinesSeq ==
  ASSUME NEW L, NEW body \in Seq(L)
  PROVE  \E S : ViewLines(body) \in Seq(S)
<1> DEFINE n == Len(body)
           cuts == {0, n + 1} \cup {i \in 1 .. n : body[i] = NewLine}
           lines == SplitLines(body)
           S == {lines[i] : i \in DOMAIN lines}
<1>1. n \in Nat
  BY LenProperties
<1>2. IsFiniteSet(cuts) /\ cuts # {}
  <2>1. IsFiniteSet(0 .. (n + 1))
    BY <1>1, FS_Interval
  <2>2. cuts \subseteq 0 .. (n + 1)
    BY <1>1
  <2> HIDE DEF cuts
  <2>3. IsFiniteSet(cuts)
    BY <2>1, <2>2, FS_Subset
  <2>4. QED
    BY <2>3 DEF cuts
<1>3. Cardinality(cuts) \in Nat /\ Cardinality(cuts) # 0
  <2> HIDE DEF cuts
  <2>1. QED
    BY <1>2, FS_CardinalityType, FS_EmptySet
<1> DEFINE m == Cardinality(cuts) - 1
<1>4. DOMAIN lines = 1 .. m /\ m \in Nat /\ lines = [i \in 1 .. m |-> lines[i]]
  <2> DEFINE nth[k \in 0 .. m] == CHOOSE i \in cuts : Cardinality({j \in cuts : j < i}) = k
  <2>1. lines = [i \in 1 .. m |-> SubSeq(body, nth[i - 1] + 1, nth[i] - 1)]
    BY DEF SplitLines
  <2> HIDE DEF cuts, lines, nth
  <2>2. m \in Nat
    BY <1>3
  <2> HIDE DEF m
  <2>3. QED
    BY <2>1, <2>2
<1>5. ViewLines(body) = IF lines[Len(lines)] = <<>> THEN SubSeq(lines, 1, Len(lines) - 1) ELSE lines
  BY DEF ViewLines
<1> HIDE DEF cuts, lines, m
<1>6. lines \in Seq(S) /\ Len(lines) = m
  <2>1. \A i \in 1 .. m : lines[i] \in S
    BY <1>4
  <2> HIDE DEF S
  <2>2. QED
    BY <1>4, <2>1, SeqDef
<1> HIDE DEF S
<1>7. SubSeq(lines, 1, Len(lines) - 1) \in Seq(S)
  <2>1. \A i \in 1 .. (Len(lines) - 1) : lines[i] \in S
    BY <1>4, <1>6, ElementOfSeq
  <2>2. 1 \in Int /\ Len(lines) - 1 \in Int
    BY <1>4, <1>6
  <2>3. QED
    BY <1>6, <2>1, <2>2, SubSeqProperties
<1>8. QED
  BY <1>5, <1>6, <1>7

-----------------------------------------------------------------------------
\* The reader's next page continues the pages it has.
LEMMA ViewStep ==
  ASSUME TreeTyped, PagesFollow, ViewFile
  PROVE  PagesFollow'
<1>1. PICK p \in DOMAIN fileTree, limit \in PageLimits :
        /\ page.state = "more" => p = page.path
        /\ LET lines == ViewLines(fileTree[p])
               start == IF page.offset > Len(lines) THEN Len(lines) ELSE page.offset
               end == WindowEnd(start, limit, Len(lines))
           IN page' = [path |-> p, offset |-> start + limit,
                       got |-> page.got \o SubSeq(lines, start + 1, end),
                       state |-> IF start + limit < Len(lines) THEN "more" ELSE "done",
                       changed |-> page.changed]
  BY DEF ViewFile
<1>2. fileTree' = fileTree /\ page.state \in {"none", "more"} /\ limit \in Nat \ {0}
  BY FileToolsAssumption DEF ViewFile
<1> DEFINE lines == ViewLines(fileTree[p])
           start == IF page.offset > Len(lines) THEN Len(lines) ELSE page.offset
           end == WindowEnd(start, limit, Len(lines))
<1>3. page' = [path |-> p, offset |-> start + limit,
               got |-> page.got \o SubSeq(lines, start + 1, end),
               state |-> IF start + limit < Len(lines) THEN "more" ELSE "done",
               changed |-> page.changed]
  BY <1>1
<1>4. PICK S : lines \in Seq(S)
  <2>1. fileTree[p] \in Seq(Letters)
    BY DEF TreeTyped
  <2>2. QED
    BY <2>1, ViewLinesSeq
<1>5. Len(lines) \in Nat /\ page.offset \in Nat
  BY <1>2, <1>4, LenProperties DEF PagesFollow
<1>6. /\ start \in 0 .. Len(lines) /\ end \in start .. Len(lines)
      /\ end = IF start + limit < Len(lines) THEN start + limit ELSE Len(lines)
  BY <1>2, <1>5 DEF WindowEnd
<1>7. ASSUME ~ page.changed PROVE page.got = SubSeq(lines, 1, start)
  <2>1. CASE page.state = "none"
    <3>1. start = 0 /\ page.got = <<>>
      BY <2>1, <1>5 DEF PagesFollow
    <3>2. SubSeq(lines, 1, 0) = <<>>
      BY SubSeqEmpty
    <3> HIDE DEF lines, start
    <3>3. QED
      BY <3>1, <3>2
  <2>2. CASE page.state = "more"
    <3>1. /\ p = page.path /\ page.offset < Len(lines)
          /\ page.got = SubSeq(lines, 1, page.offset)
      BY <1>1, <1>7, <2>2 DEF PagesFollow
    <3>2. start = page.offset
      BY <3>1, <1>5
    <3> HIDE DEF lines, start
    <3>3. QED
      BY <3>1, <3>2
  <2>3. QED
    BY <1>2, <2>1, <2>2
<1> HIDE DEF lines, start, end
<1>8. SubSeq(lines, 1, start) \o SubSeq(lines, start + 1, end) = SubSeq(lines, 1, end)
  <2>1. 1 \in 1 .. Len(lines) + 1 /\ start \in 1 - 1 .. Len(lines) /\ end \in start .. Len(lines)
    BY <1>5, <1>6
  <2>2. QED
    BY <2>1, <1>4, ConcatAdjacentSubSeq
<1>9. SubSeq(lines, 1, Len(lines)) = lines
  BY <1>4, SubSeqFull
<1>10. ViewLines(fileTree'[page'.path]) = lines
  BY <1>2, <1>3 DEF lines
<1>11. ~ page.changed => page'.got = SubSeq(lines, 1, end)
  BY <1>3, <1>7, <1>8
<1>12. CASE start + limit < Len(lines)
  <2>1. /\ page'.state = "more" /\ page'.offset = start + limit /\ end = start + limit
        /\ start + limit \in Nat
    BY <1>2, <1>3, <1>5, <1>6, <1>12
  <2>2. page'.changed = page.changed /\ page'.path \in DOMAIN fileTree'
    BY <1>2, <1>3
  <2>3. page' = [path |-> page'.path, offset |-> page'.offset, got |-> page'.got,
                 state |-> page'.state, changed |-> page'.changed]
    BY <1>3
  <2>4. QED
    BY <2>1, <2>2, <2>3, <1>10, <1>11, <1>12 DEF PagesFollow
<1>13. CASE ~ (start + limit < Len(lines))
  <2>1. page'.state = "done" /\ end = Len(lines)
    BY <1>3, <1>6, <1>13
  <2>2. page'.changed = page.changed /\ page'.path \in DOMAIN fileTree'
    BY <1>2, <1>3
  <2>3. page' = [path |-> page'.path, offset |-> page'.offset, got |-> page'.got,
                 state |-> page'.state, changed |-> page'.changed]
    BY <1>3
  <2>4. QED
    BY <2>1, <2>2, <2>3, <1>9, <1>10, <1>11 DEF PagesFollow
<1>14. QED
  BY <1>12, <1>13

\* A reader of a file that may have changed is promised nothing.
LEMMA PagesOutdated ==
  ASSUME PagesFollow, page' = [page EXCEPT !.changed = TRUE]
  PROVE  PagesFollow'
<1>1. /\ page'.changed = TRUE /\ page'.state = page.state /\ page'.offset = page.offset
      /\ page'.got = page.got
      /\ page' = [path |-> page'.path, offset |-> page'.offset, got |-> page'.got,
                  state |-> page'.state, changed |-> page'.changed]
  BY DEF PagesFollow
<1>2. QED
  BY <1>1 DEF PagesFollow

\* The file that is read stays as it is.
LEMMA PagesStay ==
  ASSUME PagesFollow, page' = page,
         page.path \in DOMAIN fileTree =>
           page.path \in DOMAIN fileTree' /\ fileTree'[page.path] = fileTree[page.path]
  PROVE  PagesFollow'
BY DEF PagesFollow

\* Who writes a file outdates the pages of that file only.
LEMMA PagesOutdate ==
  ASSUME PagesFollow, NEW p, NEW body, fileTree' = fileTree \/ fileTree' = WithFile(fileTree, p, body),
         Outdate(p)
  PROVE  PagesFollow'
<1>1. CASE page.path = p
  BY <1>1, PagesOutdated DEF Outdate
<1>2. CASE page.path # p
  <2>1. page' = page
    BY <1>2 DEF Outdate
  <2>2. page.path \in DOMAIN fileTree =>
          page.path \in DOMAIN fileTree' /\ fileTree'[page.path] = fileTree[page.path]
    BY <1>2 DEF WithFile
  <2>3. QED
    BY <2>1, <2>2, PagesStay
<1>3. QED
  BY <1>1, <1>2

-----------------------------------------------------------------------------
\* There are finitely many matching lines.
LEMMA HitsFinite ==
  ASSUME TreeTyped
  PROVE  IsFiniteSet(Hits) /\ Hits \subseteq (TreePaths \cup CopiedPaths) \X Nat
<1> DEFINE All == (DOMAIN fileTree) \X (1..(MaxLength + 1))
<1>1. IsFiniteSet(1..(MaxLength + 1))
  BY FileToolsAssumption, FS_Interval
<1>2. IsFiniteSet(DOMAIN fileTree)
  BY DEF TreeTyped
<1>3. IsFiniteSet(All)
  BY <1>1, <1>2, FS_Product
<1>4. Hits \subseteq All
  BY DEF Hits
<1>5. IsFiniteSet(Hits)
  <2> HIDE DEF All
  <2>1. QED
    BY <1>3, <1>4, FS_Subset
<1>6. All \subseteq (TreePaths \cup CopiedPaths) \X Nat
  BY FileToolsAssumption DEF TreeTyped
<1>7. QED
  BY <1>4, <1>5, <1>6

\* A search within its limit finds everything.
LEMMA SearchStep ==
  ASSUME TreeTyped, GrepWithGo \/ GrepWithRipgrep
  PROVE  SearchIsComplete'
<1>1. fileTree' = fileTree /\ Hits' = Hits
  BY DEF GrepWithGo, GrepWithRipgrep, Hits
<1>2. Cardinality(Hits) \in Nat
  BY HitsFinite, FS_CardinalityType
<1>3. CASE GrepWithGo
  <2>1. PICK limit \in PageLimits :
          grep' = [hits |-> {h \in Hits : Cardinality({g \in Hits : WalkBefore(g, h)}) < limit},
                   limit |-> limit, truncated |-> Cardinality(Hits) > limit, state |-> "done"]
    BY <1>3 DEF GrepWithGo
  <2>2. grep'.hits \subseteq Hits /\ grep'.truncated = (Cardinality(Hits) > limit)
    BY <2>1
  <2>3. ASSUME ~ (Cardinality(Hits) > limit), NEW h \in Hits
        PROVE  Cardinality({g \in Hits : WalkBefore(g, h)}) < limit
    <3> DEFINE before == {g \in Hits : WalkBefore(g, h)}
    <3>1. ~ WalkBefore(h, h)
      <4>1. h[1] \in TreePaths \cup CopiedPaths /\ h[2] \in Nat
        BY HitsFinite
      <4>2. PathOrder[h[1]] \in Nat
        BY <4>1, PathFacts
      <4>3. QED
        BY <4>1, <4>2 DEF WalkBefore
    <3>2. before \subseteq Hits /\ before # Hits
      BY <3>1
    <3> HIDE DEF before
    <3>3. /\ Cardinality(before) <= Cardinality(Hits)
          /\ Cardinality(before) # Cardinality(Hits)
      BY <3>2, HitsFinite, FS_Subset
    <3>4. Cardinality(before) \in Nat
      BY <3>2, HitsFinite, FS_Subset, FS_CardinalityType
    <3>5. limit \in Nat
      BY FileToolsAssumption
    <3>6. Cardinality(before) < limit
      BY <1>2, <2>3, <3>3, <3>4, <3>5
    <3>7. QED
      BY <3>6 DEF before
  <2>4. ~ (Cardinality(Hits) > limit) => grep'.hits = Hits
    BY <2>1, <2>3
  <2>5. QED
    BY <1>1, <2>2, <2>4 DEF SearchIsComplete
<1>4. CASE GrepWithRipgrep
  <2>1. PICK limit \in PageLimits, reported \in SUBSET Hits : \E kept \in SUBSET reported :
          /\ Cardinality(kept)
               = (IF Cardinality(reported) > limit THEN limit ELSE Cardinality(reported))
          /\ grep' = [hits |-> kept, limit |-> limit, truncated |-> Cardinality(reported) > limit,
                      state |-> IF reported = Hits THEN "done" ELSE "failed"]
    BY <1>4 DEF GrepWithRipgrep
  <2>2. PICK kept \in SUBSET reported :
          /\ Cardinality(kept)
               = (IF Cardinality(reported) > limit THEN limit ELSE Cardinality(reported))
          /\ grep' = [hits |-> kept, limit |-> limit, truncated |-> Cardinality(reported) > limit,
                      state |-> IF reported = Hits THEN "done" ELSE "failed"]
    BY <2>1
  <2>3. grep'.hits = kept /\ grep'.truncated = (Cardinality(reported) > limit)
        /\ (grep'.state = "done" => reported = Hits)
    BY <2>2
  <2>4. ~ (Cardinality(Hits) > limit) /\ reported = Hits => kept = Hits
    BY <2>2, HitsFinite, FS_Subset
  <2>5. QED
    BY <1>1, <2>3, <2>4 DEF SearchIsComplete
<1>5. QED
  BY <1>3, <1>4

-----------------------------------------------------------------------------
\* A path that nobody works on holds what the calls reported.
LEMMA NobodyThere ==
  ASSUME FilesInv, NEW p \in TreePaths, p \notin overlap, ~ Busy(p)
  PROVE  SerialBody(p) = ReadEditableFile(p)
<1>1. \A c \in Callers : edit[c].at = "fill" => edit[c].path # p
  BY DEF Busy
<1>2. /\ p \in DOMAIN serial <=> p \in DOMAIN fileTree
      /\ p \in DOMAIN serial => serial[p] = fileTree[p]
  BY <1>1 DEF FilesInv, AloneOrOverlap
<1>3. QED
  BY <1>2 DEF SerialBody, BodyIn, ReadEditableFile

\* A call that starts on a path where another works makes it overlap.
LEMMA BeginStep ==
  ASSUME FilesInv, NEW c \in Callers, edit[c].at = "idle", NEW p \in TreePaths,
         NEW edits \in EditLists \cup {<<>>}, NEW body \in Seq(Letters),
         BeginEdit(c, p, edits, body), UNCHANGED <<fileTree, serial>>,
         p \notin overlap /\ ~ Busy(p) => AsReported(SerialBody(p), edits, body) = body
  PROVE  /\ EditsTyped' /\ AloneOrOverlap'
         /\ overlap' \subseteq TreePaths /\ overlap \subseteq overlap'
<1> DEFINE new == [at |-> "write", path |-> p, edits |-> edits, body |-> body]
<1>1. /\ edit' = [edit EXCEPT ![c] = new] /\ fileTree' = fileTree /\ serial' = serial
      /\ overlap' = IF Busy(p) THEN overlap \cup {p} ELSE overlap
  BY DEF BeginEdit
<1>2. EditsTyped /\ AloneOrOverlap /\ overlap \subseteq TreePaths
  BY DEF FilesInv, TreeTyped
<1>3. overlap' \subseteq TreePaths /\ overlap \subseteq overlap'
  BY <1>1, <1>2
<1>4. /\ edit'[c] = new /\ \A d \in Callers : d # c => edit'[d] = edit[d]
      /\ new.at = "write" /\ new.path = p /\ new.edits = edits /\ new.body = body
  BY <1>1, <1>2 DEF EditsTyped
<1>5. EditsTyped'
  <2>1. edit' \in [Callers -> [at : {"idle", "write", "fill", "fill nowhere"},
                               path : TreePaths \cup {<<>>},
                               edits : EditLists \cup {<<>>}, body : Seq(Letters)]]
    BY <1>1, <1>2 DEF EditsTyped
  <2> HIDE DEF new
  <2>2. QED
    BY <2>1, <1>1, <1>2, <1>3, <1>4 DEF EditsTyped
<1> HIDE DEF new
<1>6. p \notin overlap' => ~ Busy(p) /\ p \notin overlap
  BY <1>1
<1>7. ASSUME NEW a \in Callers, NEW b \in Callers,
             edit'[a].at # "idle", edit'[b].at # "idle",
             edit'[a].path = edit'[b].path, edit'[a].path \notin overlap'
      PROVE  a = b
  <2>1. CASE a # c /\ b # c
    BY <2>1, <1>2, <1>3, <1>4, <1>7 DEF AloneOrOverlap
  <2>2. CASE a = c /\ b # c
    BY <2>2, <1>4, <1>6, <1>7 DEF Busy
  <2>3. CASE a # c /\ b = c
    BY <2>3, <1>4, <1>6, <1>7 DEF Busy
  <2>4. QED
    BY <2>1, <2>2, <2>3
<1>8. ASSUME NEW d \in Callers, edit'[d].at # "idle", edit'[d].path \notin overlap'
      PROVE  AsReported(SerialBody(edit'[d].path), edit'[d].edits, edit'[d].body) = edit'[d].body
  <2>1. CASE d = c
    BY <2>1, <1>4, <1>6, <1>8
  <2>2. CASE d # c
    BY <2>2, <1>2, <1>3, <1>4, <1>8 DEF AloneOrOverlap
  <2>3. QED
    BY <2>1, <2>2
<1>9. ASSUME NEW q \in TreePaths \ overlap',
             \A d \in Callers : edit'[d].at = "fill" => edit'[d].path # q
      PROVE  /\ q \in DOMAIN serial <=> q \in DOMAIN fileTree
             /\ q \in DOMAIN serial => serial[q] = fileTree[q]
  <2>1. \A d \in Callers : edit[d].at = "fill" => edit[d].path # q
    BY <1>4, <1>9
  <2>2. QED
    BY <2>1, <1>2, <1>3 DEF AloneOrOverlap
<1>10. \A q : SerialBody(q)' = SerialBody(q)
  BY <1>1 DEF SerialBody
<1>11. AloneOrOverlap'
  BY <1>1, <1>7, <1>8, <1>9, <1>10 DEF AloneOrOverlap
<1>12. QED
  BY <1>3, <1>5, <1>11

\* A copy in progress knows no more than before.
LEMMA CopyUnmoved ==
  ASSUME CopyTyped, copying' = copying, overlap \subseteq overlap'
  PROVE  CopyTyped'
BY DEF CopyTyped

LEMMA ReadForEditStep ==
  ASSUME FilesInv, NEW c \in Callers, ReadForEdit(c)
  PROVE  FilesInv'
<1>1. /\ EditsTyped /\ TreeTyped /\ CopyTyped /\ AloneOrOverlap /\ PagesFollow /\ SearchIsComplete
  BY DEF FilesInv
<1>2. /\ fileTree' = fileTree /\ serial' = serial /\ page' = page /\ grep' = grep
      /\ copying' = copying /\ copies' = copies
      /\ edit[c].at = "idle" /\ fileCalls < MaxCalls /\ fileCalls' = fileCalls + 1
  BY DEF ReadForEdit
<1>3. PICK p \in TreePaths, edits \in EditLists :
        LET result == MultiEdit(ReadEditableFile(p), edits)
        IN IF result.ok /\ Len(result.body) <= MaxLength /\ Writable(p)
           THEN BeginEdit(c, p, edits, result.body) ELSE UNCHANGED <<edit, overlap>>
  BY DEF ReadForEdit
<1> DEFINE result == MultiEdit(ReadEditableFile(p), edits)
<1>4. CASE result.ok /\ BeginEdit(c, p, edits, result.body)
  <2>1. ReadEditableFile(p) \in Seq(Letters) /\ edits \in Seq(Edits(Letters))
    BY <1>1, EmptySeq, TreesAssumption DEF ReadEditableFile, TreeTyped, Edits
  <2>2. result.body \in Seq(Letters)
    BY <2>1, MultiEditType
  <2>3. p \notin overlap /\ ~ Busy(p) => SerialBody(p) = ReadEditableFile(p)
    BY NobodyThere
  <2>4. AsReported(ReadEditableFile(p), edits, result.body) = result.body
    BY <1>4, <2>1, EditsAsReported
  <2> HIDE DEF result
  <2>5. /\ EditsTyped' /\ AloneOrOverlap'
        /\ overlap' \subseteq TreePaths /\ overlap \subseteq overlap'
    BY <1>2, <1>4, <2>2, <2>3, <2>4, BeginStep
  <2>6. QED
    <3>1. fileCalls' \in 0 .. MaxCalls
      BY <1>1, <1>2, FileToolsAssumption DEF TreeTyped
    <3>2. TreeTyped'
      BY <3>1, <1>1, <1>2, <2>5 DEF TreeTyped
    <3>3. CopyTyped'
      BY <1>1, <1>2, <2>5, CopyUnmoved
    <3>4. PagesFollow' /\ SearchIsComplete'
      BY <1>1, <1>2 DEF PagesFollow, SearchIsComplete, Hits
    <3>5. QED
      BY <2>5, <3>2, <3>3, <3>4 DEF FilesInv
<1>5. CASE UNCHANGED <<edit, overlap>>
  <2>1. fileCalls' \in 0 .. MaxCalls
    BY <1>1, <1>2, FileToolsAssumption DEF TreeTyped
  <2>2. edit' = edit /\ overlap' = overlap
    BY <1>5
  <2>3. TreeTyped' /\ EditsTyped' /\ AloneOrOverlap' /\ CopyTyped'
    BY <1>1, <1>2, <2>1, <2>2 DEF TreeTyped, EditsTyped, AloneOrOverlap, SerialBody, CopyTyped
  <2>4. PagesFollow' /\ SearchIsComplete'
    BY <1>1, <1>2 DEF PagesFollow, SearchIsComplete, Hits
  <2>5. QED
    BY <2>3, <2>4 DEF FilesInv
<1>6. QED
  BY <1>3, <1>4, <1>5

LEMMA WriteWholeStep ==
  ASSUME FilesInv, NEW c \in Callers, WriteWhole(c)
  PROVE  FilesInv'
<1>1. /\ EditsTyped /\ TreeTyped /\ CopyTyped /\ AloneOrOverlap /\ PagesFollow /\ SearchIsComplete
  BY DEF FilesInv
<1>2. /\ fileTree' = fileTree /\ serial' = serial /\ page' = page /\ grep' = grep
      /\ copying' = copying /\ copies' = copies
      /\ edit[c].at = "idle" /\ fileCalls < MaxCalls /\ fileCalls' = fileCalls + 1
  BY DEF WriteWhole
<1>3. PICK p \in TreePaths, l \in Letters : BeginEdit(c, p, <<>>, <<l, l>>)
  BY DEF WriteWhole
<1>4. AsReported(SerialBody(p), <<>>, <<l, l>>) = <<l, l>>
  BY DEF AsReported
<1>5. <<l, l>> \in Seq(Letters)
  OBVIOUS
<1>6. /\ EditsTyped' /\ AloneOrOverlap'
      /\ overlap' \subseteq TreePaths /\ overlap \subseteq overlap'
  BY <1>2, <1>3, <1>4, <1>5, BeginStep
<1>7. fileCalls' \in 0 .. MaxCalls
  BY <1>1, <1>2, FileToolsAssumption DEF TreeTyped
<1>8. TreeTyped'
  BY <1>1, <1>2, <1>6, <1>7 DEF TreeTyped
<1>9. CopyTyped'
  BY <1>1, <1>2, <1>6, CopyUnmoved
<1>10. PagesFollow' /\ SearchIsComplete'
  BY <1>1, <1>2 DEF PagesFollow, SearchIsComplete, Hits
<1>11. QED
  BY <1>6, <1>8, <1>9, <1>10 DEF FilesInv

-----------------------------------------------------------------------------
\* A text put where nothing is above or below it leaves a tree of texts.
LEMMA TreeKept ==
  ASSUME TreeTyped, NEW p \in TreePaths \cup CopiedPaths, NEW body \in Seq(Letters),
         fileTree' = WithFile(fileTree, p, body), Writable(p) \/ p \in DOMAIN fileTree
  PROVE  /\ DOMAIN fileTree' = {p} \cup DOMAIN fileTree
         /\ DOMAIN fileTree' \subseteq TreePaths \cup CopiedPaths /\ IsFiniteSet(DOMAIN fileTree')
         /\ \A q \in DOMAIN fileTree' : fileTree'[q] \in Seq(Letters)
         /\ \A q, r \in DOMAIN fileTree' : ~Below(q, r)
<1>1. /\ DOMAIN fileTree' = {p} \cup DOMAIN fileTree /\ fileTree'[p] = body
      /\ \A q \in DOMAIN fileTree : q # p => fileTree'[q] = fileTree[q]
  BY DEF WithFile
<1>2. IsFiniteSet(DOMAIN fileTree')
  <2>1. IsFiniteSet(DOMAIN fileTree)
    BY DEF TreeTyped
  <2>2. IsFiniteSet((DOMAIN fileTree) \cup {p})
    BY <2>1, FS_AddElement
  <2>3. DOMAIN fileTree' = (DOMAIN fileTree) \cup {p}
    BY <1>1
  <2>4. QED
    BY <2>2, <2>3
<1>3. ASSUME NEW q \in DOMAIN fileTree', NEW r \in DOMAIN fileTree' PROVE ~ Below(q, r)
  <2>1. CASE p \in DOMAIN fileTree
    BY <2>1, <1>1 DEF TreeTyped
  <2>2. CASE Writable(p)
    <3>1. ~ Below(p, p)
      BY PathFacts
    <3>2. QED
      BY <3>1, <2>2, <1>1 DEF Writable, TreeTyped
  <2>3. QED
    BY <2>1, <2>2
<1>4. QED
  BY <1>1, <1>2, <1>3 DEF TreeTyped

LEMMA EmptyFileStep ==
  ASSUME FilesInv, NEW c \in Callers, EmptyFile(c)
  PROVE  FilesInv'
<1>1. /\ EditsTyped /\ TreeTyped /\ CopyTyped /\ AloneOrOverlap /\ PagesFollow /\ SearchIsComplete
  BY DEF FilesInv
<1>2. /\ serial' = serial /\ overlap' = overlap /\ copying' = copying /\ fileCalls' = fileCalls
      /\ copies' = copies /\ edit[c].at = "write"
  BY DEF EmptyFile
<1> DEFINE p == edit[c].path
<1>3. p \in TreePaths /\ p \in TreePaths \cup CopiedPaths /\ <<>> \in Seq(Letters)
  BY <1>1, <1>2, EmptySeq DEF EditsTyped
<1>4. CopyTyped'
  BY <1>1, <1>2 DEF CopyTyped
<1>5. \A q : SerialBody(q)' = SerialBody(q)
  BY <1>2 DEF SerialBody
<1>6. CASE Writable(p)
  <2>1. /\ edit' = [edit EXCEPT ![c].at = "fill"]
        /\ fileTree' = WithFile(fileTree, p, <<>>) /\ Outdate(p)
    BY <1>6 DEF EmptyFile
  <2>2. /\ edit'[c].at = "fill" /\ edit'[c].path = p /\ edit'[c].edits = edit[c].edits
        /\ edit'[c].body = edit[c].body
        /\ \A d \in Callers : d # c => edit'[d] = edit[d]
    BY <2>1, <1>1 DEF EditsTyped
  <2>3. edit' \in [Callers -> [at : {"idle", "write", "fill", "fill nowhere"},
                               path : TreePaths \cup {<<>>},
                               edits : EditLists \cup {<<>>}, body : Seq(Letters)]]
    BY <2>1, <1>1 DEF EditsTyped
  <2> HIDE DEF p
  <2>4. /\ DOMAIN fileTree' = {p} \cup DOMAIN fileTree
        /\ \A q \in DOMAIN fileTree : q # p => fileTree'[q] = fileTree[q]
    BY <2>1 DEF WithFile
  <2>5. TreeTyped'
    <3>1. /\ DOMAIN fileTree' \subseteq TreePaths \cup CopiedPaths /\ IsFiniteSet(DOMAIN fileTree')
          /\ \A q \in DOMAIN fileTree' : fileTree'[q] \in Seq(Letters)
          /\ \A q, r \in DOMAIN fileTree' : ~Below(q, r)
      BY <1>1, <1>3, <1>6, <2>1, TreeKept
    <3>2. QED
      BY <3>1, <1>1, <1>2 DEF TreeTyped
  <2>6. EditsTyped'
    <3>1. edit[c].path = p
      BY DEF p
    <3>2. QED
      BY <3>1, <1>1, <1>2, <1>3, <2>2, <2>3, <2>4 DEF EditsTyped
  <2>7. ASSUME NEW d \in Callers
        PROVE  /\ edit'[d].at # "idle" <=> edit[d].at # "idle"
               /\ edit'[d].path = edit[d].path /\ edit'[d].edits = edit[d].edits
               /\ edit'[d].body = edit[d].body
    BY <2>2, <1>2 DEF p
  <2>8. ASSUME NEW q \in TreePaths \ overlap,
               \A d \in Callers : edit'[d].at = "fill" => edit'[d].path # q
        PROVE  /\ q \in DOMAIN serial <=> q \in DOMAIN fileTree'
               /\ q \in DOMAIN serial => serial[q] = fileTree'[q]
    <3>1. q # p /\ \A d \in Callers : edit[d].at = "fill" => edit[d].path # q
      BY <2>2, <2>8, <1>2
    <3>2. QED
      BY <3>1, <2>4, <1>1 DEF AloneOrOverlap
  <2>9. AloneOrOverlap'
    BY <1>1, <1>2, <1>5, <2>7, <2>8 DEF AloneOrOverlap
  <2>10. PagesFollow' /\ SearchIsComplete'
    <3>1. PagesFollow'
      BY <1>1, <2>1, PagesOutdate
    <3>2. grep' = NoSearch
      BY <2>1 DEF Outdate
    <3>3. QED
      BY <3>1, <3>2 DEF SearchIsComplete, NoSearch
  <2>11. QED
    BY <1>4, <2>5, <2>6, <2>9, <2>10 DEF FilesInv
<1>7. CASE ~ Writable(p)
  <2>1. /\ edit' = [edit EXCEPT ![c] = NoEdit] /\ fileTree' = fileTree /\ page' = page
        /\ grep' = grep
    BY <1>7 DEF EmptyFile
  <2>2. /\ edit'[c].at = "idle" /\ \A d \in Callers : d # c => edit'[d] = edit[d]
    BY <2>1, <1>1 DEF EditsTyped, NoEdit
  <2>3. edit' \in [Callers -> [at : {"idle", "write", "fill", "fill nowhere"},
                               path : TreePaths \cup {<<>>},
                               edits : EditLists \cup {<<>>}, body : Seq(Letters)]]
    BY <2>1, <1>1, <1>3 DEF EditsTyped, NoEdit
  <2>4. EditsTyped' /\ TreeTyped'
    BY <1>1, <1>2, <2>1, <2>2, <2>3 DEF EditsTyped, TreeTyped
  <2>5. ASSUME NEW q \in TreePaths \ overlap,
               \A d \in Callers : edit'[d].at = "fill" => edit'[d].path # q
        PROVE  \A d \in Callers : edit[d].at = "fill" => edit[d].path # q
    BY <2>2, <2>5, <1>2
  <2>6. AloneOrOverlap'
    BY <1>1, <1>2, <1>5, <2>1, <2>2, <2>5 DEF AloneOrOverlap
  <2>7. PagesFollow' /\ SearchIsComplete'
    BY <1>1, <2>1 DEF PagesFollow, SearchIsComplete, Hits
  <2>8. QED
    BY <1>4, <2>4, <2>6, <2>7 DEF FilesInv
<1>8. QED
  BY <1>6, <1>7

LEMMA FillFileStep ==
  ASSUME FilesInv, NEW c \in Callers, FillFile(c)
  PROVE  FilesInv'
<1>1. /\ EditsTyped /\ TreeTyped /\ CopyTyped /\ AloneOrOverlap /\ PagesFollow /\ SearchIsComplete
  BY DEF FilesInv
<1> DEFINE p == edit[c].path
           body == edit[c].body
           told == AsReported(SerialBody(p), edit[c].edits, body)
<1>2. /\ overlap' = overlap /\ copying' = copying /\ fileCalls' = fileCalls /\ copies' = copies
      /\ edit[c].at \in {"fill", "fill nowhere"} /\ edit' = [edit EXCEPT ![c] = NoEdit]
      /\ fileTree' = IF edit[c].at = "fill" THEN WithFile(fileTree, p, body) ELSE fileTree
      /\ serial' = WithFile(serial, p, told) /\ Outdate(p)
  BY DEF FillFile, SerialBody, BodyIn
<1>3. /\ p \in TreePaths /\ p \in TreePaths \cup CopiedPaths /\ body \in Seq(Letters)
      /\ edit[c].at = "fill" => p \in DOMAIN fileTree
      /\ p \notin overlap => told = body /\ edit[c].at = "fill"
  BY <1>1, <1>2 DEF EditsTyped, AloneOrOverlap
<1>4. CopyTyped'
  BY <1>1, <1>2 DEF CopyTyped
<1>5. /\ edit'[c].at = "idle" /\ \A d \in Callers : d # c => edit'[d] = edit[d]
  BY <1>1, <1>2 DEF EditsTyped, NoEdit
<1>6. edit' \in [Callers -> [at : {"idle", "write", "fill", "fill nowhere"},
                             path : TreePaths \cup {<<>>},
                             edits : EditLists \cup {<<>>}, body : Seq(Letters)]]
  <2>1. edit' = [edit EXCEPT ![c] = NoEdit] /\ <<>> \in Seq(Letters)
    BY <1>2, EmptySeq
  <2>2. QED
    BY <2>1, <1>1 DEF EditsTyped, NoEdit
<1>7. \A d \in Callers : edit[d].at # "idle" /\ edit[d].path = p /\ p \notin overlap => d = c
  BY <1>1, <1>2 DEF AloneOrOverlap
<1>8. edit[c].path = p
  OBVIOUS
<1> HIDE DEF p, body, told
<1>9. /\ DOMAIN serial' = {p} \cup DOMAIN serial /\ serial'[p] = told
      /\ \A q \in DOMAIN serial : q # p => serial'[q] = serial[q]
  BY <1>2 DEF WithFile
<1>10. \A q : q # p => BodyIn(serial', q) = BodyIn(serial, q)
  BY <1>9 DEF BodyIn
<1>11. /\ DOMAIN fileTree' = DOMAIN fileTree
       /\ \A q \in DOMAIN fileTree : q # p => fileTree'[q] = fileTree[q]
       /\ edit[c].at = "fill" => fileTree'[p] = body
  <2>1. CASE edit[c].at = "fill"
    <3>1. fileTree' = WithFile(fileTree, p, body)
      BY <2>1, <1>2
    <3>2. /\ DOMAIN fileTree' = {p} \cup DOMAIN fileTree /\ fileTree'[p] = body
          /\ \A q \in DOMAIN fileTree : q # p => fileTree'[q] = fileTree[q]
      BY <3>1 DEF WithFile
    <3>3. QED
      BY <3>2, <2>1, <1>3
  <2>2. CASE edit[c].at # "fill"
    BY <2>2, <1>2
  <2>3. QED
    BY <2>1, <2>2
<1>12. TreeTyped'
  <2>1. /\ DOMAIN fileTree' \subseteq TreePaths \cup CopiedPaths /\ IsFiniteSet(DOMAIN fileTree')
        /\ \A q \in DOMAIN fileTree' : fileTree'[q] \in Seq(Letters)
        /\ \A q, r \in DOMAIN fileTree' : ~Below(q, r)
    <3>1. CASE edit[c].at = "fill"
      <4>1. fileTree' = WithFile(fileTree, p, body)
        BY <3>1, <1>2
      <4>2. QED
        BY <4>1, <3>1, <1>1, <1>3, TreeKept
    <3>2. CASE edit[c].at # "fill"
      BY <3>2, <1>1, <1>2 DEF TreeTyped
    <3>3. QED
      BY <3>1, <3>2
  <2>2. QED
    BY <2>1, <1>1, <1>2, <1>3, <1>9 DEF TreeTyped
<1>13. EditsTyped'
  BY <1>1, <1>2, <1>5, <1>6, <1>11 DEF EditsTyped
<1>14. ASSUME NEW d \in Callers, edit'[d].at # "idle", edit'[d].path \notin overlap
       PROVE  AsReported(BodyIn(serial', edit'[d].path), edit'[d].edits, edit'[d].body) = edit'[d].body
  <2>1. d # c /\ edit'[d] = edit[d]
    BY <1>5, <1>14
  <2>2. edit[d].path # p
    BY <2>1, <1>7, <1>14
  <2>3. BodyIn(serial', edit'[d].path) = SerialBody(edit[d].path)
    BY <2>1, <2>2, <1>10 DEF SerialBody
  <2>4. QED
    BY <2>1, <2>3, <1>1, <1>14 DEF AloneOrOverlap
<1>15. ASSUME NEW q \in TreePaths \ overlap,
              \A d \in Callers : edit'[d].at = "fill" => edit'[d].path # q
       PROVE  /\ q \in DOMAIN serial' <=> q \in DOMAIN fileTree'
              /\ q \in DOMAIN serial' => serial'[q] = fileTree'[q]
  <2>1. CASE q = p
    BY <2>1, <1>3, <1>9, <1>11
  <2>2. CASE q # p
    <3>1. \A d \in Callers : edit[d].at = "fill" => edit[d].path # q
      BY <2>2, <1>5, <1>8, <1>15
    <3>2. /\ q \in DOMAIN serial <=> q \in DOMAIN fileTree
          /\ q \in DOMAIN serial => serial[q] = fileTree[q]
      BY <3>1, <1>1 DEF AloneOrOverlap
    <3>3. QED
      BY <3>2, <2>2, <1>9, <1>11
  <2>3. QED
    BY <2>1, <2>2
<1>16. \A a, b \in Callers :
         /\ edit'[a].at # "idle" /\ edit'[b].at # "idle"
         /\ edit'[a].path = edit'[b].path /\ edit'[a].path \notin overlap
         => a = b
  BY <1>1, <1>5 DEF AloneOrOverlap
<1>17. AloneOrOverlap'
  <2>1. \A d \in Callers :
          edit'[d].at # "idle" /\ edit'[d].path \notin overlap' =>
            AsReported(BodyIn(serial', edit'[d].path), edit'[d].edits, edit'[d].body) = edit'[d].body
    BY <1>2, <1>14
  <2>2. QED
    BY <2>1, <1>2, <1>15, <1>16 DEF AloneOrOverlap, SerialBody
<1>18. PagesFollow' /\ SearchIsComplete'
  <2>1. fileTree' = fileTree \/ fileTree' = WithFile(fileTree, p, body)
    BY <1>2
  <2>2. PagesFollow'
    BY <2>1, <1>1, <1>2, PagesOutdate
  <2>3. grep' = NoSearch
    BY <1>2 DEF Outdate
  <2>4. QED
    BY <2>2, <2>3 DEF SearchIsComplete, NoSearch
<1>19. QED
  BY <1>4, <1>12, <1>13, <1>17, <1>18 DEF FilesInv

\* A copy has declared overlapping what it removes and writes.
LEMMA BeginCopyStep ==
  ASSUME FilesInv, BeginCopy
  PROVE  FilesInv'
<1>1. /\ EditsTyped /\ TreeTyped /\ CopyTyped /\ AloneOrOverlap /\ PagesFollow /\ SearchIsComplete
  BY DEF FilesInv
<1>2. /\ serial' = serial /\ fileCalls' = fileCalls /\ copies < MaxCopies /\ copies' = copies + 1
      /\ page' = [page EXCEPT !.changed = TRUE] /\ grep' = NoSearch
  BY DEF BeginCopy
<1> DEFINE Tops == {<<p[1]>> : p \in TreePaths}
<1>0. PICK dst \in Tops :
       /\ copying' = [dst |-> dst, left |-> DOMAIN HostTree, state |-> "copying"]
       /\ fileTree' = [p \in DOMAIN fileTree \ InTarget(dst) |-> fileTree[p]]
       /\ overlap' = overlap \cup {p \in TreePaths : p = dst \/ Below(dst, p)}
       /\ edit' = [c \in Callers |->
                    IF edit[c].at = "fill" /\ edit[c].path \in InTarget(dst)
                    THEN [edit[c] EXCEPT !.at = "fill nowhere"] ELSE edit[c]]
  BY DEF BeginCopy
<1>q. PICK q \in TreePaths : dst = <<q[1]>>
  OBVIOUS
<1> HIDE DEF Tops
<1>3. /\ copying' = [dst |-> dst, left |-> DOMAIN HostTree, state |-> "copying"]
      /\ fileTree' = [p \in DOMAIN fileTree \ InTarget(dst) |-> fileTree[p]]
      /\ overlap' = overlap \cup {p \in TreePaths : p = dst \/ Below(dst, p)}
      /\ edit' = [c \in Callers |->
                   IF edit[c].at = "fill" /\ edit[c].path \in InTarget(dst)
                   THEN [edit[c] EXCEPT !.at = "fill nowhere"] ELSE edit[c]]
  BY <1>0
<1>4. \A p \in TreePaths : p \notin overlap' => p \notin InTarget(dst)
  BY <1>3 DEF InTarget
<1>5. overlap \subseteq overlap' /\ overlap' \subseteq TreePaths
  BY <1>1, <1>3 DEF TreeTyped
<1>6. DOMAIN fileTree' = DOMAIN fileTree \ InTarget(dst) /\
      \A p \in DOMAIN fileTree' : fileTree'[p] = fileTree[p]
  BY <1>3
<1>7. TreeTyped'
  <2>1. IsFiniteSet(DOMAIN fileTree')
    <3>1. IsFiniteSet(DOMAIN fileTree) /\ DOMAIN fileTree' \subseteq DOMAIN fileTree
      BY <1>1, <1>6 DEF TreeTyped
    <3>2. QED
      BY <3>1, FS_Subset
  <2>2. copies' \in 0 .. MaxCopies
    BY <1>1, <1>2, FileToolsAssumption DEF TreeTyped
  <2>3. QED
    BY <1>1, <1>2, <1>5, <1>6, <2>1, <2>2 DEF TreeTyped
<1>8. CopyTyped'
  <2>1. /\ copying'.state = "copying" /\ copying'.left = DOMAIN HostTree /\ copying'.dst = dst
    BY <1>3
  <2>2. QED
    BY <1>3, <1>q, <2>1 DEF CopyTyped
<1>9. ASSUME NEW c \in Callers
      PROVE  /\ edit'[c] \in [at : {"idle", "write", "fill", "fill nowhere"},
                              path : TreePaths \cup {<<>>},
                              edits : EditLists \cup {<<>>}, body : Seq(Letters)]
             /\ edit'[c].path = edit[c].path /\ edit'[c].edits = edit[c].edits
             /\ edit'[c].body = edit[c].body
             /\ edit'[c].at # "idle" <=> edit[c].at # "idle"
             /\ edit'[c].at = "fill" <=> edit[c].at = "fill" /\ edit[c].path \notin InTarget(dst)
             /\ edit'[c].at = "fill nowhere" =>
                  \/ edit[c].at = "fill nowhere"
                  \/ edit[c].at # "idle" /\ edit[c].path \in InTarget(dst)
  <2>1. edit'[c] = IF edit[c].at = "fill" /\ edit[c].path \in InTarget(dst)
                   THEN [edit[c] EXCEPT !.at = "fill nowhere"] ELSE edit[c]
    BY <1>3
  <2>2. edit[c] \in [at : {"idle", "write", "fill", "fill nowhere"},
                     path : TreePaths \cup {<<>>},
                     edits : EditLists \cup {<<>>}, body : Seq(Letters)]
    BY <1>1 DEF EditsTyped
  <2>3. QED
    BY <2>1, <2>2
<1>10. EditsTyped'
  <2>1. edit' = [c \in Callers |-> edit'[c]]
    BY <1>3
  <2>2. edit' \in [Callers -> [at : {"idle", "write", "fill", "fill nowhere"},
                               path : TreePaths \cup {<<>>},
                               edits : EditLists \cup {<<>>}, body : Seq(Letters)]]
    BY <2>1, <1>9
  <2>3. ASSUME NEW c \in Callers
        PROVE  /\ edit'[c].at # "idle" => edit'[c].path \in TreePaths
               /\ edit'[c].at = "fill" => edit'[c].path \in DOMAIN fileTree'
               /\ edit'[c].at = "fill nowhere" => edit'[c].path \in overlap'
    BY <1>1, <1>4, <1>5, <1>6, <1>9 DEF EditsTyped
  <2>4. QED
    BY <2>2, <2>3 DEF EditsTyped
<1>11. ASSUME NEW p \in TreePaths \ overlap',
              \A c \in Callers : edit'[c].at = "fill" => edit'[c].path # p
       PROVE  /\ p \in DOMAIN serial <=> p \in DOMAIN fileTree'
              /\ p \in DOMAIN serial => serial[p] = fileTree'[p]
  <2>1. p \notin InTarget(dst) /\ p \notin overlap
    BY <1>4, <1>5
  <2>2. \A c \in Callers : edit[c].at = "fill" => edit[c].path # p
    BY <2>1, <1>9, <1>11
  <2>3. QED
    BY <2>1, <2>2, <1>1, <1>6 DEF AloneOrOverlap
<1>12. AloneOrOverlap'
  <2>1. \A p : SerialBody(p)' = SerialBody(p)
    BY <1>2 DEF SerialBody
  <2>2. ASSUME NEW c \in Callers, edit'[c].at # "idle"
        PROVE  edit[c].at # "idle" /\ edit'[c].path = edit[c].path /\ edit'[c].edits = edit[c].edits
               /\ edit'[c].body = edit[c].body
    BY <1>9, <2>2
  <2>o. overlap \subseteq overlap'
    BY <1>5
  <2>a. ASSUME NEW c \in Callers, NEW d \in Callers,
               edit'[c].at # "idle", edit'[d].at # "idle",
               edit'[c].path = edit'[d].path, edit'[c].path \notin overlap'
        PROVE  c = d
    <3>1. /\ edit[c].at # "idle" /\ edit[d].at # "idle"
          /\ edit[c].path = edit[d].path /\ edit[c].path \notin overlap
      BY <2>a, <2>2, <2>o
    <3>2. QED
      BY <3>1, <1>1 DEF AloneOrOverlap
  <2>3. ASSUME NEW c \in Callers, edit'[c].at # "idle", edit'[c].path \notin overlap'
        PROVE  AsReported(SerialBody(edit'[c].path), edit'[c].edits, edit'[c].body) = edit'[c].body
    <3>1. edit[c].at # "idle" /\ edit[c].path \notin overlap
      BY <2>3, <2>2, <2>o
    <3>2. AsReported(SerialBody(edit[c].path), edit[c].edits, edit[c].body) = edit[c].body
      BY <3>1, <1>1 DEF AloneOrOverlap
    <3>3. QED
      BY <3>2, <2>2, <2>3
  <2>4. QED
    BY <2>1, <2>a, <2>3, <1>2, <1>11 DEF AloneOrOverlap
<1>13. PagesFollow' /\ SearchIsComplete'
  BY <1>1, <1>2, PagesOutdated DEF SearchIsComplete, NoSearch
<1>14. QED
  BY <1>7, <1>8, <1>10, <1>12, <1>13 DEF FilesInv

LEMMA CopyRegularFileStep ==
  ASSUME FilesInv, CopyRegularFile
  PROVE  FilesInv'
<1>1. /\ EditsTyped /\ TreeTyped /\ CopyTyped /\ AloneOrOverlap /\ PagesFollow /\ SearchIsComplete
  BY DEF FilesInv
<1>2. /\ edit' = edit /\ serial' = serial /\ overlap' = overlap /\ fileCalls' = fileCalls
      /\ copies' = copies /\ copying.state = "copying"
      /\ page' = [page EXCEPT !.changed = TRUE] /\ grep' = NoSearch
  BY DEF CopyRegularFile
<1>3. PagesFollow' /\ SearchIsComplete'
  BY <1>1, <1>2, PagesOutdated DEF SearchIsComplete, NoSearch
<1>4. \A p : SerialBody(p)' = SerialBody(p)
  BY <1>2 DEF SerialBody
<1>5. CASE /\ fileTree' = fileTree
           /\ copying' = NoCopy \/ copying' = [copying EXCEPT !.state = "done"]
  <2>1. CopyTyped'
    <3>1. CASE copying' = NoCopy
      BY <3>1 DEF CopyTyped, NoCopy
    <3>2. CASE copying' = [copying EXCEPT !.state = "done"]
      <4>1. copying' = [dst |-> copying.dst, left |-> copying.left, state |-> "done"]
        BY <3>2, <1>1 DEF CopyTyped
      <4>2. QED
        BY <4>1 DEF CopyTyped
    <3>3. QED
      BY <1>5, <3>1, <3>2
  <2>2. EditsTyped' /\ TreeTyped' /\ AloneOrOverlap'
    BY <1>1, <1>2, <1>4, <1>5 DEF EditsTyped, TreeTyped, AloneOrOverlap
  <2>3. QED
    BY <2>1, <2>2, <1>3 DEF FilesInv
<1>6. ASSUME NEW s \in copying.left, Writable(copying.dst \o s),
             fileTree' = WithFile(fileTree, copying.dst \o s, HostTree[s]),
             copying' = [copying EXCEPT !.left = @ \ {s}]
      PROVE  FilesInv'
  <2> DEFINE p == copying.dst \o s
  <2>1. PICK q \in TreePaths : copying.dst = <<q[1]>>
    BY <1>1, <1>2 DEF CopyTyped
  <2>2. s \in DOMAIN HostTree /\ copying.left \subseteq DOMAIN HostTree
    BY <1>1, <1>2 DEF CopyTyped
  <2>3. HostTree[s] \in Seq(Letters)
    BY <2>2, TreesAssumption
  <2>4. p \in TreePaths \cup CopiedPaths
    BY <2>1, <2>2 DEF CopiedPaths
  <2>5. p = copying.dst \/ Below(copying.dst, p)
    BY <2>1, <2>2, CopyStaysInside
  <2>6. p \in TreePaths => p \in overlap
    BY <2>5, <1>1, <1>2 DEF CopyTyped
  <2>7. fileTree' = WithFile(fileTree, p, HostTree[s]) /\ Writable(p)
    BY <1>6
  <2> HIDE DEF p
  <2>8. /\ DOMAIN fileTree' = {p} \cup DOMAIN fileTree
        /\ \A x \in DOMAIN fileTree : x # p => fileTree'[x] = fileTree[x]
    BY <2>7 DEF WithFile
  <2>9. TreeTyped'
    <3>1. /\ DOMAIN fileTree' \subseteq TreePaths \cup CopiedPaths /\ IsFiniteSet(DOMAIN fileTree')
          /\ \A x \in DOMAIN fileTree' : fileTree'[x] \in Seq(Letters)
          /\ \A x, y \in DOMAIN fileTree' : ~Below(x, y)
      BY <1>1, <2>3, <2>4, <2>7, TreeKept
    <3>2. QED
      BY <3>1, <1>1, <1>2 DEF TreeTyped
  <2>10. EditsTyped'
    BY <1>1, <1>2, <2>8 DEF EditsTyped
  <2>11. \A x \in TreePaths \ overlap :
           /\ x \in DOMAIN fileTree' <=> x \in DOMAIN fileTree
           /\ x \in DOMAIN fileTree => fileTree'[x] = fileTree[x]
    BY <2>6, <2>8
  <2>12. AloneOrOverlap'
    <3>1. ASSUME NEW x \in TreePaths \ overlap,
                 \A c \in Callers : edit[c].at = "fill" => edit[c].path # x
          PROVE  /\ x \in DOMAIN serial <=> x \in DOMAIN fileTree'
                 /\ x \in DOMAIN serial => serial[x] = fileTree'[x]
      BY <3>1, <2>11, <1>1 DEF AloneOrOverlap
    <3>2. QED
      BY <3>1, <1>1, <1>2, <1>4 DEF AloneOrOverlap
  <2>13. CopyTyped'
    <3>1. copying' = [dst |-> copying.dst, left |-> copying.left \ {s}, state |-> copying.state]
      BY <1>1, <1>6 DEF CopyTyped
    <3>2. copying'.left \subseteq DOMAIN HostTree
      BY <3>1, <2>2
    <3>3. /\ copying'.dst = copying.dst /\ copying'.state = copying.state
          /\ copying' = [dst |-> copying'.dst, left |-> copying'.left, state |-> copying'.state]
      BY <3>1
    <3>4. QED
      BY <3>2, <3>3, <1>1, <1>2 DEF CopyTyped
  <2>14. QED
    BY <2>9, <2>10, <2>12, <2>13, <1>3 DEF FilesInv
<1>7. QED
  BY <1>5, <1>6 DEF CopyRegularFile

\* Readers change nothing but what they have read.
LEMMA ReadersStep ==
  ASSUME FilesInv, ViewFile \/ PutAway \/ GrepWithGo \/ GrepWithRipgrep
  PROVE  FilesInv'
<1>1. /\ EditsTyped /\ TreeTyped /\ CopyTyped /\ AloneOrOverlap /\ PagesFollow /\ SearchIsComplete
  BY DEF FilesInv
<1>2. /\ fileTree' = fileTree /\ edit' = edit /\ serial' = serial /\ overlap' = overlap
      /\ copying' = copying /\ fileCalls' = fileCalls /\ copies' = copies
  BY DEF ViewFile, PutAway, GrepWithGo, GrepWithRipgrep
<1>3. EditsTyped' /\ TreeTyped' /\ CopyTyped' /\ AloneOrOverlap'
  BY <1>1, <1>2 DEF EditsTyped, TreeTyped, CopyTyped, AloneOrOverlap, SerialBody
<1>4. PagesFollow'
  <2>1. CASE ViewFile
    BY <2>1, <1>1, ViewStep
  <2>2. CASE PutAway
    BY <2>2 DEF PutAway, PagesFollow, NoPage
  <2>3. CASE GrepWithGo \/ GrepWithRipgrep
    <3>1. page' = page
      BY <2>3 DEF GrepWithGo, GrepWithRipgrep
    <3>2. QED
      BY <3>1, <1>1, <1>2, PagesStay
  <2>4. QED
    BY <2>1, <2>2, <2>3
<1>5. SearchIsComplete'
  <2>1. CASE GrepWithGo \/ GrepWithRipgrep
    BY <2>1, <1>1, SearchStep
  <2>2. CASE ViewFile \/ PutAway
    <3>1. grep' = grep
      BY <2>2 DEF ViewFile, PutAway
    <3>2. QED
      BY <3>1, <1>1, <1>2 DEF SearchIsComplete, Hits
  <2>3. QED
    BY <2>1, <2>2
<1>6. QED
  BY <1>3, <1>4, <1>5 DEF FilesInv

LEMMA FilesStart == FileToolsInit => FilesInv
<1> SUFFICES ASSUME FileToolsInit PROVE FilesInv
  OBVIOUS
<1>1. /\ fileTree = FirstTree /\ serial = FirstTree /\ overlap = {}
      /\ edit = [c \in Callers |-> NoEdit]
      /\ page = NoPage /\ grep = NoSearch /\ copying = NoCopy
      /\ fileCalls = 0 /\ copies = 0
  BY DEF FileToolsInit
<1>2. EditsTyped
  <2>1. NoEdit \in [at : {"idle", "write", "fill", "fill nowhere"}, path : TreePaths \cup {<<>>},
                    edits : EditLists \cup {<<>>}, body : Seq(Letters)] /\ NoEdit.at = "idle"
    BY EmptySeq DEF NoEdit
  <2> HIDE DEF NoEdit
  <2>2. \A c \in Callers : edit[c] = NoEdit
    BY <1>1
  <2>3. edit \in [Callers -> [at : {"idle", "write", "fill", "fill nowhere"},
                              path : TreePaths \cup {<<>>},
                              edits : EditLists \cup {<<>>}, body : Seq(Letters)]]
    BY <1>1, <2>1
  <2>4. QED
    BY <2>1, <2>2, <2>3 DEF EditsTyped
<1>3. TreeTyped
  BY <1>1, TreesAssumption, FileToolsAssumption DEF TreeTyped
<1>4. CopyTyped
  BY <1>1 DEF CopyTyped, NoCopy
<1>5. AloneOrOverlap
  BY <1>1 DEF AloneOrOverlap, NoEdit
<1>6. PagesFollow
  BY <1>1 DEF PagesFollow, NoPage
<1>7. SearchIsComplete
  BY <1>1 DEF SearchIsComplete, NoSearch
<1>8. QED
  BY <1>2, <1>3, <1>4, <1>5, <1>6, <1>7 DEF FilesInv

LEMMA FilesStep == FilesInv /\ [FileToolsNext]_fileVars => FilesInv'
<1> SUFFICES ASSUME FilesInv, [FileToolsNext]_fileVars PROVE FilesInv'
  OBVIOUS
<1>1. CASE UNCHANGED fileVars
  <2>1. /\ fileTree' = fileTree /\ edit' = edit /\ serial' = serial /\ overlap' = overlap
        /\ copying' = copying /\ fileCalls' = fileCalls /\ copies' = copies
        /\ page' = page /\ grep' = grep
    BY <1>1 DEF fileVars
  <2>2. EditsTyped' /\ TreeTyped' /\ CopyTyped' /\ AloneOrOverlap'
    BY <2>1 DEF FilesInv, EditsTyped, TreeTyped, CopyTyped, AloneOrOverlap, SerialBody
  <2>3. PagesFollow' /\ SearchIsComplete'
    BY <2>1 DEF FilesInv, PagesFollow, SearchIsComplete, Hits
  <2>4. QED
    BY <2>2, <2>3 DEF FilesInv
<1>2. ASSUME NEW c \in Callers, ReadForEdit(c) \/ WriteWhole(c) \/ EmptyFile(c) \/ FillFile(c)
      PROVE  FilesInv'
  BY <1>2, ReadForEditStep, WriteWholeStep, EmptyFileStep, FillFileStep
<1>3. CASE ViewFile \/ PutAway \/ GrepWithGo \/ GrepWithRipgrep
  BY <1>3, ReadersStep
<1>4. CASE BeginCopy
  BY <1>4, BeginCopyStep
<1>5. CASE CopyRegularFile
  BY <1>5, CopyRegularFileStep
<1>6. QED
  BY <1>1, <1>2, <1>3, <1>4, <1>5 DEF FileToolsNext

LEMMA FilesAre == FilesInv => FilesAreExact /\ FileToolsTypeOK
<1> SUFFICES ASSUME FilesInv PROVE FilesAreExact /\ FileToolsTypeOK
  OBVIOUS
<1>1. EditsAreSerial
  BY DEF FilesInv, TreeTyped, AloneOrOverlap, EditsAreSerial
<1>2. PagesAreTheFile
  BY DEF FilesInv, PagesFollow, PagesAreTheFile
<1>3. FileToolsTypeOK
  <2>1. \A c \in Callers : edit[c].at \in {"idle", "write", "fill", "fill nowhere"}
    BY DEF FilesInv, EditsTyped
  <2>2. QED
    BY <2>1 DEF FilesInv, TreeTyped, CopyTyped, PagesFollow, FileToolsTypeOK
<1>4. QED
  BY <1>1, <1>2, <1>3 DEF FilesInv, FilesAreExact

-----------------------------------------------------------------------------
(* The leases of containers.                                               *)

Registering == {"lease", "list", "create", "start", "register"}
Commanding == {"ensure", "setup", "exec"} \cup Registering
Dropping == {"check", "remove", "unlink"}   \* the lease has been removed
Releasing == {"unlease"} \cup Dropping
Leaving == {"release", "ended", "crashed"} \cup Releasing

\* Of the snapshots' leases a run knows those of its own, and it gives back where
\* it registered last.
DirsOK ==
    \A r \in Runtimes :
        /\ run[r].dir \in {Files, r} /\ run[r].hint \in {Files, r}
        /\ run[r].pc \in Releasing => run[r].dir = run[r].hint
        /\ \A d \in Dirs, n \in Names : r \in leases[d][n] => d \in {Files, r}

\* A run in a command has the commands' lock, and its container is the one of
\* the mounts it needs.
CommandsOK ==
    \A r \in Runtimes :
        /\ run[r].pc \in Commanding =>
              /\ commandHolder[run[r].dir] = r
              /\ run[r].skill \in Skills
        /\ run[r].pc \in Commanding \ {"ensure"} => run[r].name = Needed(r)

\* A run remembers the leases it has, and those alone, until it looks for them at
\* its end: it finds those of the directory where it registered last.
LeasesOK ==
    \A r \in Runtimes :
        /\ \A n \in Names :
              /\ \A d \in Dirs : r \in leases[d][n] =>
                    \/ run[r].pc = "crashed" \/ n \in run[r].held
                    \/ run[r].pc \in Leaving /\ d # run[r].hint
              /\ n \in run[r].held =>
                    \/ \E d \in Dirs : r \in leases[d][n]
                    \/ run[r].pc \in Dropping /\ run[r].name = n
        /\ run[r].pc \in Releasing => run[r].name \in run[r].held
        /\ run[r].pc \in Dropping => r \notin leases[run[r].dir][run[r].name]
        /\ run[r].pc = "ended" => run[r].held = {}

\* In its snapshot a run is alone: who removes a container has found no lease there.
SnapshotsOK ==
    \A r \in Runtimes :
        run[r].pc \in {"remove", "unlink"} /\ run[r].dir # Files =>
            leases[run[r].dir][run[r].name] = {}

\* In the workspace, who gives a lease back has the lock file that is there; who
\* registers one has it too, or nobody has a lease; and a container that is being
\* removed has none.
LockFilesOK ==
    \A r \in Runtimes : run[r].dir = Files =>
        /\ run[r].pc \in Releasing => run[r].opened = lockFile[Files][run[r].name]
        /\ run[r].pc \in {"remove", "unlink"} => leases[Files][run[r].name] = {}
        /\ run[r].pc \in Registering =>
              \/ run[r].opened = lockFile[Files][run[r].name]
              \/ /\ leases[Files][run[r].name] = {}
                 /\ \A q \in Runtimes :
                       run[q].pc \in Releasing /\ run[q].dir = Files => run[q].name # run[r].name

\* That is so as long as no run looks in the workspace for a lease of its snapshot.
Undisturbed == \A r \in Runtimes : ~(Astray(r) /\ run[r].pc \in Leaving)

\* The lock of a file is held by one run.
LocksExclude ==
    \A r, q \in Runtimes :
        /\ r # q /\ run[r].pc \in Critical /\ run[q].pc \in Critical
        /\ run[r].dir = run[q].dir /\ run[r].name = run[q].name
        => run[r].opened # run[q].opened

LeaseInv ==
    /\ ContainersTypeOK /\ DirsOK /\ CommandsOK /\ LeasesOK /\ SnapshotsOK /\ LocksExclude
    /\ Undisturbed => LockFilesOK

-----------------------------------------------------------------------------
\* The invariant holds at the start.
LEMMA LeaseInit == ContainersInit => LeaseInv
  <1> SUFFICES ASSUME ContainersInit PROVE LeaseInv
    OBVIOUS
  <1>1. Files \in Dirs
    BY DEF Dirs
  <1>2. NewRuntime \in Runtime
    BY <1>1 DEF NewRuntime, Runtime, Steps, Critical
  <1>3. ContainersTypeOK
    BY <1>1, <1>2, SkillContainersAssumption DEF ContainersInit, ContainersTypeOK
  <1>4. \A r \in Runtimes : /\ run[r].pc = "idle" /\ run[r].held = {}
                            /\ run[r].dir = Files /\ run[r].hint = Files
    BY DEF ContainersInit, NewRuntime
  <1>5. \A d \in Dirs, n \in Names : leases[d][n] = {}
    BY DEF ContainersInit
  <1>6. DirsOK /\ LeasesOK
    BY <1>4, <1>5 DEF DirsOK, LeasesOK, Releasing, Dropping
  <1>7. CommandsOK /\ SnapshotsOK /\ LocksExclude /\ LockFilesOK
    BY <1>4 DEF CommandsOK, SnapshotsOK, LocksExclude, LockFilesOK, Commanding, Registering,
       Releasing, Dropping, Critical
  <1> QED BY <1>3, <1>6, <1>7 DEF LeaseInv

\* A stuttering step keeps it.
LEMMA LeaseStutter == LeaseInv /\ UNCHANGED containerVars => LeaseInv'
  <1> SUFFICES ASSUME LeaseInv, UNCHANGED containerVars PROVE LeaseInv'
    OBVIOUS
  <1>1. UNCHANGED <<run, containers, leases, lockFile, commandHolder, faults>>
    BY DEF containerVars
  <1>2. (ContainersTypeOK /\ DirsOK /\ CommandsOK)'
    BY <1>1 DEF LeaseInv, ContainersTypeOK, DirsOK, CommandsOK, Needed
  <1>3. LeasesOK'
    BY <1>1 DEF LeaseInv, LeasesOK
  <1>4. (SnapshotsOK /\ LocksExclude)'
    BY <1>1 DEF LeaseInv, SnapshotsOK, LocksExclude
  <1>5. (Undisturbed => LockFilesOK)'
    BY <1>1 DEF LeaseInv, Undisturbed, Astray, LockFilesOK
  <1> QED BY <1>2, <1>3, <1>4, <1>5 DEF LeaseInv

\* What the types say of a run.
LEMMA RunFacts ==
  ASSUME LeaseInv, NEW r \in Runtimes
  PROVE  /\ run \in [Runtimes -> Runtime] /\ run[r] \in Runtime
         /\ run[r].dir \in Dirs /\ run[r].hint \in Dirs
         /\ run[r].dir \in {Files, r} /\ run[r].hint \in {Files, r}
         /\ run[r].held \subseteq Names /\ run[r].opened \in Nat
         /\ run[r].name \subseteq Skills /\ run[r].active \subseteq Skills
         /\ run[r].pc \in Commanding => run[r].skill \in Skills /\ Needed(r) \in Names
         /\ run[r].pc \in Commanding \ {"ensure"} => run[r].name \in Names
         /\ run[r].pc \in Releasing => run[r].name \in Names
         /\ leases \in [Dirs -> [Names -> SUBSET Runtimes]]
         /\ lockFile \in [Dirs -> [Names -> Nat]]
  <1>1. run \in [Runtimes -> Runtime] /\ run[r] \in Runtime
    BY DEF LeaseInv, ContainersTypeOK
  <1>2. run[r].dir \in Dirs /\ run[r].hint \in Dirs /\ run[r].held \subseteq Names
        /\ run[r].opened \in Nat /\ run[r].name \subseteq Skills /\ run[r].active \subseteq Skills
    BY <1>1 DEF Runtime
  <1>3. run[r].pc \in Commanding => run[r].skill \in Skills /\ Needed(r) \in Names
    <2> SUFFICES ASSUME run[r].pc \in Commanding PROVE run[r].skill \in Skills /\ Needed(r) \in Names
      OBVIOUS
    <2>1. run[r].skill \in Skills
      BY DEF LeaseInv, CommandsOK
    <2>2. Needed(r) \subseteq Skills /\ Needed(r) # {}
      BY <1>2, <2>1 DEF Needed
    <2> QED BY <2>1, <2>2 DEF Names
  <1>4. run[r].pc \in Commanding \ {"ensure"} => run[r].name = Needed(r)
    BY DEF LeaseInv, CommandsOK
  <1>5. run[r].pc \in Releasing => run[r].name \in run[r].held
    BY DEF LeaseInv, LeasesOK
  <1>6. leases \in [Dirs -> [Names -> SUBSET Runtimes]] /\ lockFile \in [Dirs -> [Names -> Nat]]
    BY DEF LeaseInv, ContainersTypeOK
  <1>7. run[r].dir \in {Files, r} /\ run[r].hint \in {Files, r}
    BY DEF LeaseInv, DirsOK
  <1> QED BY <1>1, <1>2, <1>3, <1>4, <1>5, <1>6, <1>7

\* Run r becomes t, and the others stay as they are.
LEMMA OneRun ==
  ASSUME LeaseInv, NEW r \in Runtimes, NEW t, run' = [run EXCEPT ![r] = t]
  PROVE  run'[r] = t /\ \A q \in Runtimes : q # r => run'[q] = run[q]
  BY DEF LeaseInv, ContainersTypeOK

\* The directories a run may work in, and whose they are.
LEMMA DirFacts ==
  ASSUME LeaseInv
  PROVE  /\ Files \in Dirs /\ Files \notin Runtimes
         /\ \A q \in Runtimes : q \in Dirs <=> q \in ShellRuntimes
         /\ \A p, q \in Runtimes : p # q /\ run[p].dir = run[q].dir => run[p].dir = Files
  BY SkillContainersAssumption DEF LeaseInv, DirsOK, Dirs

\* A step of run r that changes neither leases nor lock files.  A run that gives
\* a lease back begins with it; a lock file that is opened is the one that is
\* there; and the lock is waited for.
LEMMA QuietStep ==
  ASSUME LeaseInv, NEW r \in Runtimes, NEW t \in Runtime, run' = [run EXCEPT ![r] = t],
         UNCHANGED <<leases, lockFile>>,
         containers' \in [Names -> {"absent", "created", "running"}],
         commandHolder' \in [Dirs -> Runtimes \cup {NoRuntime}], faults' \in 0 .. MaxFaults,
         t.dir \in {Files, r}, t.hint \in {Files, r},
         run[r].pc \in Leaving => t.pc \in Leaving /\ t.hint = run[r].hint,
         t.pc \in Commanding => commandHolder'[t.dir] = r /\ t.skill \in Skills,
         t.pc \in Commanding \ {"ensure"} => t.name = t.active \cup {t.skill},
         \A q \in Runtimes : q # r /\ run[q].pc \in Commanding => commandHolder'[run[q].dir] = q,
         \A n \in Names, d \in Dirs : r \in leases[d][n] =>
             t.pc = "crashed" \/ n \in t.held \/ (t.pc \in Leaving /\ d # t.hint),
         \A n \in Names : n \in t.held =>
             (\E d \in Dirs : r \in leases[d][n]) \/ (t.pc \in Dropping /\ t.name = n),
         t.pc \in Releasing =>
             /\ t.name \in t.held /\ t.dir = t.hint
             /\ \/ /\ run[r].pc \in Releasing /\ run[r].name = t.name
                   /\ run[r].dir = t.dir /\ run[r].opened = t.opened
                \/ /\ t.opened = lockFile[t.dir][t.name]
                   /\ t.dir = Files /\ Undisturbed' => leases[Files][t.name] # {},
         t.pc \in Dropping => r \notin leases[t.dir][t.name],
         t.pc = "ended" => t.held = {},
         t.pc \in {"remove", "unlink"} =>
             \/ leases[t.dir][t.name] = {}
             \/ run[r].pc = "remove" /\ run[r].dir = t.dir /\ run[r].name = t.name,
         t.pc \in Registering =>
             \/ t.opened = lockFile[t.dir][t.name]
             \/ /\ run[r].pc \in Registering /\ run[r].name = t.name
                /\ run[r].dir = t.dir /\ run[r].opened = t.opened,
         t.pc \in Critical =>
             /\ run[r].name = t.name /\ run[r].dir = t.dir /\ run[r].opened = t.opened
             /\ run[r].pc \in Critical \/ LockFree(r)
  PROVE  LeaseInv'
  <1>1. run'[r] = t /\ \A q \in Runtimes : q # r => run'[q] = run[q]
    BY OneRun
  <1>2. ContainersTypeOK'
    <2>1. run' \in [Runtimes -> Runtime]
      BY DEF LeaseInv, ContainersTypeOK
    <2> QED BY <2>1 DEF LeaseInv, ContainersTypeOK
  <1>3. DirsOK'
    BY <1>1 DEF LeaseInv, DirsOK
  <1>4. CommandsOK'
    BY <1>1 DEF LeaseInv, CommandsOK, Needed
  <1>5. LeasesOK'
    <2> SUFFICES ASSUME NEW q \in Runtimes
                 PROVE  /\ \A n \in Names :
                              /\ \A d \in Dirs : q \in leases[d][n] =>
                                    \/ run'[q].pc = "crashed" \/ n \in run'[q].held
                                    \/ run'[q].pc \in Leaving /\ d # run'[q].hint
                              /\ n \in run'[q].held =>
                                    \/ \E d \in Dirs : q \in leases[d][n]
                                    \/ run'[q].pc \in Dropping /\ run'[q].name = n
                        /\ run'[q].pc \in Releasing => run'[q].name \in run'[q].held
                        /\ run'[q].pc \in Dropping => q \notin leases[run'[q].dir][run'[q].name]
                        /\ run'[q].pc = "ended" => run'[q].held = {}
      BY DEF LeasesOK
    <2>1. CASE q = r
      BY <2>1, <1>1
    <2>2. CASE q # r
      BY <2>2, <1>1 DEF LeaseInv, LeasesOK
    <2> QED BY <2>1, <2>2
  <1>6. SnapshotsOK'
    <2> SUFFICES ASSUME NEW q \in Runtimes, run'[q].pc \in {"remove", "unlink"},
                        run'[q].dir # Files
                 PROVE  leases[run'[q].dir][run'[q].name] = {}
      BY DEF SnapshotsOK
    <2>1. \A o \in Runtimes : run[o].pc \in {"remove", "unlink"} /\ run[o].dir # Files =>
             leases[run[o].dir][run[o].name] = {}
      BY DEF LeaseInv, SnapshotsOK
    <2>2. CASE q = r /\ run[r].pc = "remove" /\ run[r].dir = t.dir /\ run[r].name = t.name
      <3>1. run'[q] = t
        BY <2>2, <1>1
      <3>2. run[r].dir # Files
        BY <2>2, <3>1
      <3>3. leases[run[r].dir][run[r].name] = {}
        BY <2>1, <2>2, <3>2
      <3> QED BY <2>2, <3>1, <3>3
    <2>3. CASE q = r /\ leases[t.dir][t.name] = {}
      BY <2>3, <1>1
    <2>4. CASE q # r
      BY <2>1, <2>4, <1>1
    <2> QED BY <2>2, <2>3, <2>4, <1>1
  <1>7. Undisturbed' => Undisturbed
    <2> SUFFICES ASSUME NEW q \in Runtimes, Astray(q), run[q].pc \in Leaving
                 PROVE  Astray(q)' /\ run'[q].pc \in Leaving
      BY DEF Undisturbed
    <2> QED BY <1>1 DEF Astray
  <1>8. ASSUME Undisturbed' PROVE LockFilesOK'
    <2>1. LockFilesOK
      BY <1>7, <1>8 DEF LeaseInv
    <2> SUFFICES ASSUME NEW q \in Runtimes, run'[q].dir = Files
                 PROVE  /\ run'[q].pc \in Releasing => run'[q].opened = lockFile[Files][run'[q].name]
                        /\ run'[q].pc \in {"remove", "unlink"} => leases[Files][run'[q].name] = {}
                        /\ run'[q].pc \in Registering =>
                              \/ run'[q].opened = lockFile[Files][run'[q].name]
                              \/ /\ leases[Files][run'[q].name] = {}
                                 /\ \A p \in Runtimes :
                                       run'[p].pc \in Releasing /\ run'[p].dir = Files =>
                                           run'[p].name # run'[q].name
      BY DEF LockFilesOK
    <2>2. CASE q = r
      <3>1. run'[q] = t /\ t.dir = Files
        BY <2>2, <1>1
      <3>2. t.pc \in Releasing => t.opened = lockFile[Files][t.name]
        BY <2>1, <3>1 DEF LockFilesOK
      <3>3. ASSUME t.pc \in {"remove", "unlink"}, leases[t.dir][t.name] # {}
            PROVE  FALSE
        <4>1. run[r].pc = "remove" /\ run[r].dir = Files /\ run[r].name = t.name
          BY <3>1, <3>3
        <4> QED BY <2>1, <3>1, <3>3, <4>1 DEF LockFilesOK
      <3>4. ASSUME t.pc \in Registering, t.opened # lockFile[Files][t.name]
            PROVE  /\ leases[Files][t.name] = {}
                   /\ \A p \in Runtimes : run'[p].pc \in Releasing /\ run'[p].dir = Files =>
                         run'[p].name # t.name
        <4>1. t.pc \notin Releasing
          BY <3>4 DEF Registering, Releasing, Dropping
        <4>2. /\ run[r].pc \in Registering /\ run[r].name = t.name
              /\ run[r].dir = Files /\ run[r].opened = t.opened
          BY <3>1, <3>4
        <4>3. leases[Files][run[r].name] = {}
              /\ \A p \in Runtimes : run[p].pc \in Releasing /\ run[p].dir = Files =>
                    run[p].name # run[r].name
          BY <2>1, <3>4, <4>2 DEF LockFilesOK
        <4> QED BY <4>1, <4>2, <4>3, <1>1
      <3> QED BY <3>1, <3>2, <3>3, <3>4
    <2>3. CASE q # r
      <3>1. run'[q] = run[q]
        BY <2>3, <1>1
      <3>2. /\ run[q].pc \in Releasing => run[q].opened = lockFile[Files][run[q].name]
            /\ run[q].pc \in {"remove", "unlink"} => leases[Files][run[q].name] = {}
        BY <2>1, <3>1 DEF LockFilesOK
      <3>3. ASSUME run[q].pc \in Registering, run[q].opened # lockFile[Files][run[q].name]
            PROVE  /\ leases[Files][run[q].name] = {}
                   /\ \A p \in Runtimes : run'[p].pc \in Releasing /\ run'[p].dir = Files =>
                         run'[p].name # run[q].name
        <4>1. leases[Files][run[q].name] = {}
              /\ \A p \in Runtimes : run[p].pc \in Releasing /\ run[p].dir = Files =>
                    run[p].name # run[q].name
          BY <2>1, <3>1, <3>3 DEF LockFilesOK
        <4>2. t.pc \in Releasing /\ t.dir = Files => t.name # run[q].name
          BY <4>1, <1>8
        <4> QED BY <4>1, <4>2, <1>1
      <3> QED BY <3>1, <3>2, <3>3
    <2> QED BY <2>2, <2>3
  <1>9. LocksExclude'
    <2> SUFFICES ASSUME NEW p \in Runtimes, NEW q \in Runtimes, p # q, run'[p].pc \in Critical,
                        run'[q].pc \in Critical, run'[p].dir = run'[q].dir,
                        run'[p].name = run'[q].name, run'[p].opened = run'[q].opened
                 PROVE  FALSE
      BY DEF LocksExclude
    <2>1. run[p].name = run[q].name /\ run[p].dir = run[q].dir /\ run[p].opened = run[q].opened
      BY <1>1
    <2>2. ASSUME NEW o \in Runtimes, o # r, run[o].pc \in Critical, run[o].name = run[r].name,
                 run[o].dir = run[r].dir, run[o].opened = run[r].opened, LockFree(r)
          PROVE  FALSE
      BY <2>2 DEF LockFree
    <2> QED BY <1>1, <2>1, <2>2 DEF LeaseInv, LocksExclude
  <1> QED BY <1>2, <1>3, <1>4, <1>5, <1>6, <1>8, <1>9 DEF LeaseInv

\* What a run with a lease of its own, and without, knows of the lease files
\* until it looks for them at its end.
LEMMA LeaseFacts ==
  ASSUME LeaseInv, NEW r \in Runtimes
  PROVE  /\ run[r].pc \notin Leaving =>
              \A n \in Names : (\E d \in Dirs : r \in leases[d][n]) <=> n \in run[r].held
         /\ run[r].pc \notin Dropping \cup {"crashed"} =>
              \A n \in Names : n \in run[r].held => \E d \in Dirs : r \in leases[d][n]
         /\ run[r].pc \in Leaving \ {"crashed"} =>
              \A n \in Names : r \in leases[run[r].hint][n] => n \in run[r].held
  <1>1. ASSUME NEW n \in Names
        PROVE  /\ \A d \in Dirs : r \in leases[d][n] =>
                     \/ run[r].pc = "crashed" \/ n \in run[r].held
                     \/ run[r].pc \in Leaving /\ d # run[r].hint
               /\ n \in run[r].held =>
                     \/ \E d \in Dirs : r \in leases[d][n]
                     \/ run[r].pc \in Dropping /\ run[r].name = n
    BY DEF LeaseInv, LeasesOK
  <1>2. run[r].hint \in Dirs
    BY RunFacts
  <1>3. Dropping \cup {"crashed"} \subseteq Leaving
    BY DEF Leaving, Releasing
  <1> QED BY <1>1, <1>2, <1>3

\* The types of what a quiet step leaves alone.
LEMMA OtherTypes ==
  ASSUME LeaseInv
  PROVE  /\ containers \in [Names -> {"absent", "created", "running"}]
         /\ commandHolder \in [Dirs -> Runtimes \cup {NoRuntime}] /\ faults \in 0 .. MaxFaults
         /\ Fault => faults' \in 0 .. MaxFaults
         /\ \A q \in Runtimes : run[q].pc \in Commanding => commandHolder[run[q].dir] = q
  BY SkillContainersAssumption DEF LeaseInv, ContainersTypeOK, CommandsOK, Fault

\* The end of a command: its locks are released.
LEMMA ReturnKeeps ==
  ASSUME LeaseInv, NEW r \in Runtimes, run[r].pc \in Commanding, Return(r),
         UNCHANGED <<leases, lockFile>>,
         containers' \in [Names -> {"absent", "created", "running"}], faults' \in 0 .. MaxFaults
  PROVE  LeaseInv'
  <1> DEFINE t == [run[r] EXCEPT !.pc = "idle", !.skill = NoRuntime, !.name = {},
                                 !.dir = Files, !.opened = 0]
  <1>1. run' = [run EXCEPT ![r] = t] /\ t \in Runtime /\ t.pc = "idle" /\ t.held = run[r].held
        /\ t.dir = Files /\ t.hint = run[r].hint
    BY ZenonT(60), RunFacts DEF Return, Runtime, Steps, Dirs
  <1>2. commandHolder' \in [Dirs -> Runtimes \cup {NoRuntime}]
    BY DEF LeaseInv, ContainersTypeOK, Return
  <1>3. \A q \in Runtimes : q # r /\ run[q].pc \in Commanding => commandHolder'[run[q].dir] = q
    <2> SUFFICES ASSUME NEW q \in Runtimes, q # r, run[q].pc \in Commanding
                 PROVE  commandHolder'[run[q].dir] = q
      OBVIOUS
    <2>1. commandHolder[run[q].dir] = q /\ commandHolder[run[r].dir] = r /\ run[q].dir \in Dirs
      BY OtherTypes, RunFacts
    <2> QED BY <2>1, OtherTypes DEF Return
  <1>4. run[r].pc \notin Leaving
    BY DEF Commanding, Registering, Leaving, Releasing, Dropping
  <1>5. \A n \in Names : (\E d \in Dirs : r \in leases[d][n]) <=> n \in t.held
    BY <1>1, <1>4, LeaseFacts
  <1>6. t.dir \in {Files, r} /\ t.hint \in {Files, r}
    BY <1>1, RunFacts
  <1>7. t.pc \notin Commanding \cup Registering \cup Releasing \cup Dropping \cup Critical
                    \cup {"ended", "crashed", "remove", "unlink"}
    BY <1>1 DEF Commanding, Registering, Releasing, Dropping, Critical
  <1> HIDE DEF t
  <1> QED BY <1>1, <1>2, <1>3, <1>4, <1>5, <1>6, <1>7, QuietStep

\* A step of run r that leaves its leases, its container and the lock file it has
\* opened, in a command or between commands.
LEMMA CommandStep ==
  ASSUME LeaseInv, NEW r \in Runtimes, NEW t \in Runtime, run' = [run EXCEPT ![r] = t],
         UNCHANGED <<leases, lockFile, commandHolder>>,
         containers' \in [Names -> {"absent", "created", "running"}], faults' \in 0 .. MaxFaults,
         run[r].pc \in Commanding \ {"ensure"}, t.pc \in Commanding \ {"ensure"},
         t.skill = run[r].skill, t.active = run[r].active, t.name = run[r].name,
         t.dir = run[r].dir, t.hint = run[r].hint,
         t.opened = run[r].opened, t.held = run[r].held,
         t.pc \in Registering => run[r].pc \in Registering,
         t.pc \in Critical => run[r].pc \in Critical \/ LockFree(r)
  PROVE  LeaseInv'
  <1>1. t.pc \notin Releasing \cup Dropping \cup {"remove", "unlink", "ended", "crashed"}
    BY DEF Commanding, Registering, Releasing, Dropping
  <1>2. run[r].pc \notin Leaving
    BY DEF Commanding, Registering, Leaving, Releasing, Dropping
  <1>3. commandHolder'[t.dir] = r /\ t.skill \in Skills /\ t.name = t.active \cup {t.skill}
    BY DEF LeaseInv, CommandsOK, Needed
  <1>4. \A q \in Runtimes : q # r /\ run[q].pc \in Commanding => commandHolder'[run[q].dir] = q
    BY OtherTypes
  <1>5. \A n \in Names : (\E d \in Dirs : r \in leases[d][n]) <=> n \in t.held
    BY <1>2, LeaseFacts
  <1>6. t.dir \in {Files, r} /\ t.hint \in {Files, r}
    BY RunFacts
  <1> QED BY <1>1, <1>2, <1>3, <1>4, <1>5, <1>6, OtherTypes, QuietStep

\* A skill joins the mounts between two commands.
LEMMA ActivateSkillKeeps ==
  ASSUME LeaseInv, NEW r \in Runtimes, NEW s \in Skills, ActivateSkill(r, s)
  PROVE  LeaseInv'
  <1> DEFINE t == [run[r] EXCEPT !.active = @ \cup {s}]
  <1>1. run[r].pc = "idle" /\ run[r].pc \notin Leaving
    BY DEF ActivateSkill, Leaving, Releasing, Dropping
  <1>2. run' = [run EXCEPT ![r] = t] /\ t \in Runtime /\ t.pc = "idle" /\ t.held = run[r].held
        /\ t.dir = run[r].dir /\ t.hint = run[r].hint
    BY <1>1, RunFacts DEF ActivateSkill, Runtime
  <1>3. \A n \in Names : (\E d \in Dirs : r \in leases[d][n]) <=> n \in t.held
    BY <1>1, <1>2, LeaseFacts
  <1>4. t.dir \in {Files, r} /\ t.hint \in {Files, r}
    BY <1>2, RunFacts
  <1>5. t.pc \notin Commanding \cup Registering \cup Releasing \cup Dropping \cup Critical
                    \cup {"ended", "crashed", "remove", "unlink"}
    BY <1>2 DEF Commanding, Registering, Releasing, Dropping, Critical
  <1>6. UNCHANGED <<leases, lockFile, commandHolder, containers, faults>>
    BY DEF ActivateSkill
  <1> HIDE DEF t
  <1> QED BY <1>1, <1>2, <1>3, <1>4, <1>5, <1>6, OtherTypes, QuietStep

\* A command begins with the commands' lock of its directory.
LEMMA RunSkillCommandKeeps ==
  ASSUME LeaseInv, NEW r \in Runtimes, NEW s \in Skills, RunSkillCommand(r, s)
  PROVE  LeaseInv'
  <1>1. PICK d \in Dirs \cap {Files, r} :
        /\ run[r].pc = "idle" /\ commandHolder[d] = NoRuntime
        /\ commandHolder' = [commandHolder EXCEPT ![d] = r]
        /\ run' = [run EXCEPT ![r].pc = "ensure", ![r].skill = s, ![r].dir = d]
        /\ UNCHANGED <<containers, leases, lockFile, faults>>
    BY DEF RunSkillCommand
  <1> DEFINE t == [run[r] EXCEPT !.pc = "ensure", !.skill = s, !.dir = d]
  <1>2. /\ run' = [run EXCEPT ![r] = t]
        /\ t \in Runtime /\ t.pc = "ensure" /\ t.held = run[r].held /\ t.skill = s
        /\ t.dir = d /\ t.hint = run[r].hint
    <2>1. run[r] \in Runtime /\ run \in [Runtimes -> Runtime] /\ d \in Dirs
      BY RunFacts
    <2>2. run' = [run EXCEPT ![r] = t]
      BY <1>1, <2>1 DEF Runtime
    <2>3. t \in Runtime /\ t.pc = "ensure" /\ t.held = run[r].held /\ t.skill = s
          /\ t.dir = d /\ t.hint = run[r].hint
      BY <2>1 DEF Runtime, Steps
    <2> QED BY <2>2, <2>3
  <1>3. run[r].pc \notin Leaving
    BY <1>1 DEF Leaving, Releasing, Dropping
  <1>4. \A n \in Names : (\E e \in Dirs : r \in leases[e][n]) <=> n \in t.held
    BY <1>2, <1>3, LeaseFacts
  <1>5. \A q \in Runtimes : q # r /\ run[q].pc \in Commanding => commandHolder'[run[q].dir] = q
    <2> SUFFICES ASSUME NEW q \in Runtimes, q # r, run[q].pc \in Commanding
                 PROVE  commandHolder'[run[q].dir] = q
      OBVIOUS
    <2>1. commandHolder[run[q].dir] = q /\ run[q].dir \in Dirs
      BY OtherTypes, RunFacts
    <2> QED BY <1>1, <2>1, OtherTypes, SkillContainersAssumption
  <1>6. t.pc \notin Registering \cup Releasing \cup Dropping \cup Critical
                    \cup {"ended", "crashed", "remove", "unlink"}
    BY <1>2 DEF Registering, Releasing, Dropping, Critical
  <1>7. commandHolder' \in [Dirs -> Runtimes \cup {NoRuntime}] /\ commandHolder'[d] = r
    BY <1>1, OtherTypes
  <1>8. t.pc \notin Commanding \ {"ensure"} /\ t.dir \in {Files, r} /\ t.hint \in {Files, r}
    BY <1>2, RunFacts
  <1> HIDE DEF t
  <1> QED BY <1>1, <1>2, <1>3, <1>4, <1>5, <1>6, <1>7, <1>8, OtherTypes, QuietStep

\* A cached container is of the same mounts, or the lock file is opened.
LEMMA EnsureContainerKeeps ==
  ASSUME LeaseInv, NEW r \in Runtimes, EnsureContainer(r)
  PROVE  LeaseInv'
  <1> DEFINE new == lockFile[run[r].dir][Needed(r)]
             t == IF run[r].cached = Needed(r)
                  THEN [run[r] EXCEPT !.pc = "setup", !.name = Needed(r)]
                  ELSE [run[r] EXCEPT !.pc = "lease", !.name = Needed(r), !.opened = new]
  <1>1. run[r].pc = "ensure" /\ UNCHANGED <<containers, leases, lockFile, commandHolder, faults>>
    BY DEF EnsureContainer
  <1>2. run[r].pc \in Commanding /\ Needed(r) \in Names /\ run[r].pc \notin Leaving
    BY <1>1, RunFacts DEF Commanding, Leaving, Releasing, Dropping
  <1>3. new \in Nat /\ Needed(r) \in SUBSET Skills
    BY <1>2, RunFacts DEF Names
  <1>4. run' = [run EXCEPT ![r] = t]
    BY <1>1, RunFacts DEF EnsureContainer, Runtime
  <1>5. t \in Runtime /\ t.pc \in {"setup", "lease"} /\ t.held = run[r].held /\ t.name = Needed(r)
        /\ t.skill = run[r].skill /\ t.active = run[r].active
        /\ t.dir = run[r].dir /\ t.hint = run[r].hint
        /\ (t.pc = "lease" => t.opened = new)
    <2> HIDE DEF new
    <2> QED BY ZenonT(60), <1>3, RunFacts DEF Runtime, Steps
  <1>6. \A n \in Names : (\E d \in Dirs : r \in leases[d][n]) <=> n \in t.held
    BY <1>2, <1>5, LeaseFacts
  <1>7. t.dir \in {Files, r} /\ t.hint \in {Files, r} /\ commandHolder[t.dir] = r
    BY <1>2, <1>5, RunFacts, OtherTypes
  <1>8. t.pc \notin Releasing \cup Dropping \cup Critical \cup {"ended", "crashed", "remove", "unlink"}
        /\ (t.pc \in Registering => t.opened = lockFile[t.dir][t.name]) /\ t.skill \in Skills
        /\ t.name = t.active \cup {t.skill}
    BY <1>2, <1>5, RunFacts DEF Registering, Releasing, Dropping, Critical, Needed
  <1> HIDE DEF t, new
  <1> QED BY <1>1, <1>2, <1>4, <1>5, <1>6, <1>7, <1>8, OtherTypes, QuietStep

\* A step to another place of the code, all else being as it was.
LEMMA GotoFacts ==
  ASSUME LeaseInv, NEW r \in Runtimes, NEW pc \in Steps, Goto(r, pc)
  PROVE  \E t \in Runtime :
            /\ run' = [run EXCEPT ![r] = t]
            /\ t.pc = pc /\ t.skill = run[r].skill /\ t.name = run[r].name
            /\ t.dir = run[r].dir /\ t.hint = run[r].hint /\ t.opened = run[r].opened
            /\ t.held = run[r].held /\ t.active = run[r].active
  <1> DEFINE t == [run[r] EXCEPT !.pc = pc]
  <1>1. run \in [Runtimes -> Runtime] /\ run[r] \in Runtime
    BY RunFacts
  <1>2. run' = [run EXCEPT ![r] = t]
    BY <1>1 DEF Goto, Runtime
  <1>3. t \in Runtime
    BY <1>1 DEF Runtime
  <1>4. t.pc = pc /\ t.skill = run[r].skill /\ t.name = run[r].name
        /\ t.dir = run[r].dir /\ t.hint = run[r].hint
    BY <1>1 DEF Runtime
  <1>5. t.opened = run[r].opened /\ t.held = run[r].held /\ t.active = run[r].active
    BY <1>1 DEF Runtime
  <1> HIDE DEF t
  <1> QED BY <1>2, <1>3, <1>4, <1>5

\* The lock of the opened file is free.
LEMMA LockLeaseKeeps ==
  ASSUME LeaseInv, NEW r \in Runtimes, LockLease(r)
  PROVE  LeaseInv'
  <1>1. run[r].pc = "lease" /\ LockFree(r)
        /\ UNCHANGED <<containers, leases, lockFile, commandHolder, faults>>
    BY DEF LockLease
  <1>2. PICK t \in Runtime :
          /\ run' = [run EXCEPT ![r] = t]
          /\ t.pc = "list" /\ t.skill = run[r].skill /\ t.name = run[r].name
          /\ t.dir = run[r].dir /\ t.hint = run[r].hint /\ t.opened = run[r].opened
          /\ t.held = run[r].held /\ t.active = run[r].active
    BY GotoFacts DEF LockLease, Steps, Critical
  <1>3. run[r].pc \in Registering /\ run[r].pc \in Commanding \ {"ensure"}
        /\ t.pc \in Commanding \ {"ensure"}
    BY <1>1, <1>2 DEF Registering, Commanding
  <1> QED BY <1>1, <1>2, <1>3, OtherTypes, CommandStep

\* A step of docker goes on under the lock, or returns with an error.
LEMMA DockerStep ==
  ASSUME LeaseInv, NEW r \in Runtimes, NEW pc \in {"create", "start", "register"}, Goto(r, pc),
         run[r].pc \in {"list", "create", "start"}, UNCHANGED <<leases, lockFile, commandHolder>>,
         containers' \in [Names -> {"absent", "created", "running"}], faults' \in 0 .. MaxFaults
  PROVE  LeaseInv'
  <1>1. PICK t \in Runtime :
          /\ run' = [run EXCEPT ![r] = t]
          /\ t.pc = pc /\ t.skill = run[r].skill /\ t.name = run[r].name
          /\ t.dir = run[r].dir /\ t.hint = run[r].hint /\ t.opened = run[r].opened
          /\ t.held = run[r].held /\ t.active = run[r].active
    BY GotoFacts DEF Steps, Critical
  <1>2. run[r].pc \in Registering /\ run[r].pc \in Critical /\ run[r].pc \in Commanding \ {"ensure"}
        /\ t.pc \in Commanding \ {"ensure"}
    BY <1>1 DEF Registering, Commanding, Critical
  <1> QED BY <1>1, <1>2, CommandStep

\* The container is registered, started or created.
LEMMA ListContainersKeeps ==
  ASSUME LeaseInv, NEW r \in Runtimes, ListContainers(r)
  PROVE  LeaseInv'
  <1>1. run[r].pc = "list" /\ run[r].pc \in Commanding /\ run[r].name \in Names
    BY RunFacts DEF ListContainers, Commanding, Registering
  <1>2. containers' \in [Names -> {"absent", "created", "running"}] /\ faults' \in 0 .. MaxFaults
        /\ UNCHANGED <<leases, lockFile>>
    BY <1>1, OtherTypes DEF ListContainers
  <1>3. CASE Return(r)
    BY <1>1, <1>2, <1>3, ReturnKeeps
  <1>4. CASE UNCHANGED commandHolder /\ \E pc \in {"create", "start", "register"} : Goto(r, pc)
    BY <1>1, <1>2, <1>4, DockerStep
  <1> QED BY <1>3, <1>4 DEF ListContainers

\* It is created, or docker has refused.
LEMMA CreateContainerKeeps ==
  ASSUME LeaseInv, NEW r \in Runtimes, CreateContainer(r)
  PROVE  LeaseInv'
  <1>1. run[r].pc = "create" /\ run[r].pc \in Commanding /\ run[r].name \in Names
    BY RunFacts DEF CreateContainer, Commanding, Registering
  <1>2. containers' \in [Names -> {"absent", "created", "running"}] /\ faults' \in 0 .. MaxFaults
        /\ UNCHANGED <<leases, lockFile>>
    BY <1>1, OtherTypes DEF CreateContainer
  <1>3. CASE Return(r)
    BY <1>1, <1>2, <1>3, ReturnKeeps
  <1>4. CASE UNCHANGED commandHolder /\ \E pc \in {"create", "start", "register"} : Goto(r, pc)
    BY <1>1, <1>2, <1>4, DockerStep
  <1> QED BY <1>3, <1>4 DEF CreateContainer

\* It is started, or docker has refused.
LEMMA StartContainerKeeps ==
  ASSUME LeaseInv, NEW r \in Runtimes, StartContainer(r)
  PROVE  LeaseInv'
  <1>1. run[r].pc = "start" /\ run[r].pc \in Commanding /\ run[r].name \in Names
    BY RunFacts DEF StartContainer, Commanding, Registering
  <1>2. containers' \in [Names -> {"absent", "created", "running"}] /\ faults' \in 0 .. MaxFaults
        /\ UNCHANGED <<leases, lockFile>>
    BY <1>1, OtherTypes DEF StartContainer
  <1>3. CASE Return(r)
    BY <1>1, <1>2, <1>3, ReturnKeeps
  <1>4. CASE UNCHANGED commandHolder /\ \E pc \in {"create", "start", "register"} : Goto(r, pc)
    BY <1>1, <1>2, <1>4, DockerStep
  <1> QED BY <1>3, <1>4 DEF StartContainer

\* The setup is done, or the command fails.
LEMMA RunSkillSetupKeeps ==
  ASSUME LeaseInv, NEW r \in Runtimes, RunSkillSetup(r)
  PROVE  LeaseInv'
  <1> DEFINE t == [run[r] EXCEPT !.pc = "exec", !.done = @ \cup {run[r].skill}]
  <1>1. run[r].pc = "setup" /\ run[r].pc \in Commanding \ {"ensure"} /\ run[r].skill \in Skills
    BY RunFacts DEF RunSkillSetup, Commanding
  <1>2. containers' \in [Names -> {"absent", "created", "running"}] /\ faults' \in 0 .. MaxFaults
        /\ UNCHANGED <<leases, lockFile>>
    BY OtherTypes DEF RunSkillSetup
  <1>3. CASE Return(r)
    BY <1>1, <1>2, <1>3, ReturnKeeps
  <1>4. CASE run' = [run EXCEPT ![r].pc = "exec", ![r].done = @ \cup {run[r].skill}]
             /\ UNCHANGED commandHolder
    <2>1. run' = [run EXCEPT ![r] = t]
      BY <1>4, RunFacts DEF Runtime
    <2>2. run[r] \in Runtime
      BY RunFacts
    <2>3. t \in Runtime /\ t.pc = "exec"
      BY <1>1, <2>2 DEF Runtime, Steps
    <2>4. t.skill = run[r].skill /\ t.active = run[r].active /\ t.name = run[r].name
      BY <2>2 DEF Runtime
    <2>5. t.held = run[r].held /\ t.opened = run[r].opened
          /\ t.dir = run[r].dir /\ t.hint = run[r].hint
      BY <2>2 DEF Runtime
    <2>6. t.pc \in Commanding \ {"ensure"} /\ t.pc \notin Registering \cup Critical
      BY <2>3 DEF Commanding, Registering, Critical
    <2> HIDE DEF t
    <2> QED BY <1>1, <1>2, <1>4, <2>1, <2>3, <2>4, <2>5, <2>6, CommandStep
  <1> QED BY <1>3, <1>4 DEF RunSkillSetup

\* The command has been executed.
LEMMA ExecReturnsKeeps ==
  ASSUME LeaseInv, NEW r \in Runtimes, ExecReturns(r)
  PROVE  LeaseInv'
  BY ReturnKeeps, OtherTypes DEF ExecReturns, Commanding

\* The end of the run begins.
LEMMA TeardownKeeps ==
  ASSUME LeaseInv, NEW r \in Runtimes, Teardown(r)
  PROVE  LeaseInv'
  <1> DEFINE t == [run[r] EXCEPT !.pc = IF run[r].held = {} THEN "ended" ELSE "release",
                                 !.cached = {}, !.active = {}, !.done = {}]
  <1>1. run[r].pc = "idle" /\ run[r].pc \notin Leaving
        /\ UNCHANGED <<containers, leases, lockFile, commandHolder, faults>>
    BY DEF Teardown, Leaving, Releasing, Dropping
  <1>2. run' = [run EXCEPT ![r] = t]
    BY RunFacts DEF Teardown, Runtime
  <1>3. t \in Runtime /\ t.pc \in {"ended", "release"} /\ t.held = run[r].held
        /\ (t.pc = "ended" => t.held = {}) /\ t.dir = run[r].dir /\ t.hint = run[r].hint
    BY ZenonT(60), RunFacts DEF Runtime, Steps
  <1>4. \A n \in Names : (\E d \in Dirs : r \in leases[d][n]) <=> n \in t.held
    BY <1>1, <1>3, LeaseFacts
  <1>5. t.dir \in {Files, r} /\ t.hint \in {Files, r}
    BY <1>3, RunFacts
  <1>6. t.pc \notin Commanding \cup Registering \cup Releasing \cup Dropping \cup Critical
                    \cup {"crashed", "remove", "unlink"}
    BY <1>3 DEF Commanding, Registering, Releasing, Dropping, Critical
  <1> HIDE DEF t
  <1> QED BY <1>1, <1>2, <1>3, <1>4, <1>5, <1>6, OtherTypes, QuietStep

\* The lock file of a lease of the run is opened.
LEMMA OpenLeaseKeeps ==
  ASSUME LeaseInv, NEW r \in Runtimes, OpenLease(r)
  PROVE  LeaseInv'
  <1>1. run[r].pc = "release" /\ run[r].pc \in Leaving \ {"crashed"} /\ run[r].pc \notin Dropping
        /\ UNCHANGED <<containers, leases, lockFile, commandHolder, faults>>
    BY DEF OpenLease, Leaving, Dropping
  <1>2. PICK n \in run[r].held :
          run' = [run EXCEPT ![r].pc = "unlease", ![r].name = n, ![r].dir = run[r].hint,
                             ![r].opened = lockFile[run[r].hint][n]]
    BY DEF OpenLease
  <1> DEFINE new == lockFile[run[r].hint][n]
             t == [run[r] EXCEPT !.pc = "unlease", !.name = n, !.dir = run[r].hint, !.opened = new]
  <1>3. n \in Names /\ n \in SUBSET Skills /\ new \in Nat /\ run[r].hint \in Dirs
    <2>1. n \in Names /\ run[r].hint \in Dirs /\ lockFile \in [Dirs -> [Names -> Nat]]
      BY RunFacts
    <2> QED BY <2>1 DEF Names
  <1>4. run' = [run EXCEPT ![r] = t]
    BY <1>2, RunFacts DEF Runtime
  <1>5. t \in Runtime /\ t.pc = "unlease" /\ t.held = run[r].held /\ t.name = n
        /\ t.opened = new /\ t.dir = run[r].hint /\ t.hint = run[r].hint
    <2> HIDE DEF new
    <2> QED BY ZenonT(60), <1>3, RunFacts DEF Runtime, Steps
  <1> HIDE DEF t
  <1>6. \A m \in Names : r \in leases[t.hint][m] => m \in t.held
    BY <1>1, <1>5, LeaseFacts
  <1>7. \A m \in Names, d \in Dirs : r \in leases[d][m] => m \in t.held \/ d # t.hint
    BY <1>6
  <1>8. \A m \in Names : m \in t.held => \E d \in Dirs : r \in leases[d][m]
    BY <1>1, <1>5, LeaseFacts
  <1>9. ASSUME t.dir = Files, Undisturbed' PROVE leases[Files][n] # {}
    <2> SUFFICES ASSUME r \notin leases[Files][n] PROVE FALSE
      OBVIOUS
    <2>1. PICK d \in Dirs : r \in leases[d][n]
      BY <1>3, <1>5, <1>8
    <2>2. d = r /\ r \in ShellRuntimes
      BY <1>3, <2>1, DirFacts DEF LeaseInv, DirsOK
    <2>3. run'[r] = t
      BY <1>4, OneRun
    <2>4. Astray(r)'
      BY <1>1, <1>3, <1>5, <1>9, <2>1, <2>2, <2>3, DirFacts DEF Astray
    <2> QED BY <1>5, <1>9, <2>3, <2>4 DEF Undisturbed, Leaving, Releasing
  <1>10. t.pc \notin Commanding \cup Registering \cup Dropping \cup Critical
                    \cup {"ended", "crashed", "remove", "unlink"}
         /\ t.pc \in Leaving /\ t.dir \in {Files, r} /\ t.hint \in {Files, r}
    BY <1>5, RunFacts DEF Commanding, Registering, Leaving, Releasing, Dropping, Critical
  <1> QED BY <1>1, <1>4, <1>5, <1>7, <1>8, <1>9, <1>10, OtherTypes, QuietStep

\* The next lease, or the end of the run: the lease at hand has been removed.
LEMMA NextLeaseKeeps ==
  ASSUME LeaseInv, NEW r \in Runtimes, run[r].pc \in Dropping, NextLease(r),
         UNCHANGED <<leases, lockFile, commandHolder>>,
         containers' \in [Names -> {"absent", "created", "running"}], faults' \in 0 .. MaxFaults
  PROVE  LeaseInv'
  <1> DEFINE left == run[r].held \ {run[r].name}
             t == IF left = {} THEN [NewRuntime EXCEPT !.pc = "ended", !.hint = run[r].hint]
                  ELSE [run[r] EXCEPT !.held = left, !.pc = "release"]
  <1>1. run' = [run EXCEPT ![r] = t]
    BY RunFacts DEF NextLease
  <1>2. t \in Runtime /\ t.pc \in {"ended", "release"} /\ t.held = left
        /\ (t.pc = "ended" => t.held = {}) /\ t.hint = run[r].hint /\ t.dir \in {Files, r}
    BY ZenonT(60), RunFacts, DirFacts DEF Runtime, Steps, NewRuntime
  <1>3. \A n \in Names : n \in t.held => \E d \in Dirs : r \in leases[d][n]
    BY <1>2 DEF LeaseInv, LeasesOK
  <1>4. \A n \in Names : r \in leases[t.hint][n] => n \in t.held
    <2>1. run[r].dir = run[r].hint /\ r \notin leases[run[r].dir][run[r].name]
          /\ run[r].pc \in Leaving \ {"crashed"}
      BY DEF LeaseInv, DirsOK, LeasesOK, Leaving, Releasing, Dropping
    <2> QED BY <1>2, <2>1, LeaseFacts
  <1>5. \A n \in Names, d \in Dirs : r \in leases[d][n] => n \in t.held \/ d # t.hint
    BY <1>4
  <1>6. t.pc \notin Commanding \cup Registering \cup Releasing \cup Dropping \cup Critical
                    \cup {"crashed", "remove", "unlink"}
        /\ t.pc \in Leaving /\ t.hint \in {Files, r}
    BY <1>2, RunFacts DEF Commanding, Registering, Leaving, Releasing, Dropping, Critical
  <1> HIDE DEF t
  <1> QED BY <1>1, <1>2, <1>3, <1>5, <1>6, OtherTypes, QuietStep

\* A step of a removal under the lock.
LEMMA DroppingStep ==
  ASSUME LeaseInv, NEW r \in Runtimes, NEW pc \in {"remove", "unlink"}, Goto(r, pc),
         run[r].pc \in {"check", "remove"},
         run[r].pc = "check" => leases[run[r].dir][run[r].name] = {},
         UNCHANGED <<leases, lockFile, commandHolder>>,
         containers' \in [Names -> {"absent", "created", "running"}], faults' \in 0 .. MaxFaults
  PROVE  LeaseInv'
  <1>1. PICK t \in Runtime :
          /\ run' = [run EXCEPT ![r] = t]
          /\ t.pc = pc /\ t.skill = run[r].skill /\ t.name = run[r].name
          /\ t.dir = run[r].dir /\ t.hint = run[r].hint /\ t.opened = run[r].opened
          /\ t.held = run[r].held /\ t.active = run[r].active
    BY GotoFacts DEF Steps, Critical
  <1>2. run[r].pc \in Dropping /\ run[r].pc \in Releasing /\ run[r].pc \in Critical
        /\ run[r].pc \in Leaving \ {"crashed"}
    BY DEF Dropping, Releasing, Critical, Leaving
  <1>3. t.pc \in Dropping /\ t.pc \in Leaving
        /\ t.pc \notin Commanding \cup Registering \cup {"ended", "crashed"}
    BY <1>1 DEF Commanding, Registering, Dropping, Leaving, Releasing
  <1>4. t.name \in t.held /\ t.dir = t.hint /\ r \notin leases[t.dir][t.name]
    BY <1>1, <1>2 DEF LeaseInv, DirsOK, LeasesOK
  <1>5. \A n \in Names : r \in leases[t.hint][n] => n \in t.held
    BY <1>1, <1>2, LeaseFacts
  <1>6. \A n \in Names, d \in Dirs : r \in leases[d][n] => n \in t.held \/ d # t.hint
    BY <1>5
  <1>7. \A n \in Names : n \in t.held =>
           (\E d \in Dirs : r \in leases[d][n]) \/ (t.pc \in Dropping /\ t.name = n)
    BY <1>1, <1>3 DEF LeaseInv, LeasesOK
  <1>8. t.dir \in {Files, r} /\ t.hint \in {Files, r}
    BY <1>1, RunFacts
  <1>9. \/ leases[t.dir][t.name] = {}
        \/ run[r].pc = "remove" /\ run[r].dir = t.dir /\ run[r].name = t.name
    BY <1>1
  <1>10. \A q \in Runtimes : q # r /\ run[q].pc \in Commanding => commandHolder'[run[q].dir] = q
    BY OtherTypes
  <1>11. /\ run[r].pc \in Releasing /\ run[r].name = t.name
         /\ run[r].dir = t.dir /\ run[r].opened = t.opened
         /\ t.hint = run[r].hint /\ run[r].pc \in Critical
    BY <1>1, <1>2
  <1>12. UNCHANGED <<leases, lockFile>> /\ commandHolder' \in [Dirs -> Runtimes \cup {NoRuntime}]
    BY OtherTypes
  <1>13. run' = [run EXCEPT ![r] = t]
    BY <1>1
  <1>14. \A n \in Names, d \in Dirs : r \in leases[d][n] =>
             t.pc = "crashed" \/ n \in t.held \/ (t.pc \in Leaving /\ d # t.hint)
    BY <1>3, <1>6
  <1>15. t.pc \notin Commanding /\ t.pc \notin Commanding \ {"ensure"} /\ t.pc \notin Registering
         /\ t.pc # "ended" /\ t.pc \in Leaving
    BY <1>3
  <1> QED BY <1>4, <1>7, <1>8, <1>9, <1>10, <1>11, <1>12, <1>13, <1>14, <1>15, QuietStep

\* The container is to be removed when nobody has a lease.
LEMMA ReadLeasesKeeps ==
  ASSUME LeaseInv, NEW r \in Runtimes, ReadLeases(r)
  PROVE  LeaseInv'
  <1>1. run[r].pc = "check" /\ UNCHANGED <<containers, leases, lockFile, commandHolder, faults>>
    BY DEF ReadLeases
  <1>2. CASE leases[run[r].dir][run[r].name] = {}
    BY <1>1, <1>2, OtherTypes, DroppingStep DEF ReadLeases
  <1>3. CASE leases[run[r].dir][run[r].name] # {}
    BY <1>1, <1>3, OtherTypes, NextLeaseKeeps DEF ReadLeases, Dropping
  <1> QED BY <1>2, <1>3

\* The container is removed, or docker has refused.
LEMMA RemoveContainerKeeps ==
  ASSUME LeaseInv, NEW r \in Runtimes, RemoveContainer(r)
  PROVE  LeaseInv'
  <1>1. run[r].pc = "remove" /\ run[r].pc \in Dropping
        /\ UNCHANGED <<leases, lockFile, commandHolder>>
    BY DEF RemoveContainer, Dropping
  <1>2. containers' \in [Names -> {"absent", "created", "running"}] /\ faults' \in 0 .. MaxFaults
    BY OtherTypes DEF RemoveContainer
  <1>3. CASE Goto(r, "unlink")
    BY <1>1, <1>2, <1>3, DroppingStep
  <1>4. CASE NextLease(r)
    BY <1>1, <1>2, <1>4, NextLeaseKeeps
  <1> QED BY <1>3, <1>4 DEF RemoveContainer

\* The run is killed: its leases stay, and its locks do not.
LEMMA CrashKeeps ==
  ASSUME LeaseInv, NEW r \in Runtimes, Crash(r)
  PROVE  LeaseInv'
  <1> DEFINE t == [NewRuntime EXCEPT !.pc = "crashed", !.hint = run[r].hint]
  <1>1. run' = [run EXCEPT ![r] = t] /\ t \in Runtime /\ t.pc = "crashed" /\ t.held = {}
        /\ t.dir = Files /\ t.hint = run[r].hint
    BY RunFacts, DirFacts DEF Crash, NewRuntime, Runtime, Steps
  <1>2. commandHolder' \in [Dirs -> Runtimes \cup {NoRuntime}]
        /\ \A q \in Runtimes, d \in Dirs : q # r /\ commandHolder[d] = q => commandHolder'[d] = q
    BY OtherTypes DEF Crash
  <1>3. \A q \in Runtimes : q # r /\ run[q].pc \in Commanding => commandHolder'[run[q].dir] = q
    BY <1>2, OtherTypes, RunFacts
  <1>4. t.pc \notin Commanding \cup Registering \cup Releasing \cup Dropping \cup Critical
                    \cup {"ended", "remove", "unlink"}
        /\ t.pc \in Leaving /\ t.dir \in {Files, r} /\ t.hint \in {Files, r}
    BY <1>1, RunFacts DEF Commanding, Registering, Leaving, Releasing, Dropping, Critical
  <1>5. UNCHANGED <<containers, leases, lockFile>> /\ faults' \in 0 .. MaxFaults
    BY OtherTypes DEF Crash
  <1> HIDE DEF t
  <1> QED BY <1>1, <1>2, <1>3, <1>4, <1>5, OtherTypes, QuietStep

\* A clean-up touches containers alone.
LEMMA CleanupKeeps ==
  ASSUME LeaseInv, NEW n \in Names, Cleanup(n)
  PROVE  LeaseInv'
  <1>1. containers' \in [Names -> {"absent", "created", "running"}] /\ faults' \in 0 .. MaxFaults
        /\ UNCHANGED <<run, leases, lockFile, commandHolder>>
    BY OtherTypes DEF Cleanup
  <1>2. (ContainersTypeOK /\ DirsOK /\ CommandsOK)'
    BY <1>1 DEF LeaseInv, ContainersTypeOK, DirsOK, CommandsOK, Needed
  <1>3. LeasesOK'
    BY <1>1 DEF LeaseInv, LeasesOK
  <1>4. (SnapshotsOK /\ LocksExclude)'
    BY <1>1 DEF LeaseInv, SnapshotsOK, LocksExclude
  <1>5. (Undisturbed => LockFilesOK)'
    BY <1>1 DEF LeaseInv, Undisturbed, Astray, LockFilesOK
  <1> QED BY <1>2, <1>3, <1>4, <1>5 DEF LeaseInv

\* The lease is registered.  In the workspace nobody is removing the container:
\* whoever gives a lease back has the lock file that is there, and the lock excludes.
LEMMA RegisterLeaseKeeps ==
  ASSUME LeaseInv, NEW r \in Runtimes, RegisterLease(r)
  PROVE  LeaseInv'
  <1> DEFINE n == run[r].name
             e == run[r].dir
             t == [run[r] EXCEPT !.pc = "setup", !.cached = n, !.held = @ \cup {n}, !.hint = e]
  <1>1. run[r].pc = "register" /\ UNCHANGED <<containers, lockFile, commandHolder, faults>>
    BY DEF RegisterLease
  <1>2. n \in Names /\ run[r].pc \in Commanding /\ run[r].pc \in Registering /\ run[r].pc \in Critical
        /\ run[r].pc \in Commanding \ {"ensure"} /\ run[r].pc \notin Leaving
    BY <1>1, RunFacts DEF Commanding, Registering, Critical, Leaving, Releasing, Dropping
  <1>3. e \in Dirs /\ e \in {Files, r} /\ leases \in [Dirs -> [Names -> SUBSET Runtimes]]
    BY RunFacts
  <1>4. /\ leases' \in [Dirs -> [Names -> SUBSET Runtimes]]
        /\ leases'[e][n] = leases[e][n] \cup {r}
        /\ \A d \in Dirs, m \in Names : d # e \/ m # n => leases'[d][m] = leases[d][m]
    <2>1. leases' = [leases EXCEPT ![e][n] = leases[e][n] \cup {r}]
      BY DEF RegisterLease
    <2> HIDE DEF n, e, t
    <2>2. leases' = [leases EXCEPT ![e] = [leases[e] EXCEPT ![n] = leases[e][n] \cup {r}]]
      BY <1>2, <1>3, <2>1
    <2> QED BY <1>2, <1>3, <2>2
  <1>5. run' = [run EXCEPT ![r] = t]
    BY RunFacts DEF RegisterLease, Runtime
  <1>6. t \in Runtime /\ t.pc = "setup" /\ t.held = run[r].held \cup {n} /\ t.name = n
        /\ t.skill = run[r].skill /\ t.active = run[r].active /\ t.dir = e /\ t.hint = e
    <2>1. run[r] \in Runtime /\ run[r].held \subseteq Names /\ n \in SUBSET Skills /\ e \in Dirs
      BY RunFacts
    <2>2. run[r].held \cup {n} \in SUBSET Names
      BY <1>2, <2>1
    <2>3. t \in Runtime
      BY <2>1, <2>2 DEF Runtime, Steps
    <2>4. t.pc = "setup" /\ t.held = run[r].held \cup {n} /\ t.name = n
      BY <2>1 DEF Runtime
    <2>5. t.skill = run[r].skill /\ t.active = run[r].active /\ t.dir = e /\ t.hint = e
      BY <2>1 DEF Runtime
    <2> QED BY <2>3, <2>4, <2>5
  <1>7. run'[r] = t /\ \A q \in Runtimes : q # r => run'[q] = run[q]
    BY <1>5, OneRun
  <1>8. t.pc \in Commanding \ {"ensure"}
        /\ t.pc \notin Registering \cup Releasing \cup Dropping \cup Critical \cup Leaving
                           \cup {"ended", "crashed", "remove", "unlink"}
    BY <1>6 DEF Commanding, Registering, Releasing, Dropping, Critical, Leaving
  <1>9. commandHolder[e] = r /\ n = Needed(r) /\ run[r].skill \in Skills
    BY <1>2 DEF LeaseInv, CommandsOK
  <1>10. \A m \in Names : (\E d \in Dirs : r \in leases[d][m]) <=> m \in run[r].held
    BY <1>2, LeaseFacts
  <1> HIDE DEF n, t
  <1>11. ContainersTypeOK'
    <2>1. run' \in [Runtimes -> Runtime]
      BY <1>5, <1>6, RunFacts
    <2> QED BY <1>1, <1>4, <2>1, OtherTypes DEF LeaseInv, ContainersTypeOK
  <1>12. DirsOK'
    <2> SUFFICES ASSUME NEW q \in Runtimes
                 PROVE  /\ run'[q].dir \in {Files, q} /\ run'[q].hint \in {Files, q}
                        /\ run'[q].pc \in Releasing => run'[q].dir = run'[q].hint
                        /\ \A d \in Dirs, m \in Names : q \in leases'[d][m] => d \in {Files, q}
      BY DEF DirsOK
    <2>1. CASE q = r
      <3>1. \A d \in Dirs, m \in Names : r \in leases[d][m] => d \in {Files, r}
        BY DEF LeaseInv, DirsOK
      <3>2. \A d \in Dirs, m \in Names : r \in leases'[d][m] => d \in {Files, r}
        BY <3>1, <1>2, <1>3, <1>4
      <3> QED BY <2>1, <3>2, <1>3, <1>6, <1>7, <1>8
    <2>2. CASE q # r
      <3>1. \A d \in Dirs, m \in Names : q \in leases'[d][m] => q \in leases[d][m]
        BY <2>2, <1>2, <1>3, <1>4
      <3> QED BY <2>2, <3>1, <1>7 DEF LeaseInv, DirsOK
    <2> QED BY <2>1, <2>2
  <1>13. CommandsOK'
    <2> HIDE DEF e
    <2> SUFFICES ASSUME NEW q \in Runtimes
                 PROVE  /\ run'[q].pc \in Commanding =>
                              commandHolder'[run'[q].dir] = q /\ run'[q].skill \in Skills
                        /\ run'[q].pc \in Commanding \ {"ensure"} => run'[q].name = Needed(q)'
      BY DEF CommandsOK
    <2>1. CASE q = r
      BY <2>1, <1>1, <1>6, <1>7, <1>9 DEF Needed
    <2>2. CASE q # r
      BY <2>2, <1>1, <1>7 DEF LeaseInv, CommandsOK, Needed
    <2> QED BY <2>1, <2>2
  <1>14. LeasesOK'
    <2> SUFFICES ASSUME NEW q \in Runtimes
                 PROVE  /\ \A m \in Names :
                              /\ \A d \in Dirs : q \in leases'[d][m] =>
                                    \/ run'[q].pc = "crashed" \/ m \in run'[q].held
                                    \/ run'[q].pc \in Leaving /\ d # run'[q].hint
                              /\ m \in run'[q].held =>
                                    \/ \E d \in Dirs : q \in leases'[d][m]
                                    \/ run'[q].pc \in Dropping /\ run'[q].name = m
                        /\ run'[q].pc \in Releasing => run'[q].name \in run'[q].held
                        /\ run'[q].pc \in Dropping => q \notin leases'[run'[q].dir][run'[q].name]
                        /\ run'[q].pc = "ended" => run'[q].held = {}
      BY DEF LeasesOK
    <2> HIDE DEF e
    <2>1. CASE q = r
      <3>1. \A m \in Names, d \in Dirs : r \in leases'[d][m] => m \in run'[r].held
        BY <1>2, <1>3, <1>4, <1>6, <1>7, <1>10
      <3>2. \A m \in Names : m \in run'[r].held => \E d \in Dirs : r \in leases'[d][m]
        BY <1>2, <1>3, <1>4, <1>6, <1>7, <1>10
      <3> QED BY <2>1, <3>1, <3>2, <1>7, <1>8
    <2>2. CASE q # r
      <3>1. \A d \in Dirs, m \in Names : q \in leases'[d][m] <=> q \in leases[d][m]
        BY <2>2, <1>2, <1>3, <1>4
      <3>2. run[q].pc \in Dropping => run[q].name \in Names /\ run[q].dir \in Dirs
        BY RunFacts DEF Releasing
      <3> QED BY <2>2, <3>1, <3>2, <1>7 DEF LeaseInv, LeasesOK
    <2> QED BY <2>1, <2>2
  <1>15. SnapshotsOK'
    <2> SUFFICES ASSUME NEW q \in Runtimes, run'[q].pc \in {"remove", "unlink"},
                        run'[q].dir # Files
                 PROVE  leases'[run'[q].dir][run'[q].name] = {}
      BY DEF SnapshotsOK
    <2>1. q # r /\ run'[q] = run[q]
      BY <1>7, <1>8
    <2>2. leases[run[q].dir][run[q].name] = {}
      BY <2>1 DEF LeaseInv, SnapshotsOK
    <2>3. run[q].dir # e /\ run[q].dir \in Dirs /\ run[q].name \in Names
      BY <1>3, <2>1, RunFacts, DirFacts DEF Releasing, Dropping
    <2> QED BY <1>4, <2>1, <2>2, <2>3
  <1>16. Undisturbed' => Undisturbed
    <2> SUFFICES ASSUME NEW q \in Runtimes, Astray(q), run[q].pc \in Leaving
                 PROVE  Astray(q)' /\ run'[q].pc \in Leaving
      BY DEF Undisturbed
    <2>1. q # r /\ run'[q] = run[q]
      BY <1>2, <1>7
    <2>2. PICK m \in Names : q \in leases[q][m]
      BY DEF Astray
    <2>3. q \in leases'[q][m]
      BY <1>2, <1>3, <1>4, <2>1, <2>2, DirFacts DEF Astray
    <2> QED BY <2>1, <2>3 DEF Astray
  <1>17. ASSUME Undisturbed' PROVE LockFilesOK'
    <2>1. LockFilesOK
      BY <1>16, <1>17 DEF LeaseInv
    <2> SUFFICES ASSUME NEW q \in Runtimes, run'[q].dir = Files
                 PROVE  /\ run'[q].pc \in Releasing => run'[q].opened = lockFile[Files][run'[q].name]
                        /\ run'[q].pc \in {"remove", "unlink"} => leases'[Files][run'[q].name] = {}
                        /\ run'[q].pc \in Registering =>
                              \/ run'[q].opened = lockFile[Files][run'[q].name]
                              \/ /\ leases'[Files][run'[q].name] = {}
                                 /\ \A p \in Runtimes :
                                       run'[p].pc \in Releasing /\ run'[p].dir = Files =>
                                           run'[p].name # run'[q].name
      BY <1>1 DEF LockFilesOK
    <2>2. CASE q = r
      BY <2>2, <1>7, <1>8
    <2>3. CASE q # r
      <3>1. run'[q] = run[q] /\ run[q].dir = Files
        BY <2>3, <1>7
      <3>2. \A p \in Runtimes : run'[p].pc \in Releasing => run'[p] = run[p]
        BY <1>7, <1>8
      <3>3. run[q].pc \in {"remove", "unlink"} \cup Registering => run[q].name \in Names
        BY RunFacts DEF Releasing, Dropping, Commanding, Registering
      <3>4. CASE e = Files
        <4>1. run[q].pc \notin Registering
          BY <2>3, <3>1, <3>4, <1>9, OtherTypes DEF Commanding
        <4>2. ASSUME run[q].pc \in {"remove", "unlink"}, run[q].name = n PROVE FALSE
          <5>1. run[q].pc \in Releasing /\ run[q].pc \in Critical
            BY <4>2 DEF Releasing, Dropping, Critical
          <5>2. run[q].opened = lockFile[Files][n]
            BY <2>1, <3>1, <4>2, <5>1 DEF LockFilesOK
          <5>3. run[r].opened = lockFile[Files][n]
            BY <2>1, <3>1, <3>4, <4>2, <5>1, <1>2 DEF LockFilesOK, n
          <5> QED BY <2>3, <3>1, <3>4, <4>2, <5>1, <5>2, <5>3, <1>2 DEF LeaseInv, LocksExclude, n
        <4>3. run[q].pc \in {"remove", "unlink"} => leases'[Files][run[q].name] = {}
          BY <2>1, <3>1, <3>3, <3>4, <4>2, <1>3, <1>4 DEF LockFilesOK
        <4> QED BY <2>1, <3>1, <4>1, <4>3 DEF LockFilesOK
      <3>5. CASE e # Files
        <4>1. run[q].name \in Names => leases'[Files][run[q].name] = leases[Files][run[q].name]
          BY <3>5, <1>3, <1>4, DirFacts
        <4>2. run[q].pc \in Releasing => run[q].opened = lockFile[Files][run[q].name]
          BY <2>1, <3>1 DEF LockFilesOK
        <4>3. run[q].pc \in {"remove", "unlink"} => leases'[Files][run[q].name] = {}
          BY <2>1, <3>1, <3>3, <4>1 DEF LockFilesOK
        <4>4. run[q].pc \in Registering =>
                 \/ run[q].opened = lockFile[Files][run[q].name]
                 \/ /\ leases'[Files][run[q].name] = {}
                    /\ \A p \in Runtimes : run'[p].pc \in Releasing /\ run'[p].dir = Files =>
                          run'[p].name # run[q].name
          BY <2>1, <3>1, <3>2, <3>3, <4>1 DEF LockFilesOK
        <4> QED BY <3>1, <4>2, <4>3, <4>4
      <3> QED BY <3>4, <3>5
    <2> QED BY <2>2, <2>3
  <1>18. LocksExclude'
    BY <1>7, <1>8 DEF LeaseInv, LocksExclude
  <1> QED BY <1>11, <1>12, <1>13, <1>14, <1>15, <1>17, <1>18 DEF LeaseInv

\* The lease is removed under the lock.
LEMMA RemoveLeaseKeeps ==
  ASSUME LeaseInv, NEW r \in Runtimes, RemoveLease(r)
  PROVE  LeaseInv'
  <1> DEFINE n == run[r].name
             e == run[r].dir
  <1>1. run[r].pc = "unlease" /\ LockFree(r) /\ run[r].pc \in Leaving \ {"crashed"}
        /\ run[r].pc \notin Dropping
        /\ UNCHANGED <<containers, lockFile, commandHolder, faults>>
    BY DEF RemoveLease, Leaving, Releasing, Dropping
  <1>2. n \in Names /\ run[r].pc \in Releasing
    BY <1>1, RunFacts DEF Releasing
  <1>3. e \in Dirs /\ e \in {Files, r} /\ leases \in [Dirs -> [Names -> SUBSET Runtimes]]
    BY RunFacts
  <1>4. /\ leases' \in [Dirs -> [Names -> SUBSET Runtimes]]
        /\ leases'[e][n] = leases[e][n] \ {r}
        /\ \A d \in Dirs, m \in Names : d # e \/ m # n => leases'[d][m] = leases[d][m]
    <2>1. leases' = [leases EXCEPT ![e][n] = leases[e][n] \ {r}]
      BY DEF RemoveLease
    <2> HIDE DEF n, e
    <2>2. leases' = [leases EXCEPT ![e] = [leases[e] EXCEPT ![n] = leases[e][n] \ {r}]]
      BY <1>2, <1>3, <2>1
    <2> QED BY <1>2, <1>3, <2>2
  <1>5. PICK t \in Runtime :
          /\ run' = [run EXCEPT ![r] = t]
          /\ t.pc = "check" /\ t.skill = run[r].skill /\ t.name = run[r].name
          /\ t.dir = run[r].dir /\ t.hint = run[r].hint /\ t.opened = run[r].opened
          /\ t.held = run[r].held /\ t.active = run[r].active
    BY GotoFacts DEF RemoveLease, Steps, Critical
  <1>6. run'[r] = t /\ \A q \in Runtimes : q # r => run'[q] = run[q]
    BY <1>5, OneRun
  <1>7. t.pc \in Releasing /\ t.pc \in Dropping /\ t.pc \in Leaving
        /\ t.pc \notin Registering \cup Commanding \cup {"ended", "crashed", "remove", "unlink"}
    BY <1>5 DEF Commanding, Registering, Releasing, Dropping, Leaving
  <1>8. n \in run[r].held /\ e = run[r].hint
    BY <1>2 DEF LeaseInv, LeasesOK, DirsOK
  <1>9. /\ \A m \in Names : r \in leases[e][m] => m \in run[r].held
        /\ \A m \in Names : m \in run[r].held => \E d \in Dirs : r \in leases[d][m]
    BY <1>1, <1>8, LeaseFacts
  <1> HIDE DEF n
  <1>10. \A d \in Dirs, m \in Names : leases'[d][m] \subseteq leases[d][m]
    BY <1>2, <1>3, <1>4
  <1>11. \A q \in Runtimes, d \in Dirs, m \in Names :
            q # r => (q \in leases'[d][m] <=> q \in leases[d][m])
    BY <1>2, <1>3, <1>4
  <1>12. ContainersTypeOK'
    <2>1. run' \in [Runtimes -> Runtime]
      BY <1>5, RunFacts
    <2> QED BY <1>1, <1>4, <2>1, OtherTypes DEF LeaseInv, ContainersTypeOK
  <1>13. DirsOK'
    <2>1. \A q \in Runtimes : run'[q].dir = run[q].dir /\ run'[q].hint = run[q].hint
             /\ (run'[q].pc \in Releasing => run[q].pc \in Releasing)
      BY <1>2, <1>5, <1>6
    <2> QED BY <2>1, <1>10 DEF LeaseInv, DirsOK
  <1>14. CommandsOK'
    <2> HIDE DEF e
    <2> SUFFICES ASSUME NEW q \in Runtimes
                 PROVE  /\ run'[q].pc \in Commanding =>
                              commandHolder'[run'[q].dir] = q /\ run'[q].skill \in Skills
                        /\ run'[q].pc \in Commanding \ {"ensure"} => run'[q].name = Needed(q)'
      BY DEF CommandsOK
    <2>1. CASE q = r
      BY <2>1, <1>6, <1>7
    <2>2. CASE q # r
      BY <2>2, <1>1, <1>6 DEF LeaseInv, CommandsOK, Needed
    <2> QED BY <2>1, <2>2
  <1>15. LeasesOK'
    <2> SUFFICES ASSUME NEW q \in Runtimes
                 PROVE  /\ \A m \in Names :
                              /\ \A d \in Dirs : q \in leases'[d][m] =>
                                    \/ run'[q].pc = "crashed" \/ m \in run'[q].held
                                    \/ run'[q].pc \in Leaving /\ d # run'[q].hint
                              /\ m \in run'[q].held =>
                                    \/ \E d \in Dirs : q \in leases'[d][m]
                                    \/ run'[q].pc \in Dropping /\ run'[q].name = m
                        /\ run'[q].pc \in Releasing => run'[q].name \in run'[q].held
                        /\ run'[q].pc \in Dropping => q \notin leases'[run'[q].dir][run'[q].name]
                        /\ run'[q].pc = "ended" => run'[q].held = {}
      BY DEF LeasesOK
    <2>1. CASE q = r
      <3>1. \A m \in Names, d \in Dirs : r \in leases'[d][m] =>
               m \in run'[r].held \/ d # run'[r].hint
        BY <1>5, <1>6, <1>8, <1>9, <1>10
      <3>2. \A m \in Names : m \in run'[r].held =>
               (\E d \in Dirs : r \in leases'[d][m]) \/ run'[r].name = m
        BY <1>3, <1>4, <1>5, <1>6, <1>9 DEF n
      <3>3. run'[r].name \in run'[r].held /\ r \notin leases'[run'[r].dir][run'[r].name]
        BY <1>4, <1>5, <1>6, <1>8 DEF n
      <3> QED BY <2>1, <3>1, <3>2, <3>3, <1>6, <1>7
    <2>2. CASE q # r
      <3>1. run[q].pc \in Dropping => run[q].name \in Names /\ run[q].dir \in Dirs
        BY RunFacts DEF Releasing
      <3> QED BY <2>2, <3>1, <1>6, <1>11 DEF LeaseInv, LeasesOK
    <2> QED BY <2>1, <2>2
  <1>16. SnapshotsOK'
    <2> SUFFICES ASSUME NEW q \in Runtimes, run'[q].pc \in {"remove", "unlink"},
                        run'[q].dir # Files
                 PROVE  leases'[run'[q].dir][run'[q].name] = {}
      BY DEF SnapshotsOK
    <2>1. q # r /\ run'[q] = run[q]
      BY <1>6, <1>7
    <2>2. leases[run[q].dir][run[q].name] = {}
      BY <2>1 DEF LeaseInv, SnapshotsOK
    <2>3. run[q].dir \in Dirs /\ run[q].name \in Names
      BY <2>1, RunFacts DEF Releasing, Dropping
    <2> QED BY <1>10, <2>1, <2>2, <2>3
  <1>17. Undisturbed' => Undisturbed
    <2> SUFFICES ASSUME NEW q \in Runtimes, Astray(q), run[q].pc \in Leaving
                 PROVE  Astray(q)' /\ run'[q].pc \in Leaving
      BY DEF Undisturbed
    <2>1. run'[q].hint = run[q].hint /\ run'[q].pc \in Leaving
      BY <1>5, <1>6, <1>7
    <2>2. PICK m \in Names : q \in leases[q][m]
      BY DEF Astray
    <2>3. q \in Dirs /\ (q = r => e # r)
      BY <1>8, DirFacts DEF Astray
    <2>4. q \in leases'[q][m]
      BY <1>3, <1>4, <1>11, <2>2, <2>3
    <2> QED BY <2>1, <2>4 DEF Astray
  <1>18. ASSUME Undisturbed' PROVE LockFilesOK'
    <2>1. LockFilesOK
      BY <1>17, <1>18 DEF LeaseInv
    <2> SUFFICES ASSUME NEW q \in Runtimes, run'[q].dir = Files
                 PROVE  /\ run'[q].pc \in Releasing => run'[q].opened = lockFile[Files][run'[q].name]
                        /\ run'[q].pc \in {"remove", "unlink"} => leases'[Files][run'[q].name] = {}
                        /\ run'[q].pc \in Registering =>
                              \/ run'[q].opened = lockFile[Files][run'[q].name]
                              \/ /\ leases'[Files][run'[q].name] = {}
                                 /\ \A p \in Runtimes :
                                       run'[p].pc \in Releasing /\ run'[p].dir = Files =>
                                           run'[p].name # run'[q].name
      BY <1>1 DEF LockFilesOK
    <2>2. CASE q = r
      <3>1. run'[q] = t /\ run[r].dir = Files
        BY <2>2, <1>5, <1>6
      <3>2. run[r].opened = lockFile[Files][run[r].name]
        BY <2>1, <3>1, <1>2 DEF LockFilesOK
      <3> QED BY <3>1, <3>2, <1>5, <1>7
    <2>3. CASE q # r
      <3>1. run'[q] = run[q] /\ run[q].dir = Files
        BY <2>3, <1>6
      <3>2. run[q].pc \in {"remove", "unlink"} \cup Registering => run[q].name \in Names
        BY RunFacts DEF Releasing, Dropping, Commanding, Registering
      <3>3. run[q].name \in Names => leases'[Files][run[q].name] \subseteq leases[Files][run[q].name]
        BY <1>10, DirFacts
      <3>4. \A p \in Runtimes : run'[p].pc \in Releasing /\ run'[p].dir = Files =>
               run[p].pc \in Releasing /\ run[p].dir = Files /\ run'[p].name = run[p].name
        BY <1>2, <1>5, <1>6
      <3>5. run[q].pc \in Releasing => run[q].opened = lockFile[Files][run[q].name]
        BY <2>1, <3>1 DEF LockFilesOK
      <3>6. run[q].pc \in {"remove", "unlink"} => leases'[Files][run[q].name] = {}
        BY <2>1, <3>1, <3>2, <3>3 DEF LockFilesOK
      <3>7. run[q].pc \in Registering =>
               \/ run[q].opened = lockFile[Files][run[q].name]
               \/ /\ leases'[Files][run[q].name] = {}
                  /\ \A p \in Runtimes : run'[p].pc \in Releasing /\ run'[p].dir = Files =>
                        run'[p].name # run[q].name
        BY <2>1, <3>1, <3>2, <3>3, <3>4 DEF LockFilesOK
      <3> QED BY <3>1, <3>5, <3>6, <3>7
    <2> QED BY <2>2, <2>3
  <1>19. LocksExclude'
    <2> SUFFICES ASSUME NEW p \in Runtimes, NEW q \in Runtimes, p # q, run'[p].pc \in Critical,
                        run'[q].pc \in Critical, run'[p].dir = run'[q].dir,
                        run'[p].name = run'[q].name, run'[p].opened = run'[q].opened
                 PROVE  FALSE
      BY DEF LocksExclude
    <2>1. run[p].name = run[q].name /\ run[p].dir = run[q].dir /\ run[p].opened = run[q].opened
      BY <1>5, <1>6
    <2>2. ASSUME NEW o \in Runtimes, o # r, run[o].pc \in Critical, run[o].name = run[r].name,
                 run[o].dir = run[r].dir, run[o].opened = run[r].opened
          PROVE  FALSE
      BY <2>2, <1>1 DEF LockFree
    <2> QED BY <1>6, <2>1, <2>2 DEF LeaseInv, LocksExclude
  <1> QED BY <1>12, <1>13, <1>14, <1>15, <1>16, <1>18, <1>19 DEF LeaseInv

\* The lock file is unlinked: in the workspace, whoever waits for the lock of the
\* old file finds that nobody has a lease and that nobody gives one back.
LEMMA UnlinkLockKeeps ==
  ASSUME LeaseInv, NEW r \in Runtimes, UnlinkLock(r)
  PROVE  LeaseInv'
  <1> DEFINE n == run[r].name
             e == run[r].dir
             left == run[r].held \ {n}
             t == IF left = {} THEN [NewRuntime EXCEPT !.pc = "ended", !.hint = run[r].hint]
                  ELSE [run[r] EXCEPT !.held = left, !.pc = "release"]
  <1>1. run[r].pc = "unlink" /\ UNCHANGED <<containers, leases, commandHolder, faults>>
    BY DEF UnlinkLock
  <1>2. n \in Names /\ run[r].pc \in Releasing /\ run[r].pc \in Dropping /\ run[r].pc \in Critical
        /\ run[r].pc \in Leaving \ {"crashed"}
    BY <1>1, RunFacts DEF Releasing, Dropping, Critical, Leaving
  <1>3. e \in Dirs /\ e \in {Files, r} /\ lockFile \in [Dirs -> [Names -> Nat]]
    BY RunFacts
  <1>4. /\ lockFile' \in [Dirs -> [Names -> Nat]]
        /\ \A d \in Dirs, m \in Names : d # e \/ m # n => lockFile'[d][m] = lockFile[d][m]
    <2>1. lockFile' = [lockFile EXCEPT ![e][n] = @ + 1]
      BY DEF UnlinkLock
    <2> HIDE DEF n, e, t, left
    <2>2. lockFile' = [lockFile EXCEPT ![e] = [lockFile[e] EXCEPT ![n] = lockFile[e][n] + 1]]
      BY <1>2, <1>3, <2>1
    <2> QED BY <1>2, <1>3, <2>2
  <1>5. run' = [run EXCEPT ![r] = t]
    BY RunFacts DEF UnlinkLock, NextLease
  <1>6. t \in Runtime /\ t.pc \in {"ended", "release"} /\ t.held = left
        /\ (t.pc = "ended" => t.held = {}) /\ t.hint = run[r].hint /\ t.dir \in {Files, r}
    BY ZenonT(60), RunFacts, DirFacts DEF Runtime, Steps, NewRuntime
  <1>7. run'[r] = t /\ \A q \in Runtimes : q # r => run'[q] = run[q]
    BY <1>5, OneRun
  <1>8. t.pc \notin Commanding \cup Registering \cup Releasing \cup Dropping \cup Critical
                    \cup {"crashed", "remove", "unlink"}
        /\ t.pc \in Leaving
    BY <1>6 DEF Commanding, Registering, Releasing, Dropping, Critical, Leaving
  <1> HIDE DEF t
  <1>9. \A m \in Names : m \in t.held => \E d \in Dirs : r \in leases[d][m]
    BY <1>6 DEF LeaseInv, LeasesOK
  <1>10. \A m \in Names : r \in leases[t.hint][m] => m \in t.held
    <2>1. run[r].dir = run[r].hint /\ r \notin leases[run[r].dir][run[r].name]
      BY <1>2 DEF LeaseInv, DirsOK, LeasesOK
    <2> QED BY <1>2, <1>6, <2>1, LeaseFacts
  <1> HIDE DEF left, n
  <1>11. ContainersTypeOK'
    <2>1. run' \in [Runtimes -> Runtime]
      BY <1>5, <1>6, RunFacts
    <2> QED BY <1>1, <1>4, <2>1, OtherTypes DEF LeaseInv, ContainersTypeOK
  <1>12. DirsOK'
    <2>1. t.hint \in {Files, r}
      BY <1>6, RunFacts
    <2> QED BY <2>1, <1>1, <1>6, <1>7, <1>8 DEF LeaseInv, DirsOK
  <1>13. CommandsOK'
    BY <1>1, <1>7, <1>8 DEF LeaseInv, CommandsOK, Needed
  <1>14. LeasesOK'
    <2> SUFFICES ASSUME NEW q \in Runtimes
                 PROVE  /\ \A m \in Names :
                              /\ \A d \in Dirs : q \in leases[d][m] =>
                                    \/ run'[q].pc = "crashed" \/ m \in run'[q].held
                                    \/ run'[q].pc \in Leaving /\ d # run'[q].hint
                              /\ m \in run'[q].held =>
                                    \/ \E d \in Dirs : q \in leases[d][m]
                                    \/ run'[q].pc \in Dropping /\ run'[q].name = m
                        /\ run'[q].pc \in Releasing => run'[q].name \in run'[q].held
                        /\ run'[q].pc \in Dropping => q \notin leases[run'[q].dir][run'[q].name]
                        /\ run'[q].pc = "ended" => run'[q].held = {}
      BY <1>1 DEF LeasesOK
    <2>1. CASE q = r
      BY <2>1, <1>6, <1>7, <1>8, <1>9, <1>10
    <2>2. CASE q # r
      BY <2>2, <1>7 DEF LeaseInv, LeasesOK
    <2> QED BY <2>1, <2>2
  <1>15. SnapshotsOK'
    BY <1>1, <1>7, <1>8 DEF LeaseInv, SnapshotsOK
  <1>16. Undisturbed' => Undisturbed
    <2> SUFFICES ASSUME NEW q \in Runtimes, Astray(q), run[q].pc \in Leaving
                 PROVE  Astray(q)' /\ run'[q].pc \in Leaving
      BY DEF Undisturbed
    <2>1. run'[q].hint = run[q].hint /\ run'[q].pc \in Leaving
      BY <1>6, <1>7, <1>8
    <2> QED BY <1>1, <2>1 DEF Astray
  <1>17. ASSUME Undisturbed' PROVE LockFilesOK'
    <2>1. LockFilesOK /\ Undisturbed
      BY <1>16, <1>17 DEF LeaseInv
    <2>2. \A p \in Runtimes : run'[p].pc \in Releasing \cup Registering =>
             p # r /\ run'[p] = run[p]
      BY <1>7, <1>8
    <2>3. CASE e # Files
      <3>1. \A m \in Names : lockFile'[Files][m] = lockFile[Files][m]
        BY <2>3, <1>4, DirFacts
      <3> SUFFICES ASSUME NEW q \in Runtimes, run'[q].dir = Files
                   PROVE  /\ run'[q].pc \in Releasing => run'[q].opened = lockFile'[Files][run'[q].name]
                          /\ run'[q].pc \in {"remove", "unlink"} => leases[Files][run'[q].name] = {}
                          /\ run'[q].pc \in Registering =>
                                \/ run'[q].opened = lockFile'[Files][run'[q].name]
                                \/ /\ leases[Files][run'[q].name] = {}
                                   /\ \A p \in Runtimes :
                                         run'[p].pc \in Releasing /\ run'[p].dir = Files =>
                                             run'[p].name # run'[q].name
        BY <1>1 DEF LockFilesOK
      <3>2. run[q].pc \in Releasing \cup Registering => run[q].name \in Names
        BY RunFacts DEF Commanding, Registering
      <3>3. {"remove", "unlink"} \subseteq Releasing
        BY DEF Releasing, Dropping
      <3> QED BY <2>1, <2>2, <3>1, <3>2, <3>3 DEF LockFilesOK
    <2>4. CASE e = Files
      <3>1. leases[Files][n] = {} /\ run[r].opened = lockFile[Files][n]
        BY <2>1, <2>4, <1>1, <1>2 DEF LockFilesOK, n
      <3>2. ASSUME NEW q \in Runtimes, q # r, run[q].pc \in Releasing, run[q].dir = Files,
                   run[q].name = n
            PROVE  FALSE
        <4>1. CASE run[q].pc \in Dropping
          <5>1. run[q].pc \in Critical
            BY <4>1 DEF Dropping, Critical
          <5>2. run[q].opened = lockFile[Files][n]
            BY <2>1, <3>2 DEF LockFilesOK
          <5> QED BY <1>2, <2>4, <3>1, <3>2, <5>1, <5>2 DEF LeaseInv, LocksExclude, n
        <4>2. CASE run[q].pc \notin Dropping
          <5>1. n \in run[q].held /\ run[q].hint = Files
            BY <3>2 DEF LeaseInv, LeasesOK, DirsOK
          <5>2. PICK d \in Dirs : q \in leases[d][n]
            BY <1>2, <4>2, <5>1 DEF LeaseInv, LeasesOK
          <5>3. d = q /\ q \in ShellRuntimes /\ Files # q
            BY <1>2, <3>1, <5>2, DirFacts DEF LeaseInv, DirsOK
          <5>4. Astray(q) /\ run[q].pc \in Leaving
            BY <1>2, <3>2, <5>1, <5>2, <5>3 DEF Astray, Leaving
          <5> QED BY <2>1, <5>4 DEF Undisturbed
        <4> QED BY <4>1, <4>2
      <3> SUFFICES ASSUME NEW q \in Runtimes, run'[q].dir = Files
                   PROVE  /\ run'[q].pc \in Releasing => run'[q].opened = lockFile'[Files][run'[q].name]
                          /\ run'[q].pc \in {"remove", "unlink"} => leases[Files][run'[q].name] = {}
                          /\ run'[q].pc \in Registering =>
                                \/ run'[q].opened = lockFile'[Files][run'[q].name]
                                \/ /\ leases[Files][run'[q].name] = {}
                                   /\ \A p \in Runtimes :
                                         run'[p].pc \in Releasing /\ run'[p].dir = Files =>
                                             run'[p].name # run'[q].name
        BY <1>1 DEF LockFilesOK
      <3>3. {"remove", "unlink"} \subseteq Releasing
        BY DEF Releasing, Dropping
      <3>4. CASE run'[q].pc \notin Releasing \cup Registering
        BY <3>3, <3>4
      <3>5. CASE run'[q].pc \in Releasing \cup Registering
        <4>1. q # r /\ run'[q] = run[q] /\ run[q].name \in Names
          BY <2>2, <3>5, RunFacts DEF Commanding, Registering
        <4>2. CASE run[q].name = n
          <5>1. run[q].pc \notin Releasing
            BY <3>2, <4>1, <4>2
          <5>2. \A p \in Runtimes : run'[p].pc \in Releasing /\ run'[p].dir = Files => run'[p].name # n
            BY <2>2, <3>2
          <5> QED BY <3>1, <3>3, <4>1, <4>2, <5>1, <5>2
        <4>3. CASE run[q].name # n
          <5>1. lockFile'[Files][run[q].name] = lockFile[Files][run[q].name]
            BY <1>3, <1>4, <2>4, <4>1, <4>3
          <5> QED BY <2>1, <2>2, <4>1, <5>1 DEF LockFilesOK
        <4> QED BY <4>2, <4>3
      <3> QED BY <3>4, <3>5
    <2> QED BY <2>3, <2>4
  <1>18. LocksExclude'
    BY <1>7, <1>8 DEF LeaseInv, LocksExclude
  <1> QED BY <1>11, <1>12, <1>13, <1>14, <1>15, <1>17, <1>18 DEF LeaseInv

-----------------------------------------------------------------------------
\* The invariant, of every behaviour, whether or not scripts call skill commands.
THEOREM LeaseInvariant == ContainersSpec => []LeaseInv
  <1>1. ContainersInit => LeaseInv
    BY LeaseInit
  <1>2. LeaseInv /\ [ContainersNext]_containerVars => LeaseInv'
    <2> SUFFICES ASSUME LeaseInv, [ContainersNext]_containerVars PROVE LeaseInv'
      OBVIOUS
    <2>1. CASE UNCHANGED containerVars
      BY <2>1, LeaseStutter
    <2>2. CASE \E n \in Names : Cleanup(n)
      BY <2>2, CleanupKeeps
    <2>3. ASSUME NEW r \in Runtimes,
                 \/ \E s \in Skills : ActivateSkill(r, s) \/ RunSkillCommand(r, s)
                 \/ EnsureContainer(r) \/ LockLease(r) \/ ListContainers(r)
                 \/ CreateContainer(r) \/ StartContainer(r) \/ RegisterLease(r)
                 \/ RunSkillSetup(r) \/ ExecReturns(r)
          PROVE  LeaseInv'
      BY <2>3, ActivateSkillKeeps, RunSkillCommandKeeps, EnsureContainerKeeps, LockLeaseKeeps,
         ListContainersKeeps, CreateContainerKeeps, StartContainerKeeps, RegisterLeaseKeeps,
         RunSkillSetupKeeps, ExecReturnsKeeps
    <2>4. ASSUME NEW r \in Runtimes,
                 \/ Teardown(r) \/ OpenLease(r) \/ RemoveLease(r) \/ ReadLeases(r)
                 \/ RemoveContainer(r) \/ UnlinkLock(r) \/ Crash(r)
          PROVE  LeaseInv'
      BY <2>4, TeardownKeeps, OpenLeaseKeeps, RemoveLeaseKeeps, ReadLeasesKeeps,
         RemoveContainerKeeps, UnlinkLockKeeps, CrashKeeps
    <2> QED BY <2>1, <2>2, <2>3, <2>4 DEF ContainersNext
  <1> QED BY <1>1, <1>2, PTL DEF ContainersSpec

\* Every runtime, container, lease and lock file is of its type.
THEOREM ContainersTypes == ContainersSpec => []ContainersTypeOK
  <1>1. LeaseInv => ContainersTypeOK
    BY DEF LeaseInv
  <1> QED BY <1>1, LeaseInvariant, PTL

\* A command is executed in the container of its mounts, one at a time in each
\* directory, and a run that has ended has given every lease back but those in
\* the directory where its scripts, or its tools, registered before the last one
\* (skill_exec.go:82-110, 308-335).
THEOREM LeasesAreKept == ContainersSpec => []ContainersAreOwned
  <1>1. ASSUME LeaseInv PROVE CommandRunsInItsMounts
    <2> SUFFICES ASSUME NEW r \in Runtimes, run[r].pc \in {"setup", "exec"}
                 PROVE  /\ Needed(r) \subseteq run[r].name
                        /\ \A q \in Runtimes \ {r} :
                              run[q].dir = run[r].dir => run[q].pc \notin {"setup", "exec"}
      BY DEF CommandRunsInItsMounts
    <2>1. run[r].name = Needed(r) /\ commandHolder[run[r].dir] = r
      BY <1>1 DEF LeaseInv, CommandsOK, Commanding
    <2>2. \A q \in Runtimes : run[q].pc \in {"setup", "exec"} => commandHolder[run[q].dir] = q
      BY <1>1 DEF LeaseInv, CommandsOK, Commanding
    <2> QED BY <2>1, <2>2
  <1>2. ASSUME LeaseInv PROVE EndedRunHoldsNoLease
    <2> SUFFICES ASSUME NEW r \in Runtimes, NEW d \in Dirs, NEW n \in Names,
                        run[r].pc = "ended", r \in leases[d][n]
                 PROVE  r \in ShellRuntimes /\ d # run[r].hint
      BY DEF EndedRunHoldsNoLease
    <2>1. d # run[r].hint
      BY <1>2 DEF LeaseInv, LeasesOK
    <2>2. d \in {Files, r} /\ run[r].hint \in {Files, r}
      BY <1>2 DEF LeaseInv, DirsOK
    <2>3. r \in Dirs
      BY <1>2, <2>1, <2>2, RunFacts
    <2> QED BY <1>2, <2>1, <2>3, DirFacts
  <1>3. LeaseInv => ContainersAreOwned
    BY <1>1, <1>2 DEF ContainersAreOwned
  <1> QED BY <1>3, LeaseInvariant, PTL

\* A container is removed by the end of a run only when nobody has a lease on it
\* where the run had its own, though the lock file may have been replaced in
\* between, unless a run has left a lease in its snapshot that it will not look
\* for there (skill_exec.go:308-310).
THEOREM LastHolder == ContainersSpec => LastHolderRemoves
  <1>1. ASSUME LeaseInv, \A q \in Runtimes : ~Astray(q), NEW r \in Runtimes, run[r].pc = "remove"
        PROVE  leases[run[r].dir][run[r].name] = {}
    <2>1. LockFilesOK
      BY <1>1 DEF LeaseInv, Undisturbed
    <2> QED BY <1>1, <2>1 DEF LeaseInv, SnapshotsOK, LockFilesOK
  <1>2. LeaseInv => [\A r \in Runtimes :
                        /\ run[r].pc = "remove" /\ run'[r].pc = "unlink"
                        /\ \A q \in Runtimes : ~Astray(q)
                        => leases[run[r].dir][run[r].name] = {}]_containerVars
    BY <1>1
  <1> QED BY <1>2, LeaseInvariant, PTL DEF LastHolderRemoves

-----------------------------------------------------------------------------
(* The tool policy (ToolState).                                            *)

\* What a runtime is made of.
RuntimeRecords ==
    [on : BOOLEAN, catalog : SUBSET AllTools, skill : BOOLEAN,
     enabled : SUBSET AllTools, pinned : SUBSET AllTools, revealed : SUBSET AllTools]

\* Every variable is of its type, and a runtime enables what is in its catalog.
PolicyTyped ==
    /\ runtime \in [AgentRunIds -> RuntimeRecords]
    /\ saved \in [AgentRunIds -> ToolSets \cup {Unset}]
    /\ savedSkill \in [AgentRunIds -> BOOLEAN]
    /\ planning \in [AgentRunIds -> BOOLEAN]
    /\ executions \in [AgentRunIds -> 0 .. MaxExecutions]
    /\ spawned.parent \in ToolSets \cup {Unset}
    /\ spawned.selection \in Selections \cup {NoSelection}
    /\ \A r \in AgentRunIds : runtime[r].enabled \subseteq runtime[r].catalog

\* What the child may be offered: the parent's tools, what the spawn asked for,
\* what its mode needs, and search_tools.
ChildBound ==
    spawned.parent.enabled \cup spawned.selection.enable
        \cup (IF spawned.selection.enabled = NoSet THEN {} ELSE spawned.selection.enabled)
        \cup (IF planning[ChildRun] THEN PlanTools ELSE {}) \cup {SearchTool}

\* There is a child once it was spawned, with a stored state from then on, and
\* both its runtime and its stored state keep to the bound.
ChildKept ==
    /\ runtime[ChildRun].catalog \cap Restricted = {}
    /\ saved[ChildRun] # Unset =>
          spawned.parent # Unset /\ saved[ChildRun].enabled \subseteq ChildBound
    /\ runtime[ChildRun].on =>
          saved[ChildRun] # Unset /\ runtime[ChildRun].enabled \subseteq ChildBound

PolicyInv == PolicyTyped /\ ChildKept /\ HiddenToolsCanBeFound

LEMMA RunIds == RootRun # ChildRun /\ AgentRunIds = {RootRun, ChildRun}
  BY DEF RootRun, ChildRun, AgentRunIds

\* A set that is asked for or stored is one of tools, and so is what is resolved
\* from them; what is hidden then can be found.
LEMMA ResolvedFacts ==
  ASSUME NEW catalog \in SUBSET AllTools, NEW kept \in ToolSets \cup {Unset},
         NEW sel \in Selections \cup {NoSelection}, NEW plan \in BOOLEAN,
         SearchTool \in catalog,
         NEW tools, tools = ResolveToolState(catalog, kept, sel, plan)
  PROVE  /\ tools \in ToolSets
         /\ tools.enabled \subseteq catalog
         /\ ~ tools.enabled \subseteq Visible(tools) \cup {SearchTool} =>
               SearchTool \in Visible(tools)
         /\ kept # Unset => tools.enabled \subseteq
               kept.enabled \cup sel.enable
                 \cup (IF sel.enabled = NoSet THEN {} ELSE sel.enabled)
                 \cup (IF plan THEN PlanTools ELSE {}) \cup {SearchTool}
<1> DEFINE on == EnabledIn(catalog, kept, sel, plan)
           pins == PinnedIn(catalog, kept, sel, plan)
           shown == RevealedIn(catalog, kept, sel, plan)
           search == IF on \subseteq pins \cup shown \cup {SearchTool} THEN {}
                     ELSE {SearchTool} \cap catalog
<1>1. on \subseteq catalog /\ pins \subseteq on /\ shown \subseteq on
  BY DEF EnabledIn, PinnedIn, RevealedIn
<1>2. tools = [enabled |-> on \cup search, pinned |-> pins \cup search, revealed |-> shown]
  BY DEF ResolveToolState
<1>3. search \subseteq {SearchTool} /\ search \subseteq catalog
  OBVIOUS
<1>4. ~ on \subseteq pins \cup shown \cup {SearchTool} => SearchTool \in search
  OBVIOUS
<1>5. kept # Unset => kept \in ToolSets /\ kept.enabled # NoSet
  BY ToolStateAssumption DEF ToolSets
<1>6. kept # Unset => on \subseteq
          kept.enabled \cup sel.enable
            \cup (IF sel.enabled = NoSet THEN {} ELSE sel.enabled)
            \cup (IF plan THEN PlanTools ELSE {})
  BY <1>5 DEF EnabledIn, Latest
<1> HIDE DEF on, pins, shown, search
<1>7. tools \in ToolSets
  BY <1>1, <1>2, <1>3 DEF ToolSets
<1>8. tools.enabled \subseteq catalog
  BY <1>1, <1>2, <1>3
<1>9. ASSUME ~ tools.enabled \subseteq Visible(tools) \cup {SearchTool}
      PROVE  SearchTool \in Visible(tools)
  BY <1>9, <1>1, <1>2, <1>3, <1>4 DEF Visible
<1>10. kept # Unset => tools.enabled \subseteq
          kept.enabled \cup sel.enable
            \cup (IF sel.enabled = NoSet THEN {} ELSE sel.enabled)
            \cup (IF plan THEN PlanTools ELSE {}) \cup {SearchTool}
  BY <1>6, <1>2, <1>3
<1>11. QED
  BY <1>7, <1>8, <1>9, <1>10

\* Revealing changes what is revealed, and that to the good.
LEMMA RevealedFacts ==
  ASSUME NEW state \in RuntimeRecords, NEW ids
  PROVE  /\ Revealed(state, ids) \in RuntimeRecords
         /\ Revealed(state, ids).on = state.on
         /\ Revealed(state, ids).catalog = state.catalog
         /\ Revealed(state, ids).skill = state.skill
         /\ Revealed(state, ids).enabled = state.enabled
         /\ Revealed(state, ids).pinned = state.pinned
         /\ Visible(state) \subseteq Visible(Revealed(state, ids))
<1> DEFINE more == (ids \cap state.enabled \cap state.catalog) \ state.pinned
<1>1. Revealed(state, ids) = [state EXCEPT !.revealed = @ \cup more]
  BY DEF Revealed
<1>2. more \subseteq AllTools
  BY DEF RuntimeRecords
<1> HIDE DEF more
<1>3. QED
  BY <1>1, <1>2 DEF RuntimeRecords, Visible

LEMMA CatalogFacts ==
  ASSUME NEW r \in AgentRunIds, NEW up \in BOOLEAN
  PROVE  /\ Catalog(r, up) \subseteq AllTools
         /\ SearchTool \in Catalog(r, up)
         /\ r = ChildRun => Catalog(r, up) \cap Restricted = {}
  BY ToolStateAssumption DEF Catalog, AllTools

-----------------------------------------------------------------------------
LEMMA PolicyStart == ToolStateInit => PolicyInv
<1> SUFFICES ASSUME ToolStateInit PROVE PolicyInv
  OBVIOUS
<1> USE DEF ToolStateInit
<1>1. Idle \in RuntimeRecords
  BY DEF Idle, RuntimeRecords
<1>2. PolicyTyped
  <2>1. MaxExecutions \in Nat
    BY ToolStateAssumption
  <2>2. \A r \in AgentRunIds : runtime[r].enabled \subseteq runtime[r].catalog
    BY DEF Idle
  <2>3. executions \in [AgentRunIds -> 0 .. MaxExecutions]
    BY <2>1
  <2>4. QED
    BY <1>1, <2>2, <2>3 DEF PolicyTyped
<1>3. ChildKept
  BY RunIds DEF ChildKept, Idle
<1>4. HiddenToolsCanBeFound
  BY DEF HiddenToolsCanBeFound, Idle
<1>5. QED
  BY <1>2, <1>3, <1>4 DEF PolicyInv

\* The step of one runtime to another that enables the same.
LEMMA SameTools ==
  ASSUME PolicyInv, NEW r \in AgentRunIds, NEW new \in RuntimeRecords,
         runtime' = [runtime EXCEPT ![r] = new],
         runtime[r].on, new.on, new.catalog = runtime[r].catalog,
         new.enabled = runtime[r].enabled,
         Visible(runtime[r]) \subseteq Visible(new),
         UNCHANGED <<saved, savedSkill, planning, spawned, executions>>
  PROVE  PolicyInv'
<1> USE DEF PolicyInv
<1>1. \A q \in AgentRunIds : runtime'[q] = IF q = r THEN new ELSE runtime[q]
  BY DEF PolicyTyped
<1>2. PolicyTyped'
  <2>1. runtime' \in [AgentRunIds -> RuntimeRecords]
    BY DEF PolicyTyped
  <2>2. \A q \in AgentRunIds : runtime'[q].enabled \subseteq runtime'[q].catalog
    BY <1>1 DEF PolicyTyped
  <2>3. QED
    BY <2>1, <2>2 DEF PolicyTyped
<1>3. ChildBound' = ChildBound
  BY DEF ChildBound
<1>4. ChildKept'
  BY <1>1, <1>3, RunIds DEF ChildKept
<1>5. HiddenToolsCanBeFound'
  <2> SUFFICES ASSUME NEW q \in AgentRunIds, runtime'[q].on,
                      ~ runtime'[q].enabled \subseteq Visible(runtime'[q]) \cup {SearchTool}
               PROVE  SearchTool \in Visible(runtime'[q])
    BY DEF HiddenToolsCanBeFound, Visible
  <2>1. CASE q = r
    BY <2>1, <1>1 DEF HiddenToolsCanBeFound
  <2>2. CASE q # r
    BY <2>2, <1>1 DEF HiddenToolsCanBeFound
  <2>3. QED
    BY <2>1, <2>2
<1>6. QED
  BY <1>2, <1>4, <1>5

LEMMA BeginKeeps ==
  ASSUME PolicyInv, NEW r \in AgentRunIds, NEW sel \in Selections \cup {NoSelection},
         NEW plan \in BOOLEAN, NEW up \in BOOLEAN, NEW requested \in BOOLEAN,
         BeginExecution(r, sel, plan, up, requested),
         r = ChildRun => /\ saved[r] # Unset
                         /\ sel = spawned.selection /\ plan = planning[r]
  PROVE  PolicyInv'
<1> DEFINE catalog == Catalog(r, up)
           tools == ResolveToolState(catalog, saved[r], sel, plan)
           built == [on |-> TRUE, catalog |-> catalog, skill |-> requested,
                     enabled |-> tools.enabled, pinned |-> tools.pinned,
                     revealed |-> tools.revealed]
           wanted == IF AutorevealTools = {} THEN CommandTools ELSE AutorevealTools
           begun == IF requested THEN Revealed(built, wanted) ELSE built
<1> USE DEF PolicyInv
<1>1. /\ executions[RootRun] + executions[ChildRun] < MaxExecutions
      /\ executions' = [executions EXCEPT ![r] = @ + 1]
      /\ planning' = [planning EXCEPT ![r] = plan]
      /\ runtime' = [runtime EXCEPT ![r] = begun]
      /\ saved' = [saved EXCEPT ![r] = ToolsOf(begun)]
      /\ savedSkill' = [savedSkill EXCEPT ![r] = requested]
      /\ spawned' = spawned
  BY Zenon DEF BeginExecution, Kept
<1>2. /\ catalog \in SUBSET AllTools
      /\ SearchTool \in catalog
      /\ r = ChildRun => catalog \cap Restricted = {}
  BY CatalogFacts
<1>3. saved[r] \in ToolSets \cup {Unset}
  BY DEF PolicyTyped
<1>4. /\ tools \in ToolSets
      /\ tools.enabled \subseteq catalog
      /\ ~ tools.enabled \subseteq Visible(tools) \cup {SearchTool} =>
            SearchTool \in Visible(tools)
      /\ saved[r] # Unset => tools.enabled \subseteq
            saved[r].enabled \cup sel.enable
              \cup (IF sel.enabled = NoSet THEN {} ELSE sel.enabled)
              \cup (IF plan THEN PlanTools ELSE {}) \cup {SearchTool}
  <2>1. tools = ResolveToolState(catalog, saved[r], sel, plan)
    OBVIOUS
  <2> HIDE DEF catalog, tools
  <2>2. tools \in ToolSets
    BY <2>1, <1>2, <1>3, ResolvedFacts
  <2>3. tools.enabled \subseteq catalog
    BY SMTT(30), <2>1, <1>2, <1>3, ResolvedFacts
  <2>4. ~ tools.enabled \subseteq Visible(tools) \cup {SearchTool} =>
            SearchTool \in Visible(tools)
    BY <2>1, <1>2, <1>3, ResolvedFacts DEF Visible
  <2>5. saved[r] # Unset => tools.enabled \subseteq
            saved[r].enabled \cup sel.enable
              \cup (IF sel.enabled = NoSet THEN {} ELSE sel.enabled)
              \cup (IF plan THEN PlanTools ELSE {}) \cup {SearchTool}
    BY <2>1, <1>2, <1>3, ResolvedFacts
  <2>6. QED
    BY <2>2, <2>3, <2>4, <2>5
<1> HIDE DEF catalog, tools
<1>5. built \in RuntimeRecords
  BY <1>2, <1>4 DEF RuntimeRecords, ToolSets
<1>6. Visible(built) = Visible(tools)
  BY DEF Visible
<1>7. /\ built.on /\ built.catalog = catalog /\ built.enabled = tools.enabled
  OBVIOUS
<1> HIDE DEF built
<1>8. /\ begun \in RuntimeRecords
      /\ begun.on /\ begun.catalog = catalog /\ begun.enabled = tools.enabled
      /\ Visible(tools) \subseteq Visible(begun)
  <2>1. CASE requested
    <3> HIDE DEF wanted
    <3> QED
      BY <2>1, <1>5, <1>6, <1>7, RevealedFacts
  <2>2. CASE ~ requested
    BY <2>2, <1>5, <1>6, <1>7
  <2>3. QED
    BY <2>1, <2>2
<1> HIDE DEF begun
<1>9. ToolsOf(begun) \in ToolSets /\ ToolsOf(begun).enabled = tools.enabled
  BY <1>8 DEF ToolsOf, RuntimeRecords, ToolSets
<1>10. ToolsOf(begun) # Unset
  BY <1>9, ToolStateAssumption DEF Unset, ToolSets
<1>11. \A q \in AgentRunIds : /\ runtime'[q] = IF q = r THEN begun ELSE runtime[q]
                              /\ saved'[q] = IF q = r THEN ToolsOf(begun) ELSE saved[q]
                              /\ planning'[q] = IF q = r THEN plan ELSE planning[q]
  BY <1>1 DEF PolicyTyped
<1>12. PolicyTyped'
  <2>1. runtime' \in [AgentRunIds -> RuntimeRecords]
    BY <1>1, <1>8 DEF PolicyTyped
  <2>2. saved' \in [AgentRunIds -> ToolSets \cup {Unset}]
    BY <1>1, <1>9 DEF PolicyTyped
  <2>3. savedSkill' \in [AgentRunIds -> BOOLEAN] /\ planning' \in [AgentRunIds -> BOOLEAN]
    BY <1>1 DEF PolicyTyped
  <2>4. executions' \in [AgentRunIds -> 0 .. MaxExecutions]
    <3>1. MaxExecutions \in Nat
      BY ToolStateAssumption
    <3>2. executions[r] + 1 \in 0 .. MaxExecutions
      BY <1>1, <3>1, RunIds DEF PolicyTyped
    <3>3. QED
      BY <1>1, <3>2 DEF PolicyTyped
  <2>5. \A q \in AgentRunIds : runtime'[q].enabled \subseteq runtime'[q].catalog
    BY <1>11, <1>8, <1>4 DEF PolicyTyped
  <2>6. QED
    BY <1>1, <2>1, <2>2, <2>3, <2>4, <2>5 DEF PolicyTyped
<1>13. ChildBound' = ChildBound
  BY <1>1, <1>11, RunIds DEF ChildBound
<1>14. ChildKept'
  <2>1. CASE r = ChildRun
    <3>1. saved[r] # Unset /\ spawned.parent # Unset /\ saved[r].enabled \subseteq ChildBound
      BY <2>1 DEF ChildKept
    <3>2. tools.enabled \subseteq ChildBound
      BY <2>1, <3>1, <1>4 DEF ChildBound
    <3>3. QED
      BY <2>1, <3>1, <3>2, <1>1, <1>2, <1>8, <1>9, <1>10, <1>11, <1>13 DEF ChildKept
  <2>2. CASE r # ChildRun
    BY <2>2, <1>1, <1>11, <1>13, RunIds DEF ChildKept
  <2>3. QED
    BY <2>1, <2>2
<1>15. HiddenToolsCanBeFound'
  <2> SUFFICES ASSUME NEW q \in AgentRunIds, runtime'[q].on,
                      ~ runtime'[q].enabled \subseteq Visible(runtime'[q]) \cup {SearchTool}
               PROVE  SearchTool \in Visible(runtime'[q])
    BY DEF HiddenToolsCanBeFound, Visible
  <2>1. CASE q = r
    BY <2>1, <1>11, <1>8, <1>4
  <2>2. CASE q # r
    BY <2>2, <1>11 DEF HiddenToolsCanBeFound
  <2>3. QED
    BY <2>1, <2>2
<1>16. QED
  BY <1>12, <1>14, <1>15

LEMMA SpawnKeeps ==
  ASSUME PolicyInv, NEW sel \in Selections, SpawnAgent(sel)
  PROVE  PolicyInv'
<1> DEFINE tools == ToolsOf(runtime[RootRun])
<1> USE DEF PolicyInv
<1>1. /\ spawned.parent = Unset
      /\ spawned' = [parent |-> tools, selection |-> sel]
      /\ saved' = [saved EXCEPT ![ChildRun] = tools]
      /\ planning' = [planning EXCEPT ![ChildRun] = planning[RootRun]]
      /\ UNCHANGED <<runtime, savedSkill, executions>>
  BY DEF SpawnAgent
<1>2. tools \in ToolSets
  BY RunIds DEF ToolsOf, PolicyTyped, RuntimeRecords, ToolSets
<1>3. tools # Unset
  BY <1>2, ToolStateAssumption DEF Unset, ToolSets
<1> HIDE DEF tools
<1>4. PolicyTyped'
  BY <1>1, <1>2, RunIds DEF PolicyTyped
<1>5. ~ runtime[ChildRun].on
  BY <1>1 DEF ChildKept
<1>6. saved'[ChildRun] = tools /\ spawned'.parent = tools
  BY <1>1, RunIds DEF PolicyTyped
<1>7. tools.enabled \subseteq ChildBound'
  BY <1>6 DEF ChildBound
<1>8. ChildKept'
  BY <1>1, <1>3, <1>5, <1>6, <1>7 DEF ChildKept
<1>9. HiddenToolsCanBeFound'
  BY <1>1 DEF HiddenToolsCanBeFound, Visible
<1>10. QED
  BY <1>4, <1>8, <1>9

LEMMA PersistKeeps ==
  ASSUME PolicyInv, NEW r \in AgentRunIds, PersistProgress(r)
  PROVE  PolicyInv'
<1> DEFINE tools == ToolsOf(runtime[r])
<1> USE DEF PolicyInv
<1>1. /\ runtime[r].on
      /\ saved' = [saved EXCEPT ![r] = tools]
      /\ savedSkill' = [savedSkill EXCEPT ![r] = runtime[r].skill]
      /\ UNCHANGED <<runtime, planning, spawned, executions>>
  BY DEF PersistProgress
<1>2. tools \in ToolSets /\ tools.enabled = runtime[r].enabled
  BY DEF ToolsOf, PolicyTyped, RuntimeRecords, ToolSets
<1>3. tools # Unset
  BY <1>2, ToolStateAssumption DEF Unset, ToolSets
<1>4. runtime[r].skill \in BOOLEAN
  BY DEF PolicyTyped, RuntimeRecords
<1> HIDE DEF tools
<1>5. PolicyTyped'
  BY <1>1, <1>2, <1>4 DEF PolicyTyped
<1>6. ChildBound' = ChildBound
  BY <1>1 DEF ChildBound
<1>7. \A q \in AgentRunIds : saved'[q] = IF q = r THEN tools ELSE saved[q]
  BY <1>1 DEF PolicyTyped
<1>8. ChildKept'
  BY <1>1, <1>2, <1>3, <1>6, <1>7, RunIds DEF ChildKept
<1>9. HiddenToolsCanBeFound'
  BY <1>1 DEF HiddenToolsCanBeFound, Visible
<1>10. QED
  BY <1>5, <1>8, <1>9

LEMMA EndKeeps ==
  ASSUME PolicyInv, NEW r \in AgentRunIds, EndExecution(r)
  PROVE  PolicyInv'
<1> USE DEF PolicyInv
<1>1. /\ runtime' = [runtime EXCEPT ![r] = Idle]
      /\ UNCHANGED <<saved, savedSkill, planning, spawned, executions>>
  BY DEF EndExecution
<1>2. Idle \in RuntimeRecords /\ ~ Idle.on /\ Idle.catalog = {} /\ Idle.enabled = {}
  BY DEF Idle, RuntimeRecords
<1>3. \A q \in AgentRunIds : runtime'[q] = IF q = r THEN Idle ELSE runtime[q]
  BY <1>1 DEF PolicyTyped
<1>4. PolicyTyped'
  BY <1>1, <1>2, <1>3 DEF PolicyTyped
<1>5. ChildBound' = ChildBound
  BY <1>1 DEF ChildBound
<1>6. ChildKept'
  BY <1>1, <1>2, <1>3, <1>5, RunIds DEF ChildKept
<1>7. HiddenToolsCanBeFound'
  BY <1>2, <1>3 DEF HiddenToolsCanBeFound, Visible
<1>8. QED
  BY <1>4, <1>6, <1>7

-----------------------------------------------------------------------------
LEMMA PolicyStep == PolicyInv /\ [ToolStateNext]_toolVars => PolicyInv'
<1> SUFFICES ASSUME PolicyInv, [ToolStateNext]_toolVars PROVE PolicyInv'
  OBVIOUS
<1>1. ASSUME NEW sel \in Selections, NEW plan \in BOOLEAN, NEW up \in BOOLEAN,
             NEW requested \in BOOLEAN, BeginRoot(sel, plan, up, requested)
      PROVE  PolicyInv'
  BY <1>1, BeginKeeps, RunIds DEF BeginRoot
<1>2. ASSUME NEW up \in BOOLEAN, BeginChild(up)
      PROVE  PolicyInv'
  <2>1. /\ spawned.selection \in Selections \cup {NoSelection}
        /\ planning[ChildRun] \in BOOLEAN
    BY RunIds DEF PolicyInv, PolicyTyped
  <2>2. /\ saved[ChildRun] # Unset
        /\ BeginExecution(ChildRun, spawned.selection, planning[ChildRun], up, FALSE)
    BY <1>2 DEF BeginChild
  <2>3. QED
    BY <2>1, <2>2, BeginKeeps, RunIds
<1>3. ASSUME NEW sel \in Selections, SpawnAgent(sel)
      PROVE  PolicyInv'
  BY <1>3, SpawnKeeps
<1>4. ASSUME NEW r \in AgentRunIds, SearchTools(r)
      PROVE  PolicyInv'
  <2>1. runtime[r] \in RuntimeRecords
    BY DEF PolicyInv, PolicyTyped
  <2>2. PICK ids \in SUBSET (runtime[r].enabled \ Visible(runtime[r])) :
          runtime' = [runtime EXCEPT ![r] = Revealed(@, ids)]
    BY <1>4 DEF SearchTools
  <2>3. runtime[r].on /\ UNCHANGED <<saved, savedSkill, planning, spawned, executions>>
    BY <1>4 DEF SearchTools, Calls
  <2>4. runtime' = [runtime EXCEPT ![r] = Revealed(runtime[r], ids)]
    BY <2>2
  <2>5. QED
    BY <2>1, <2>3, <2>4, RevealedFacts, SameTools
<1>5. ASSUME NEW r \in AgentRunIds, SkillActivate(r)
      PROVE  PolicyInv'
  <2> DEFINE active == [runtime[r] EXCEPT !.skill = TRUE]
             tools == AutorevealTools \cup CommandTools
  <2>1. runtime[r] \in RuntimeRecords
    BY DEF PolicyInv, PolicyTyped
  <2>2. /\ active \in RuntimeRecords /\ active.on = runtime[r].on
        /\ active.catalog = runtime[r].catalog /\ active.enabled = runtime[r].enabled
        /\ Visible(active) = Visible(runtime[r])
    BY <2>1 DEF RuntimeRecords, Visible
  <2>3. /\ runtime[r].on /\ runtime' = [runtime EXCEPT ![r] = Revealed(active, tools)]
        /\ UNCHANGED <<saved, savedSkill, planning, spawned, executions>>
    BY <1>5 DEF SkillActivate, Calls
  <2> HIDE DEF active, tools
  <2> DEFINE new == Revealed(active, tools)
  <2>4. /\ new \in RuntimeRecords /\ new.on = runtime[r].on
        /\ new.catalog = runtime[r].catalog /\ new.enabled = runtime[r].enabled
        /\ Visible(runtime[r]) \subseteq Visible(new)
    BY <2>2, RevealedFacts
  <2>5. runtime' = [runtime EXCEPT ![r] = new]
    BY <2>3
  <2> HIDE DEF new
  <2>6. QED
    BY <2>3, <2>4, <2>5, SameTools
<1>6. ASSUME NEW r \in AgentRunIds, SkillDeactivate(r)
      PROVE  PolicyInv'
  <2> DEFINE inactive == [runtime[r] EXCEPT !.skill = FALSE]
  <2>1. runtime[r] \in RuntimeRecords
    BY DEF PolicyInv, PolicyTyped
  <2>2. /\ inactive \in RuntimeRecords /\ inactive.on = runtime[r].on
        /\ inactive.catalog = runtime[r].catalog /\ inactive.enabled = runtime[r].enabled
        /\ Visible(inactive) = Visible(runtime[r])
    BY <2>1 DEF RuntimeRecords, Visible
  <2>3. /\ runtime[r].on /\ runtime' = [runtime EXCEPT ![r] = inactive]
        /\ UNCHANGED <<saved, savedSkill, planning, spawned, executions>>
    BY <1>6 DEF SkillDeactivate, Calls
  <2> HIDE DEF inactive
  <2>4. QED
    BY <2>2, <2>3, SameTools
<1>7. ASSUME NEW r \in AgentRunIds, SpillOutput(r)
      PROVE  PolicyInv'
  <2>1. runtime[r] \in RuntimeRecords
    BY DEF PolicyInv, PolicyTyped
  <2>2. /\ runtime[r].on /\ runtime' = [runtime EXCEPT ![r] = Revealed(runtime[r], OutputTools)]
        /\ UNCHANGED <<saved, savedSkill, planning, spawned, executions>>
    BY <1>7 DEF SpillOutput
  <2> DEFINE new == Revealed(runtime[r], OutputTools)
  <2>3. /\ new \in RuntimeRecords /\ new.on = runtime[r].on
        /\ new.catalog = runtime[r].catalog /\ new.enabled = runtime[r].enabled
        /\ Visible(runtime[r]) \subseteq Visible(new)
    BY <2>1, RevealedFacts
  <2>4. runtime' = [runtime EXCEPT ![r] = new]
    BY <2>2
  <2> HIDE DEF new
  <2>5. QED
    BY <2>2, <2>3, <2>4, SameTools
<1>8. ASSUME NEW r \in AgentRunIds, PersistProgress(r)
      PROVE  PolicyInv'
  BY <1>8, PersistKeeps
<1>9. ASSUME NEW r \in AgentRunIds, EndExecution(r)
      PROVE  PolicyInv'
  BY <1>9, EndKeeps
<1>10. CASE UNCHANGED toolVars
  <2>1. /\ runtime' = runtime /\ saved' = saved /\ savedSkill' = savedSkill
        /\ planning' = planning /\ spawned' = spawned /\ executions' = executions
    BY <1>10 DEF toolVars
  <2>2. PolicyTyped'
    BY <2>1 DEF PolicyInv, PolicyTyped
  <2>3. ChildKept'
    BY <2>1 DEF PolicyInv, ChildKept, ChildBound
  <2>4. HiddenToolsCanBeFound'
    BY <2>1 DEF PolicyInv, HiddenToolsCanBeFound, Visible
  <2>5. QED
    BY <2>2, <2>3, <2>4 DEF PolicyInv
<1>11. QED
  BY <1>1, <1>2, <1>3, <1>4, <1>5, <1>6, <1>7, <1>8, <1>9, <1>10 DEF ToolStateNext

LEMMA PolicyGivesTypes == PolicyInv => ToolStateTypeOK
  BY DEF PolicyInv, PolicyTyped, ToolStateTypeOK, ToolsOf, RuntimeRecords, ToolSets

LEMMA PolicyBinds == PolicyInv => ParentPolicyBindsChild
<1> SUFFICES ASSUME PolicyInv, runtime[ChildRun].on PROVE
        /\ Restricted \cap Visible(runtime[ChildRun]) = {}
        /\ Visible(runtime[ChildRun]) \subseteq ChildBound
  BY DEF ParentPolicyBindsChild, ChildBound
<1>1. Visible(runtime[ChildRun]) \subseteq runtime[ChildRun].enabled
  BY DEF Visible
<1>2. QED
  BY <1>1, RunIds DEF PolicyInv, PolicyTyped, ChildKept

-----------------------------------------------------------------------------
(* Copies of the workspace (RestrictedShell).                              *)

\* How far the workspace w is made equal to the copy of the invocation i: the
\* paths behind the copy are as the script left them or deleted by it, those
\* behind the removal are as the script left them, and whoever else has written
\* since is named.
InSync(w, i) ==
    /\ i.pc = "copy" =>
          \A p \in Paths \ (i.todo \cup i.overwritten) : i.snap[p] \in {w[p], Absent}
    /\ i.pc = "list" =>
          \A p \in Paths \ i.overwritten : i.snap[p] \in {w[p], Absent}
    /\ i.pc = "remove" =>
          /\ \A p \in i.todo : i.snap[p] = Absent
          /\ \A p \in Paths \ (i.todo \cup i.overwritten) : w[p] = i.snap[p]
    /\ i.pc \in {"stop", "done"} /\ ~ i.failed =>
          \A p \in Paths \ i.overwritten : w[p] = i.snap[p]

ShellInv == ShellTypeOK /\ \A s \in Shells : InSync(workspace, shell[s])

LEMMA ShellStart == ShellInit => ShellInv
<1> SUFFICES ASSUME ShellInit PROVE ShellInv
  OBVIOUS
<1> USE DEF ShellInit
<1>1. MaxWrites \in Nat /\ MaxRefusals \in Nat
  BY RestrictedShellAssumption
<1>2. NewInvocation \in Invocation
  BY DEF NewInvocation, Invocation, Contents, Absent
<1>3. workspace \in [Paths -> Contents]
  BY <1>1 DEF Contents
<1>4. ShellTypeOK
  BY <1>1, <1>2, <1>3 DEF ShellTypeOK
<1>5. \A s \in Shells : InSync(workspace, shell[s])
  BY DEF InSync, NewInvocation
<1>6. QED
  BY <1>4, <1>5 DEF ShellInv

\* A step of one invocation to another that leaves the workspace alone.
LEMMA AloneKeeps ==
  ASSUME ShellInv, NEW s \in Shells, NEW new \in Invocation,
         shell' = [shell EXCEPT ![s] = new],
         workspace' = workspace,
         sandboxes' \in [Shells \X Stages -> {"absent", "created", "running"}],
         writes' \in 0 .. MaxWrites, refusals' \in 0 .. MaxRefusals,
         InSync(workspace, new)
  PROVE  ShellInv'
<1> USE DEF ShellInv
<1>1. \A q \in Shells : shell'[q] = IF q = s THEN new ELSE shell[q]
  BY DEF ShellTypeOK
<1>2. ShellTypeOK'
  BY DEF ShellTypeOK
<1>3. ASSUME NEW q \in Shells PROVE InSync(workspace, shell[q])'
  <2>1. CASE q = s
    BY <2>1, <1>1 DEF InSync
  <2>2. CASE q # s
    BY <2>2, <1>1 DEF InSync
  <2>3. QED
    BY <2>1, <2>2
<1>4. QED
  BY <1>2, <1>3

\* Whoever writes to the workspace, the other invocations that sync know it.
LEMMA WriteKeeps ==
  ASSUME ShellInv, NEW writer, NEW p \in Paths, NEW c \in Contents,
         NEW after, after = [workspace EXCEPT ![p] = c], workspace' = after,
         NEW new \in [Shells -> Invocation],
         shell' = new,
         \A q \in Shells \ {writer} : new[q] = OverwrittenBy(writer, p)[q],
         writer \in Shells => InSync(after, new[writer]),
         sandboxes' = sandboxes,
         writes' \in 0 .. MaxWrites, refusals' \in 0 .. MaxRefusals
  PROVE  ShellInv'
<1> USE DEF ShellInv
<1>1. \A q \in Paths : workspace'[q] = IF q = p THEN c ELSE workspace[q]
  BY DEF ShellTypeOK
<1>2. ShellTypeOK'
  BY DEF ShellTypeOK
<1>3. ASSUME NEW q \in Shells PROVE InSync(workspace, shell[q])'
  <2>1. CASE q = writer
    BY <2>1 DEF InSync
  <2>2. CASE q # writer
    <3>1. new[q] = IF Syncing(q) THEN [shell[q] EXCEPT !.overwritten = @ \cup {p}]
                   ELSE shell[q]
      BY <2>2 DEF OverwrittenBy
    <3>2. shell[q] \in Invocation
      BY DEF ShellTypeOK
    <3>3. CASE Syncing(q)
      <4>1. /\ new[q].pc = shell[q].pc /\ new[q].todo = shell[q].todo
            /\ new[q].snap = shell[q].snap /\ new[q].failed = shell[q].failed
            /\ new[q].overwritten = shell[q].overwritten \cup {p}
        BY <3>1, <3>2, <3>3 DEF Invocation
      <4>2. InSync(workspace, shell[q])
        OBVIOUS
      <4>3. QED
        BY <4>1, <4>2, <1>1 DEF InSync
    <3>4. CASE ~ Syncing(q)
      BY <3>1, <3>4 DEF Syncing, InSync
    <3>5. QED
      BY <3>3, <3>4
  <2>3. QED
    BY <2>1, <2>2
<1>4. QED
  BY <1>2, <1>3

LEMMA OverwrittenType ==
  ASSUME ShellTypeOK, NEW writer, NEW p \in Paths
  PROVE  OverwrittenBy(writer, p) \in [Shells -> Invocation]
<1>1. ASSUME NEW q \in Shells
      PROVE  [shell[q] EXCEPT !.overwritten = @ \cup {p}] \in Invocation
  <2>1. shell[q] \in Invocation
    BY DEF ShellTypeOK
  <2>2. QED
    BY <2>1 DEF Invocation
<1>2. \A q \in Shells : shell[q] \in Invocation
  BY DEF ShellTypeOK
<1>3. QED
  BY <1>1, <1>2 DEF OverwrittenBy

-----------------------------------------------------------------------------
LEMMA OtherWritesKeeps ==
  ASSUME ShellInv, NEW p \in Paths, NEW c \in Contents, OtherWrites(p, c)
  PROVE  ShellInv'
<1> USE DEF ShellInv
<1>1. NoStage \notin Shells
  BY RestrictedShellAssumption
<1>2. OverwrittenBy(NoStage, p) \in [Shells -> Invocation]
  BY OverwrittenType
<1>3. /\ workspace' = [workspace EXCEPT ![p] = c]
      /\ shell' = OverwrittenBy(NoStage, p)
      /\ sandboxes' = sandboxes /\ refusals' = refusals
      /\ writes < MaxWrites /\ writes' = writes + 1
  BY DEF OtherWrites, Put
<1>4. writes' \in 0 .. MaxWrites /\ refusals' \in 0 .. MaxRefusals
  BY <1>3, RestrictedShellAssumption DEF ShellTypeOK
<1> DEFINE new == OverwrittenBy(NoStage, p)
           after == [workspace EXCEPT ![p] = c]
<1>5. /\ \A q \in Shells \ {NoStage} : new[q] = OverwrittenBy(NoStage, p)[q]
      /\ workspace' = after /\ after = [workspace EXCEPT ![p] = c]
  BY <1>3
<1> HIDE DEF new, after
<1>6. QED
  BY <1>1, <1>2, <1>3, <1>4, <1>5, WriteKeeps DEF new

\* What an invocation does before its sync, and what it does with docker.
LEMMA ScriptKeeps ==
  ASSUME ShellInv, NEW s \in Shells,
         \/ BeginShell(s) \/ ListRemoved(s) \/ Synced(s) \/ CleanupSandbox(s)
         \/ \E status \in {0, 1} : ScriptEnds(s, status)
         \/ \E p \in Paths :
               \/ SnapshotPath(s, p)
               \/ \E c \in Contents : ScriptWrites(s, p, c)
         \/ \E g \in Stages :
               \/ EnsureSandbox(s, g) \/ CreateSandbox(s, g)
               \/ StartSandbox(s, g) \/ ExecSandbox(s, g)
  PROVE  ShellInv'
<1> USE DEF ShellInv
<1>1. /\ shell[s] \in Invocation /\ InSync(workspace, shell[s])
      /\ MaxWrites \in Nat /\ MaxRefusals \in Nat /\ NoStage \notin Stages
      /\ workspace \in [Paths -> Contents]
      /\ sandboxes \in [Shells \X Stages -> {"absent", "created", "running"}]
      /\ writes \in 0 .. MaxWrites /\ refusals \in 0 .. MaxRefusals
  BY RestrictedShellAssumption DEF ShellTypeOK
<1>2. CASE BeginShell(s)
  <2> DEFINE new == [shell[s] EXCEPT !.pc = "snapshot", !.todo = Paths]
  <2>1. new \in Invocation /\ InSync(workspace, new)
    BY <1>1 DEF Invocation, InSync
  <2>2. shell' = [shell EXCEPT ![s] = new]
        /\ UNCHANGED <<workspace, sandboxes, writes, refusals>>
    BY <1>2 DEF BeginShell
  <2> HIDE DEF new
  <2>3. QED
    BY <1>1, <2>1, <2>2, AloneKeeps
<1>3. ASSUME NEW p \in Paths, SnapshotPath(s, p) PROVE ShellInv'
  <2> DEFINE new == [shell[s] EXCEPT !.snap[p] = workspace[p], !.todo = @ \ {p},
                        !.pc = IF shell[s].todo = {p} THEN "running" ELSE @]
  <2>1. shell[s].pc = "snapshot"
    BY <1>3 DEF SnapshotPath
  <2>2. workspace[p] \in Contents /\ [shell[s].snap EXCEPT ![p] = workspace[p]] \in [Paths -> Contents]
    BY <1>1 DEF Invocation
  <2>3. new \in Invocation /\ new.pc \in {"snapshot", "running"}
    BY <1>1, <2>1, <2>2 DEF Invocation
  <2>4. shell' = [shell EXCEPT ![s] = new]
        /\ UNCHANGED <<workspace, sandboxes, writes, refusals>>
    BY <1>3 DEF SnapshotPath
  <2> HIDE DEF new
  <2>5. InSync(workspace, new)
    BY <2>3 DEF InSync
  <2>6. QED
    BY <1>1, <2>3, <2>4, <2>5, AloneKeeps
<1>4. ASSUME NEW p \in Paths, NEW c \in Contents, ScriptWrites(s, p, c) PROVE ShellInv'
  <2> DEFINE new == [shell[s] EXCEPT !.snap[p] = c]
  <2>1. shell[s].pc = "running"
    BY <1>4 DEF ScriptWrites
  <2>2. [shell[s].snap EXCEPT ![p] = c] \in [Paths -> Contents]
    BY <1>1 DEF Invocation
  <2>3. new \in Invocation /\ new.pc = "running"
    BY <1>1, <2>1, <2>2 DEF Invocation
  <2>4. /\ shell' = [shell EXCEPT ![s] = new]
        /\ UNCHANGED <<workspace, sandboxes, refusals>>
        /\ writes < MaxWrites /\ writes' = writes + 1
    BY <1>4 DEF ScriptWrites
  <2> HIDE DEF new
  <2>5. InSync(workspace, new)
    BY <2>3 DEF InSync
  <2>6. writes' \in 0 .. MaxWrites
    BY <1>1, <2>4
  <2>7. QED
    BY <1>1, <2>3, <2>4, <2>5, <2>6, AloneKeeps
<1>5. ASSUME NEW status \in {0, 1}, ScriptEnds(s, status) PROVE ShellInv'
  <2> DEFINE new == [shell[s] EXCEPT !.pc = "copy", !.status = status, !.todo = Paths]
  <2>1. new \in Invocation /\ InSync(workspace, new)
    BY <1>1 DEF Invocation, InSync
  <2>2. shell' = [shell EXCEPT ![s] = new]
        /\ UNCHANGED <<workspace, sandboxes, writes, refusals>>
    BY <1>5 DEF ScriptEnds
  <2> HIDE DEF new
  <2>3. QED
    BY <1>1, <2>1, <2>2, AloneKeeps
<1>6. CASE ListRemoved(s)
  <2> DEFINE gone == {p \in Paths : workspace[p] # Absent /\ shell[s].snap[p] = Absent}
             new == [shell[s] EXCEPT !.pc = "remove", !.todo = gone]
  <2>1. shell[s].pc = "list" /\ gone \in SUBSET Paths
    BY <1>6 DEF ListRemoved
  <2>2. new \in Invocation /\ InSync(workspace, new)
    BY <1>1, <2>1 DEF Invocation, InSync
  <2>3. shell' = [shell EXCEPT ![s] = new]
        /\ UNCHANGED <<workspace, sandboxes, writes, refusals>>
    BY <1>6 DEF ListRemoved
  <2> HIDE DEF new
  <2>4. QED
    BY <1>1, <2>2, <2>3, AloneKeeps
<1>7. CASE Synced(s)
  <2> DEFINE new == [shell[s] EXCEPT !.pc = "stop"]
  <2>1. shell[s].pc = "remove" /\ shell[s].todo = {}
    BY <1>7 DEF Synced
  <2>2. new \in Invocation /\ InSync(workspace, new)
    BY <1>1, <2>1 DEF Invocation, InSync
  <2>3. shell' = [shell EXCEPT ![s] = new]
        /\ UNCHANGED <<workspace, sandboxes, writes, refusals>>
    BY <1>7 DEF Synced
  <2> HIDE DEF new
  <2>4. QED
    BY <1>1, <2>2, <2>3, AloneKeeps
<1>8. CASE CleanupSandbox(s)
  <2>1. shell[s].pc = "stop" /\ workspace' = workspace /\ writes' = writes
    BY <1>8 DEF CleanupSandbox
  <2>2. PICK r \in BOOLEAN :
          shell' = [shell EXCEPT ![s] = [shell[s] EXCEPT !.pc = "done", !.refused = r]]
    <3>1. shell' = [shell EXCEPT ![s].pc = "done"]
          \/ shell' = [shell EXCEPT ![s].pc = "done", ![s].refused = TRUE]
      BY <1>8 DEF CleanupSandbox
    <3>2. shell[s].refused \in BOOLEAN
          /\ [shell[s] EXCEPT !.pc = "done", !.refused = shell[s].refused]
               = [shell[s] EXCEPT !.pc = "done"]
      BY <1>1 DEF Invocation
    <3>3. CASE shell' = [shell EXCEPT ![s].pc = "done"]
      <4>1. shell' = [shell EXCEPT ![s] = [shell[s] EXCEPT !.pc = "done", !.refused = shell[s].refused]]
        BY <3>2, <3>3
      <4>2. QED
        BY <3>2, <4>1
    <3>4. CASE shell' = [shell EXCEPT ![s].pc = "done", ![s].refused = TRUE]
      BY <3>4
    <3>5. QED
      BY <3>1, <3>3, <3>4
  <2> DEFINE new == [shell[s] EXCEPT !.pc = "done", !.refused = r]
  <2>3. new \in Invocation /\ InSync(workspace, new)
    BY <1>1, <2>1 DEF Invocation, InSync
  <2>4. refusals' \in 0 .. MaxRefusals
    BY <1>1, <1>8 DEF CleanupSandbox, Refused
  <2>5. sandboxes' \in [Shells \X Stages -> {"absent", "created", "running"}]
    BY <1>1, <1>8 DEF CleanupSandbox
  <2> HIDE DEF new
  <2>6. QED
    <3>1. shell' = [shell EXCEPT ![s] = new]
      BY <2>2 DEF new
    <3>2. workspace' = workspace /\ writes' = writes /\ writes' \in 0 .. MaxWrites
      BY <1>1, <2>1
    <3>3. QED
      BY <3>1, <3>2, <2>3, <2>4, <2>5, AloneKeeps
<1>9. ASSUME NEW g \in Stages,
             EnsureSandbox(s, g) \/ CreateSandbox(s, g) \/ StartSandbox(s, g) \/ ExecSandbox(s, g)
      PROVE  ShellInv'
  <2>1. PICK at \in {"create", "start", "exec", "end"}, named \in Stages \cup {NoStage},
             begun \in BOOLEAN :
          shell' = [shell EXCEPT ![s] = [shell[s] EXCEPT !.stage = [@ EXCEPT ![g] = at],
                                            !.container = named, !.started = begun]]
    <3> DEFINE To(at, named, begun) ==
                 [shell[s] EXCEPT !.stage = [@ EXCEPT ![g] = at],
                                  !.container = named, !.started = begun]
               i == shell[s]
    <3>1. i.container \in Stages \cup {NoStage} /\ i.started \in BOOLEAN
      BY <1>1 DEF Invocation
    <3>2. \A at : [i EXCEPT !.stage = [@ EXCEPT ![g] = at]] = To(at, i.container, i.started)
      BY <1>1 DEF Invocation
    <3>3. \A at, named : [i EXCEPT !.stage = [@ EXCEPT ![g] = at], !.container = named]
             = To(at, named, i.started)
      BY <1>1 DEF Invocation
    <3>4. \A at, begun : [i EXCEPT !.stage = [@ EXCEPT ![g] = at], !.started = begun]
             = To(at, i.container, begun)
      BY <1>1 DEF Invocation
    <3>5. CASE EnsureSandbox(s, g)
      <4>1. PICK at \in {"create", "exec"} :
              shell' = [shell EXCEPT ![s] = [i EXCEPT !.stage = [@ EXCEPT ![g] = at]]]
        BY <3>5 DEF EnsureSandbox
      <4>2. shell' = [shell EXCEPT ![s] = To(at, i.container, i.started)]
        BY <3>2, <4>1
      <4>3. QED
        BY <3>1, <4>2
    <3>6. CASE CreateSandbox(s, g)
      <4>1. \/ shell' = [shell EXCEPT ![s] = [i EXCEPT !.stage = [@ EXCEPT ![g] = "start"],
                                                      !.container = g]]
            \/ shell' = [shell EXCEPT ![s] = [i EXCEPT !.stage = [@ EXCEPT ![g] = "end"]]]
        BY <3>6 DEF CreateSandbox
      <4>2. \/ shell' = [shell EXCEPT ![s] = To("start", g, i.started)]
            \/ shell' = [shell EXCEPT ![s] = To("end", i.container, i.started)]
        BY <3>2, <3>3, <4>1
      <4>3. QED
        BY <3>1, <4>2
    <3>7. CASE StartSandbox(s, g)
      <4>1. \/ shell' = [shell EXCEPT ![s] = [i EXCEPT !.stage = [@ EXCEPT ![g] = "exec"],
                                                      !.started = TRUE]]
            \/ shell' = [shell EXCEPT ![s] = [i EXCEPT !.stage = [@ EXCEPT ![g] = "end"],
                                                      !.container = NoStage]]
        BY <3>7 DEF StartSandbox
      <4>2. \/ shell' = [shell EXCEPT ![s] = To("exec", i.container, TRUE)]
            \/ shell' = [shell EXCEPT ![s] = To("end", NoStage, i.started)]
        BY <3>3, <3>4, <4>1
      <4>3. QED
        BY <3>1, <4>2
    <3>8. CASE ExecSandbox(s, g)
      <4>1. shell' = [shell EXCEPT ![s] = [i EXCEPT !.stage = [@ EXCEPT ![g] = "end"]]]
        BY <3>8 DEF ExecSandbox
      <4>2. shell' = [shell EXCEPT ![s] = To("end", i.container, i.started)]
        BY <3>2, <4>1
      <4>3. QED
        BY <3>1, <4>2
    <3>9. QED
      BY <1>9, <3>5, <3>6, <3>7, <3>8
  <2> DEFINE new == [shell[s] EXCEPT !.stage = [@ EXCEPT ![g] = at],
                                     !.container = named, !.started = begun]
  <2>2. [shell[s].stage EXCEPT ![g] = at] \in
          [Stages -> {"new", "create", "start", "exec", "end"}]
    BY <1>1 DEF Invocation
  <2>3. new \in Invocation
    BY <1>1, <2>2 DEF Invocation
  <2>4. InSync(workspace, new)
    BY <1>1 DEF InSync, Invocation
  <2>5. UNCHANGED <<workspace, writes>>
    BY <1>9 DEF EnsureSandbox, CreateSandbox, StartSandbox, ExecSandbox
  <2>6. refusals' \in 0 .. MaxRefusals
    <3>1. CASE UNCHANGED refusals
      BY <1>1, <3>1
    <3>2. CASE Refused
      BY <1>1, <3>2 DEF Refused
    <3>3. CASE EnsureSandbox(s, g)
      BY <3>1, <3>3 DEF EnsureSandbox
    <3>4. CASE CreateSandbox(s, g)
      BY <3>1, <3>2, <3>4 DEF CreateSandbox
    <3>5. CASE StartSandbox(s, g)
      BY <3>1, <3>2, <3>5 DEF StartSandbox
    <3>6. CASE ExecSandbox(s, g)
      BY <3>1, <3>6 DEF ExecSandbox
    <3>7. QED
      BY <1>9, <3>3, <3>4, <3>5, <3>6
  <2>7. sandboxes' \in [Shells \X Stages -> {"absent", "created", "running"}]
    BY <1>1, <1>9 DEF EnsureSandbox, CreateSandbox, StartSandbox, ExecSandbox
  <2> HIDE DEF new
  <2>8. QED
    <3>1. shell' = [shell EXCEPT ![s] = new]
      BY <2>1 DEF new
    <3>2. workspace' = workspace /\ writes' = writes /\ writes' \in 0 .. MaxWrites
      BY <1>1, <2>5
    <3>3. QED
      BY <3>1, <3>2, <2>3, <2>4, <2>6, <2>7, AloneKeeps
<1>10. QED
  BY <1>2, <1>3, <1>4, <1>5, <1>6, <1>7, <1>8, <1>9

LEMMA CopyBackKeeps ==
  ASSUME ShellInv, NEW s \in Shells, NEW p \in Paths, CopyBack(s, p)
  PROVE  ShellInv'
<1> DEFINE c == shell[s].snap[p]
           rest == shell[s].todo \ {p}
           go == [shell[s] EXCEPT !.todo = rest, !.pc = IF rest = {} THEN "list" ELSE @]
<1> USE DEF ShellInv
<1>1. /\ shell[s] \in Invocation /\ InSync(workspace, shell[s])
      /\ workspace \in [Paths -> Contents] /\ c \in Contents
      /\ shell[s].pc = "copy" /\ p \in shell[s].todo
  BY DEF ShellTypeOK, Invocation, CopyBack
<1>2. sandboxes' = sandboxes /\ writes' = writes /\ refusals' = refusals
  BY DEF CopyBack
<1>3. /\ sandboxes' \in [Shells \X Stages -> {"absent", "created", "running"}]
      /\ writes' \in 0 .. MaxWrites /\ refusals' \in 0 .. MaxRefusals
  BY <1>2 DEF ShellTypeOK
<1>4. /\ go \in Invocation /\ go.todo = rest /\ go.snap = shell[s].snap
      /\ go.overwritten = shell[s].overwritten
      /\ go.pc = IF rest = {} THEN "list" ELSE "copy"
  BY <1>1 DEF Invocation
<1>5. CASE InTheWay(c, workspace[p])
  <2> DEFINE new == [shell[s] EXCEPT !.pc = "stop", !.failed = TRUE]
  <2>1. new \in Invocation /\ InSync(workspace, new)
    BY <1>1 DEF Invocation, InSync
  <2>2. shell' = [shell EXCEPT ![s] = new] /\ workspace' = workspace
    BY <1>5 DEF CopyBack
  <2> HIDE DEF new
  <2>3. QED
    BY <2>1, <2>2, <1>3, AloneKeeps
<1>6. CASE ~ InTheWay(c, workspace[p]) /\ c \in {Absent, workspace[p]}
  <2>1. shell' = [shell EXCEPT ![s] = go] /\ workspace' = workspace
    BY <1>6 DEF CopyBack
  <2>2. InSync(workspace, go)
    <3> HIDE DEF go
    <3>1. \A q \in Paths \ (rest \cup shell[s].overwritten) :
             shell[s].snap[q] \in {workspace[q], Absent}
      BY <1>1, <1>6 DEF InSync
    <3>2. QED
      BY <3>1, <1>4 DEF InSync
  <2> HIDE DEF go
  <2>3. QED
    BY <2>1, <2>2, <1>3, <1>4, AloneKeeps
<1>7. CASE ~ InTheWay(c, workspace[p]) /\ ~ c \in {Absent, workspace[p]}
  <2> DEFINE new == [OverwrittenBy(s, p) EXCEPT ![s] = go]
             after == [workspace EXCEPT ![p] = c]
  <2>1. shell' = new /\ workspace' = after
    BY <1>7 DEF CopyBack, Put
  <2>2. OverwrittenBy(s, p) \in [Shells -> Invocation]
    BY OverwrittenType
  <2> HIDE DEF go
  <2>3. /\ new \in [Shells -> Invocation] /\ new[s] = go
        /\ \A q \in Shells \ {s} : new[q] = OverwrittenBy(s, p)[q]
    BY <2>2, <1>4
  <2>4. InSync(after, go)
    <3>1. \A q \in Paths \ (rest \cup shell[s].overwritten) :
             shell[s].snap[q] \in {after[q], Absent}
      BY <1>1 DEF InSync
    <3>2. QED
      BY <3>1, <1>4 DEF InSync
  <2>5. /\ after = [workspace EXCEPT ![p] = c]
        /\ InSync(after, new[s])
    BY <2>3, <2>4
  <2> HIDE DEF new, c, after, ShellInv
  <2>6. QED
    BY <1>1, <1>2, <1>3, <2>1, <2>3, <2>4, <2>5, WriteKeeps
<1>8. QED
  BY <1>5, <1>6, <1>7

LEMMA RemoveSyncedKeeps ==
  ASSUME ShellInv, NEW s \in Shells, NEW p \in Paths, RemoveSynced(s, p)
  PROVE  ShellInv'
<1> DEFINE over == OverwrittenBy(s, p)
           new == [over EXCEPT ![s].todo = @ \ {p}]
           after == [workspace EXCEPT ![p] = Absent]
<1> USE DEF ShellInv
<1>1. /\ shell[s] \in Invocation /\ InSync(workspace, shell[s])
      /\ workspace \in [Paths -> Contents] /\ Absent \in Contents
      /\ shell[s].pc = "remove" /\ p \in shell[s].todo
  BY DEF ShellTypeOK, RemoveSynced, Contents
<1>2. /\ sandboxes' = sandboxes /\ writes' = writes /\ refusals' = refusals
      /\ shell' = new /\ workspace' = after
  BY DEF RemoveSynced, Put
<1>3. writes' \in 0 .. MaxWrites /\ refusals' \in 0 .. MaxRefusals
  BY <1>2 DEF ShellTypeOK
<1>4. over \in [Shells -> Invocation] /\ over[s] = shell[s]
  BY OverwrittenType DEF OverwrittenBy
<1> HIDE DEF over
<1>5. [over[s] EXCEPT !.todo = @ \ {p}] \in Invocation
  BY <1>1, <1>4 DEF Invocation
<1>6. /\ new \in [Shells -> Invocation] /\ new[s] = [shell[s] EXCEPT !.todo = @ \ {p}]
      /\ \A q \in Shells \ {s} : new[q] = over[q]
  BY <1>4, <1>5
<1>7. /\ new[s].pc = "remove" /\ new[s].todo = shell[s].todo \ {p}
      /\ new[s].snap = shell[s].snap /\ new[s].overwritten = shell[s].overwritten
  BY <1>1, <1>6 DEF Invocation
<1> HIDE DEF new
<1>8. InSync(after, new[s])
  BY <1>1, <1>7 DEF InSync
<1>9. after = [workspace EXCEPT ![p] = Absent]
  OBVIOUS
<1> HIDE DEF after, ShellInv
<1>10. QED
  BY ZenonT(60), <1>1, <1>2, <1>3, <1>6, <1>8, <1>9, WriteKeeps DEF over

LEMMA ShellStep == ShellInv /\ [ShellNext]_shellVars => ShellInv'
<1> SUFFICES ASSUME ShellInv, [ShellNext]_shellVars PROVE ShellInv'
  OBVIOUS
<1>1. CASE UNCHANGED shellVars
  <2>1. /\ workspace' = workspace /\ shell' = shell /\ sandboxes' = sandboxes
        /\ writes' = writes /\ refusals' = refusals
    BY <1>1 DEF shellVars
  <2>2. ShellTypeOK'
    BY <2>1 DEF ShellInv, ShellTypeOK
  <2>3. \A s \in Shells : InSync(workspace', shell'[s])
    BY <2>1 DEF ShellInv
  <2>4. QED
    BY <2>2, <2>3 DEF ShellInv, InSync
<1>2. CASE ShellNext
  BY <1>2, OtherWritesKeeps, ScriptKeeps, CopyBackKeeps, RemoveSyncedKeeps DEF ShellNext
<1>3. QED
  BY <1>1, <1>2

LEMMA ShellArrives == ShellInv => ScriptChangesArrive
  BY DEF ShellInv, InSync, ScriptChangesArrive

-----------------------------------------------------------------------------
(* Background processes (DockerRunner).                                    *)

\* The launch that a call is busy with, and its process id.
Engaged(l) == launcher[l].at # "idle"
IdOf(l) == launches[launcher[l].launch]

ProcessTyped ==
    /\ box.state \in {"absent", "created", "running", "exited"}
    /\ procs \in [Pids -> Nat] /\ lastPid \in Nat
    /\ files \in [ProcessIds -> [cmd : Nat, log : Nat, pid : Pids \cup {0}]]
    /\ launcher \in [Launchers -> [at : {"idle", "fork", "record"}, launch : Nat,
                                   pid : Pids \cup {0}]]
    /\ launches \in Seq(ProcessIds)
    /\ doubtful \subseteq ProcessIds

\* Nothing runs in a container that does not.
StoppedIsEmpty ==
    box.state # "running" => /\ \A p \in Pids : procs[p] = 0
                             /\ \A l \in Launchers : ~ Engaged(l)

\* A pid is given once since the container started, and every launch has one at most.
PidsAreFresh ==
    /\ \A p \in Pids : procs[p] # 0 => p <= lastPid /\ procs[p] \in DOMAIN launches
    /\ \A p, q \in Pids : procs[p] # 0 /\ procs[p] = procs[q] => p = q
    /\ \A i \in ProcessIds \ doubtful : Launching(i) \/ files[i].pid <= lastPid
    /\ \A l \in Launchers : launcher[l].at = "record" =>
          launcher[l].pid \in Pids /\ launcher[l].pid <= lastPid

\* The last launch of a process id is one of its launches.
LatestIsLast ==
    \A i \in ProcessIds :
        /\ LatestLaunch(i) = 0 => \A k \in DOMAIN launches : launches[k] # i
        /\ LatestLaunch(i) # 0 =>
              /\ LatestLaunch(i) \in DOMAIN launches /\ launches[LatestLaunch(i)] = i
              /\ \A k \in DOMAIN launches : launches[k] = i => k <= LatestLaunch(i)

\* Every call is busy with a launch of its own, the last of its process id
\* unless that is doubtful; before the fork it has no process, after it none but
\* the one whose pid the call will record.
LaunchesAreOwned ==
    /\ \A l \in Launchers : Engaged(l) => launcher[l].launch \in DOMAIN launches
    /\ \A l, m \in Launchers : Engaged(l) /\ Engaged(m) /\ launcher[l].launch = launcher[m].launch => l = m
    /\ \A l \in Launchers : launcher[l].at = "fork" =>
          \A p \in Pids : procs[p] # launcher[l].launch
    /\ \A l \in Launchers : launcher[l].at = "record" =>
          /\ procs[launcher[l].pid] \in {0, launcher[l].launch}
          /\ \A p \in Pids : procs[p] = launcher[l].launch => p = launcher[l].pid
    /\ \A l \in Launchers : Engaged(l) /\ IdOf(l) \notin doubtful =>
          /\ launcher[l].launch = LatestLaunch(IdOf(l))
          /\ \A m \in Launchers : Engaged(m) /\ IdOf(m) = IdOf(l) => m = l
          /\ launcher[l].at = "record" => files[IdOf(l)].log = launcher[l].launch

\* The files of a process id that nobody is launching lead to its last launch.
FilesLead ==
    \A i \in ProcessIds \ doubtful :
        LatestLaunch(i) # 0 /\ ~ Launching(i) /\ files[i].pid # 0 =>
            /\ files[i].log = LatestLaunch(i)
            /\ procs[files[i].pid] \in {0, LatestLaunch(i)}
            /\ \A p \in Pids : procs[p] = LatestLaunch(i) => p = files[i].pid

ProcessInv ==
    ProcessTyped /\ StoppedIsEmpty /\ PidsAreFresh /\ LatestIsLast /\ LaunchesAreOwned /\ FilesLead

LEMMA ProcessStart == DockerInit => ProcessInv
<1> SUFFICES ASSUME DockerInit PROVE ProcessInv
  OBVIOUS
<1> USE DEF DockerInit, NoFiles, IdleLauncher, NoBox, Engaged
<1>1. ProcessTyped
  <2>1. launches \in Seq(ProcessIds)
    OBVIOUS
  <2>2. QED
    BY <2>1 DEF ProcessTyped
<1>2. StoppedIsEmpty /\ PidsAreFresh /\ LaunchesAreOwned
  BY DEF StoppedIsEmpty, PidsAreFresh, LaunchesAreOwned, Launching
<1>3. LatestIsLast
  <2>1. DOMAIN launches = {}
    OBVIOUS
  <2>2. QED
    BY <2>1 DEF LatestIsLast, LatestLaunch
<1>4. FilesLead
  BY DEF FilesLead
<1>5. QED
  BY <1>1, <1>2, <1>3, <1>4 DEF ProcessInv

LEMMA PidFacts == Pids \subseteq Nat \ {0}
  BY DockerAssumption

\* As long as nothing is launched, the last launches stay.
LEMMA LatestStays ==
  ASSUME launches' = launches, LatestIsLast
  PROVE  LatestIsLast' /\ \A i \in ProcessIds : LatestLaunch(i)' = LatestLaunch(i)
<1>1. \A i \in ProcessIds : LatestLaunch(i)' = LatestLaunch(i)
  BY DEF LatestLaunch
<1>2. QED
  BY <1>1 DEF LatestIsLast

\* What the container does on its own: it is made, started, stopped, removed.
LEMMA BoxKeeps ==
  ASSUME ProcessInv, (\E o \in CreateInputs : CreateBox(o)) \/ StartBox \/ StopBox \/ RemoveBox
  PROVE  ProcessInv'
<1> USE DEF ProcessInv
<1>1. CASE \E o \in CreateInputs : CreateBox(o)
  <2>1. PICK o \in CreateInputs : CreateBox(o)
    BY <1>1
  <2>2. /\ box.state = "absent" /\ box'.state = "created"
        /\ files' = [i \in ProcessIds |-> NoFiles]
        /\ procs' = procs /\ lastPid' = lastPid /\ launcher' = launcher
        /\ launches' = launches /\ doubtful' = doubtful
    BY <2>1 DEF CreateBox
  <2>3. \A i \in ProcessIds : files'[i].pid = 0
    BY <2>2 DEF NoFiles
  <2>4. ProcessTyped'
    BY <2>2 DEF ProcessTyped, NoFiles
  <2>5. \A l \in Launchers : ~ Engaged(l) /\ ~ Engaged(l)'
    BY <2>2 DEF StoppedIsEmpty, Engaged
  <2>6. LatestIsLast'
    BY <2>2, LatestStays
  <2>7. StoppedIsEmpty' /\ LaunchesAreOwned' /\ FilesLead'
    BY <2>2, <2>3, <2>5 DEF StoppedIsEmpty, LaunchesAreOwned, FilesLead, Engaged
  <2>8. PidsAreFresh'
    BY <2>2, <2>3, <2>4, <2>5 DEF PidsAreFresh, Engaged, ProcessTyped
  <2>9. QED
    BY <2>4, <2>6, <2>7, <2>8
<1>2. CASE StartBox
  <2>1. /\ box.state # "running" /\ box'.state = "running"
        /\ lastPid' = 0 /\ doubtful' = doubtful \cup {i \in ProcessIds : files[i].pid # 0}
        /\ files' = files /\ procs' = procs /\ launcher' = launcher /\ launches' = launches
    BY <1>2 DEF StartBox, ProcessTyped
  <2>2. /\ \A l \in Launchers : ~ Engaged(l) /\ ~ Engaged(l)'
        /\ \A p \in Pids : procs[p] = 0
    BY <2>1 DEF StoppedIsEmpty, Engaged
  <2>3. ProcessTyped'
    BY <2>1 DEF ProcessTyped
  <2>4. LatestIsLast'
    BY <2>1, LatestStays
  <2>5. \A i \in ProcessIds \ doubtful' : files'[i].pid = 0
    BY <2>1
  <2>6. StoppedIsEmpty' /\ LaunchesAreOwned' /\ FilesLead'
    BY <2>1, <2>2, <2>5 DEF StoppedIsEmpty, LaunchesAreOwned, FilesLead, Engaged
  <2>7. PidsAreFresh'
    BY <2>1, <2>2, <2>5 DEF PidsAreFresh, Engaged
  <2>8. QED
    BY <2>3, <2>4, <2>6, <2>7
<1>3. CASE StopBox
  <2> DEFINE left == {launches[launcher[l].launch] : l \in {k \in Launchers : launcher[k].at # "idle"}}
  <2>1. /\ box'.state = "exited" /\ procs' = [p \in Pids |-> 0]
        /\ launcher' = [l \in Launchers |-> IdleLauncher]
        /\ doubtful' = doubtful \cup left
        /\ files' = files /\ lastPid' = lastPid /\ launches' = launches
    BY <1>3 DEF StopBox, ProcessTyped
  <2>2. /\ \A l \in Launchers : ~ Engaged(l)' /\ launcher'[l].at = "idle"
        /\ \A p \in Pids : procs'[p] = 0
    BY <2>1 DEF IdleLauncher, Engaged
  <2>3. left \subseteq ProcessIds
    BY ElementOfSeq DEF LaunchesAreOwned, Engaged, ProcessTyped
  <2>4. \A i \in ProcessIds \ doubtful' : i \notin doubtful /\ ~ Launching(i)
    BY <2>1 DEF Launching
  <2> HIDE DEF left
  <2>5. ProcessTyped'
    BY <2>1, <2>3 DEF ProcessTyped, IdleLauncher
  <2>6. LatestIsLast' /\ \A i \in ProcessIds : LatestLaunch(i)' = LatestLaunch(i)
    BY <2>1, LatestStays
  <2>7. \A i \in ProcessIds : ~ Launching(i)'
    BY <2>2 DEF Launching
  <2>8. StoppedIsEmpty' /\ LaunchesAreOwned'
    BY <2>1, <2>2 DEF StoppedIsEmpty, LaunchesAreOwned, Engaged
  <2>9. PidsAreFresh'
    BY <2>1, <2>2, <2>4 DEF PidsAreFresh
  <2>10. FilesLead'
    <3> SUFFICES ASSUME NEW i \in ProcessIds \ doubtful', LatestLaunch(i)' # 0, files'[i].pid # 0
                 PROVE  /\ files'[i].log = LatestLaunch(i)'
                        /\ procs'[files'[i].pid] \in {0, LatestLaunch(i)'}
                        /\ \A p \in Pids : procs'[p] = LatestLaunch(i)' => p = files'[i].pid
      BY DEF FilesLead
    <3>1. files[i].pid \in Pids
      BY <2>1 DEF ProcessTyped
    <3>2. files[i].log = LatestLaunch(i)
      BY <2>1, <2>4, <2>6 DEF FilesLead
    <3>3. QED
      BY <2>1, <2>2, <2>6, <3>1, <3>2
  <2>11. QED
    BY <2>5, <2>6, <2>8, <2>9, <2>10
<1>4. CASE RemoveBox
  <2>1. /\ box.state # "running" /\ box'.state = "absent"
        /\ files' = [i \in ProcessIds |-> NoFiles] /\ doubtful' = {}
        /\ procs' = procs /\ lastPid' = lastPid /\ launcher' = launcher /\ launches' = launches
    BY <1>4 DEF RemoveBox, NoBox
  <2>2. /\ \A l \in Launchers : ~ Engaged(l) /\ ~ Engaged(l)'
        /\ \A i \in ProcessIds : files'[i].pid = 0
    BY <2>1 DEF StoppedIsEmpty, Engaged, NoFiles
  <2>3. ProcessTyped'
    BY <2>1 DEF ProcessTyped, NoFiles
  <2>4. LatestIsLast'
    BY <2>1, LatestStays
  <2>5. StoppedIsEmpty' /\ LaunchesAreOwned' /\ FilesLead'
    BY <2>1, <2>2 DEF StoppedIsEmpty, LaunchesAreOwned, FilesLead, Engaged
  <2>6. PidsAreFresh'
    BY <2>1, <2>2, <2>3 DEF PidsAreFresh, Engaged, ProcessTyped
  <2>7. QED
    BY <2>3, <2>4, <2>5, <2>6
<1>5. QED
  BY <1>1, <1>2, <1>3, <1>4

\* A process that ends, by itself or by a signal, leaves its pid.
LEMMA EndKeepsProcesses ==
  ASSUME ProcessInv, NEW p \in Pids, procs' = [procs EXCEPT ![p] = 0],
         UNCHANGED <<box, lastPid, files, launcher, launches, doubtful>>
  PROVE  ProcessInv'
<1> USE DEF ProcessInv
<1>1. /\ box' = box /\ lastPid' = lastPid /\ files' = files /\ launcher' = launcher
      /\ launches' = launches /\ doubtful' = doubtful
  OBVIOUS
<1>2. /\ \A q \in Pids : procs'[q] \in {procs[q], 0} /\ procs[q] \in Nat
  BY DEF ProcessTyped
<1>3. ProcessTyped'
  BY <1>1 DEF ProcessTyped
<1>4. LatestIsLast' /\ \A i \in ProcessIds : LatestLaunch(i)' = LatestLaunch(i)
  BY <1>1, LatestStays
<1>5. \A l \in Launchers : (Engaged(l)' <=> Engaged(l)) /\ IdOf(l)' = IdOf(l)
  BY <1>1 DEF Engaged, IdOf
<1>6. \A i \in ProcessIds : Launching(i)' <=> Launching(i)
  BY <1>1 DEF Launching
<1>7. StoppedIsEmpty' /\ PidsAreFresh'
  BY <1>1, <1>2, <1>5, <1>6 DEF StoppedIsEmpty, PidsAreFresh
<1>8. LaunchesAreOwned'
  <2>1. ASSUME NEW l \in Launchers, Engaged(l)
        PROVE  launcher[l].launch \in DOMAIN launches /\ launcher[l].launch # 0
               /\ IdOf(l) \in ProcessIds
    <3>1. launcher[l].launch \in DOMAIN launches
      BY <2>1 DEF LaunchesAreOwned
    <3>2. QED
      BY <3>1, ElementOfSeq, LenProperties DEF ProcessTyped, IdOf
  <2>2. \A l \in Launchers : launcher[l].at = "fork" \/ launcher[l].at = "record" => Engaged(l)
    BY DEF Engaged
  <2>3. \A l \in Launchers : launcher[l].at = "record" => launcher[l].pid \in Pids
    BY DEF PidsAreFresh
  <2>4. QED
    BY <1>1, <1>2, <1>4, <1>5, <2>1, <2>2, <2>3 DEF LaunchesAreOwned
<1>9. FilesLead'
  <2>1. \A i \in ProcessIds : files[i].pid # 0 => files[i].pid \in Pids
    BY DEF ProcessTyped
  <2>2. QED
    BY <1>1, <1>2, <1>4, <1>6, <2>1 DEF FilesLead
<1>10. QED
  BY <1>3, <1>4, <1>7, <1>8, <1>9

LEMMA LaunchKeeps ==
  ASSUME ProcessInv, NEW l \in Launchers, NEW i \in ProcessIds, ExecBackground(l, i)
  PROVE  ProcessInv'
<1> USE DEF ProcessInv
<1> DEFINE n == Len(launches) + 1
           new == [at |-> "fork", launch |-> n, pid |-> 0]
<1>1. /\ launcher[l].at = "idle" /\ box.state = "running"
      /\ launches' = Append(launches, i)
      /\ launcher' = [launcher EXCEPT ![l] = new]
      /\ files' = [files EXCEPT ![i].cmd = n]
      /\ doubtful' = IF Launching(i) THEN doubtful \cup {i} ELSE doubtful \ {i}
      /\ box' = box /\ procs' = procs /\ lastPid' = lastPid
  BY DEF ExecBackground
<1>2. /\ launches \in Seq(ProcessIds) /\ n \in Nat \ {0} /\ DOMAIN launches = 1 .. (n - 1)
      /\ launches' \in Seq(ProcessIds) /\ DOMAIN launches' = 1 .. n
      /\ \A k \in DOMAIN launches : launches'[k] = launches[k]
      /\ launches'[n] = i
  BY <1>1, AppendProperties, LenProperties DEF ProcessTyped
<1> HIDE DEF n
<1>3. \A m \in Launchers : launcher'[m] = IF m = l THEN new ELSE launcher[m]
  BY <1>1 DEF ProcessTyped
<1>4. \A m \in Launchers : m # l =>
         /\ Engaged(m)' <=> Engaged(m)
         /\ Engaged(m) => launcher[m].launch \in DOMAIN launches /\ IdOf(m)' = IdOf(m)
  BY <1>2, <1>3 DEF Engaged, IdOf, LaunchesAreOwned
<1>5. ~ Engaged(l) /\ Engaged(l)' /\ IdOf(l)' = i /\ launcher'[l].launch = n /\ launcher'[l].at = "fork"
  BY <1>1, <1>2, <1>3 DEF Engaged, IdOf
<1>6. \A j \in ProcessIds : /\ files'[j].pid = files[j].pid /\ files'[j].log = files[j].log
  BY <1>1 DEF ProcessTyped
<1>7. ProcessTyped'
  <2>1. files' \in [ProcessIds -> [cmd : Nat, log : Nat, pid : Pids \cup {0}]]
    BY ZenonT(60), <1>1, <1>2 DEF ProcessTyped
  <2>2. launcher' \in [Launchers -> [at : {"idle", "fork", "record"}, launch : Nat, pid : Pids \cup {0}]]
    BY <1>1, <1>2 DEF ProcessTyped
  <2>3. QED
    BY <1>1, <1>2, <2>1, <2>2 DEF ProcessTyped
<1>8. /\ LatestIsLast' /\ LatestLaunch(i)' = n
      /\ \A j \in ProcessIds \ {i} : LatestLaunch(j)' = LatestLaunch(j)
  <2>1. ASSUME NEW j \in ProcessIds \ {i} PROVE LatestLaunch(j)' = LatestLaunch(j)
    <3>1. {k \in DOMAIN launches' : launches'[k] = j} = {k \in DOMAIN launches : launches[k] = j}
      BY <1>2
    <3> DEFINE LastOf(S) == IF S = {} THEN 0 ELSE CHOOSE k \in S : \A m \in S : m <= k
    <3>2. /\ LatestLaunch(j)' = LastOf({k \in DOMAIN launches' : launches'[k] = j})
          /\ LatestLaunch(j) = LastOf({k \in DOMAIN launches : launches[k] = j})
      BY DEF LatestLaunch
    <3> HIDE DEF LastOf
    <3>3. QED
      BY <3>1, <3>2
  <2>2. LatestLaunch(i)' = n
    <3> DEFINE mine == {k \in DOMAIN launches' : launches'[k] = i}
               Greatest(k) == \A m \in mine : m <= k
    <3>1. n \in mine /\ Greatest(n)
      BY <1>2
    <3>2. \A k \in mine : Greatest(k) => k = n
      BY <3>1, <1>2
    <3>3. LatestLaunch(i)' = IF mine = {} THEN 0 ELSE CHOOSE k \in mine : Greatest(k)
      BY DEF LatestLaunch
    <3> HIDE DEF mine, Greatest
    <3>4. (CHOOSE k \in mine : Greatest(k)) = n
      BY <3>1, <3>2
    <3>5. QED
      BY <3>1, <3>3, <3>4
  <2>3. ASSUME NEW j \in ProcessIds
        PROVE  /\ LatestLaunch(j)' = 0 => \A k \in DOMAIN launches' : launches'[k] # j
               /\ LatestLaunch(j)' # 0 =>
                     /\ LatestLaunch(j)' \in DOMAIN launches' /\ launches'[LatestLaunch(j)'] = j
                     /\ \A k \in DOMAIN launches' : launches'[k] = j => k <= LatestLaunch(j)'
    <3>1. CASE j = i
      BY <3>1, <2>2, <1>2
    <3>2. CASE j # i
      BY <3>2, <2>1, <1>2 DEF LatestIsLast
    <3>3. QED
      BY <3>1, <3>2
  <2>4. LatestIsLast'
    BY <2>3 DEF LatestIsLast
  <2>5. QED
    BY <2>1, <2>2, <2>4
<1>9. Launching(i)'
  BY <1>5 DEF Launching, Engaged, IdOf
<1>10. \A j \in ProcessIds \ {i} : Launching(j)' <=> Launching(j)
  BY <1>3, <1>4, <1>5 DEF Launching, Engaged, IdOf
<1>11. StoppedIsEmpty'
  BY <1>1 DEF StoppedIsEmpty
<1>12. PidsAreFresh'
  <2>1. \A m \in Launchers : launcher'[m].at = "record" => m # l /\ launcher'[m] = launcher[m]
    BY <1>3
  <2>2. \A j \in ProcessIds \ doubtful' : Launching(j)' \/ files'[j].pid <= lastPid'
    BY <1>1, <1>6, <1>9, <1>10 DEF PidsAreFresh
  <2>3. QED
    BY <1>1, <1>2, <2>1, <2>2 DEF PidsAreFresh
<1>13. \A p \in Pids : procs[p] # n
  BY <1>2 DEF PidsAreFresh
<1>14. LaunchesAreOwned'
  <2>1. \A m \in Launchers : Engaged(m)' => launcher'[m].launch \in DOMAIN launches'
    BY <1>2, <1>3, <1>4, <1>5
  <2>2. \A m, k \in Launchers :
           Engaged(m)' /\ Engaged(k)' /\ launcher'[m].launch = launcher'[k].launch => m = k
    <3>1. \A m \in Launchers : m # l /\ Engaged(m) => launcher[m].launch # n
      BY <1>2, <1>4
    <3>2. QED
      BY <3>1, <1>3, <1>4, <1>5 DEF LaunchesAreOwned
  <2>3. \A m \in Launchers : launcher'[m].at = "fork" =>
           \A p \in Pids : procs'[p] # launcher'[m].launch
    BY <1>1, <1>3, <1>5, <1>13 DEF LaunchesAreOwned
  <2>4. \A m \in Launchers : launcher'[m].at = "record" =>
          /\ procs'[launcher'[m].pid] \in {0, launcher'[m].launch}
          /\ \A p \in Pids : procs'[p] = launcher'[m].launch => p = launcher'[m].pid
    BY <1>1, <1>3, <1>5 DEF LaunchesAreOwned
  <2>5. ASSUME NEW m \in Launchers, Engaged(m)', IdOf(m)' \notin doubtful'
        PROVE  /\ launcher'[m].launch = LatestLaunch(IdOf(m))'
               /\ \A k \in Launchers : Engaged(k)' /\ IdOf(k)' = IdOf(m)' => k = m
               /\ launcher'[m].at = "record" => files'[IdOf(m)'].log = launcher'[m].launch
    <3>1. CASE m = l
      <4>1. ~ Launching(i)
        BY <2>5, <3>1, <1>1, <1>5
      <4>2. \A k \in Launchers : k # l /\ Engaged(k) => IdOf(k) # i
        BY <4>1 DEF Launching, Engaged, IdOf
      <4>3. LatestLaunch(IdOf(m))' = n
        BY <3>1, <1>5, <1>8
      <4>4. QED
        BY <3>1, <4>2, <4>3, <1>4, <1>5
    <3>2. CASE m # l
      <4>1. /\ Engaged(m) /\ IdOf(m)' = IdOf(m) /\ IdOf(m) \in ProcessIds
            /\ launcher'[m] = launcher[m]
        BY <2>5, <3>2, <1>2, <1>3, <1>4, ElementOfSeq DEF IdOf
      <4>2. IdOf(m) # i
        <5>1. ASSUME IdOf(m) = i PROVE FALSE
          <6>1. Launching(i)
            BY <5>1, <4>1 DEF Launching, Engaged, IdOf
          <6>2. QED
            BY <5>1, <6>1, <2>5, <4>1, <1>1
        <5>2. QED
          BY <5>1
      <4>3. IdOf(m) \notin doubtful
        BY <2>5, <4>1, <4>2, <1>1
      <4>4. LatestLaunch(IdOf(m))' = LatestLaunch(IdOf(m))
        <5>1. PICK j \in ProcessIds : j = IdOf(m) /\ j = IdOf(m)'
          BY <4>1
        <5>2. LatestLaunch(j)' = LatestLaunch(j)
          BY <5>1, <4>2, <1>8
        <5>3. QED
          BY <5>1, <5>2 DEF LatestLaunch
      <4>5. \A k \in Launchers : Engaged(k)' /\ IdOf(k)' = IdOf(m)' => k = m
        BY <4>1, <4>2, <4>3, <1>4, <1>5 DEF LaunchesAreOwned
      <4>6. QED
        BY <4>1, <4>3, <4>4, <4>5, <1>6 DEF LaunchesAreOwned
    <3>3. QED
      BY <3>1, <3>2
  <2>6. QED
    BY <2>1, <2>2, <2>3, <2>4, <2>5 DEF LaunchesAreOwned
<1>15. FilesLead'
  BY <1>1, <1>6, <1>8, <1>9, <1>10 DEF FilesLead
<1>16. QED
  BY <1>7, <1>8, <1>11, <1>12, <1>14, <1>15

LEMMA ForkKeeps ==
  ASSUME ProcessInv, NEW l \in Launchers, Fork(l)
  PROVE  ProcessInv'
<1> USE DEF ProcessInv
<1> DEFINE p == lastPid + 1
           n == launcher[l].launch
           i == IdOf(l)
           new == [launcher[l] EXCEPT !.at = "record", !.pid = p]
<1>1. /\ launcher[l].at = "fork" /\ p \in Pids /\ lastPid' = p
      /\ procs' = [procs EXCEPT ![p] = n]
      /\ files' = [files EXCEPT ![i].log = n]
      /\ launcher' = [launcher EXCEPT ![l] = new]
      /\ box' = box /\ launches' = launches /\ doubtful' = doubtful
  BY DEF Fork, IdOf
<1>2. /\ launcher[l] \in [at : {"idle", "fork", "record"}, launch : Nat, pid : Pids \cup {0}]
      /\ n \in DOMAIN launches /\ n \in Nat \ {0} /\ i \in ProcessIds /\ lastPid \in Nat
      /\ p > lastPid
  <2>1. launcher[l] \in [at : {"idle", "fork", "record"}, launch : Nat, pid : Pids \cup {0}]
    BY DEF ProcessTyped
  <2>2. n \in DOMAIN launches
    BY <1>1 DEF LaunchesAreOwned, Engaged
  <2>3. n \in Nat \ {0} /\ i \in ProcessIds
    BY <2>2, ElementOfSeq, LenProperties DEF ProcessTyped, IdOf
  <2>4. lastPid \in Nat /\ p > lastPid
    BY DEF ProcessTyped
  <2>5. QED
    BY <2>1, <2>2, <2>3, <2>4
<1>3. /\ new \in [at : {"idle", "fork", "record"}, launch : Nat, pid : Pids \cup {0}]
      /\ new.at = "record" /\ new.launch = n /\ new.pid = p
  BY <1>1, <1>2
<1> HIDE DEF p, new, n, i
<1>4. /\ \A m \in Launchers : launcher'[m] = IF m = l THEN new ELSE launcher[m]
      /\ \A q \in Pids : procs'[q] = IF q = p THEN n ELSE procs[q]
      /\ \A j \in ProcessIds : /\ files'[j].pid = files[j].pid
                               /\ files'[j].log = IF j = i THEN n ELSE files[j].log
  BY <1>1 DEF ProcessTyped
<1>5. /\ \A m \in Launchers : (Engaged(m)' <=> Engaged(m)) /\ launcher'[m].launch = launcher[m].launch
      /\ Engaged(l)
  BY <1>1, <1>3, <1>4 DEF Engaged, n
<1>6. \A m \in Launchers : IdOf(m)' = IdOf(m)
  BY <1>1, <1>5 DEF IdOf
<1>7. \A j \in ProcessIds : Launching(j)' <=> Launching(j)
  BY <1>1, <1>5 DEF Launching, Engaged
<1>8. LatestIsLast' /\ \A j \in ProcessIds : LatestLaunch(j)' = LatestLaunch(j)
  BY <1>1, LatestStays
<1>9. ProcessTyped'
  <2>1. files' \in [ProcessIds -> [cmd : Nat, log : Nat, pid : Pids \cup {0}]]
    BY <1>1, <1>2 DEF ProcessTyped
  <2>2. launcher' \in [Launchers -> [at : {"idle", "fork", "record"}, launch : Nat, pid : Pids \cup {0}]]
    BY <1>1, <1>3 DEF ProcessTyped
  <2>3. procs' \in [Pids -> Nat]
    BY <1>1, <1>2 DEF ProcessTyped
  <2>4. lastPid' \in Nat
    BY <1>1, PidFacts
  <2>5. QED
    BY <1>1, <2>1, <2>2, <2>3, <2>4 DEF ProcessTyped
<1>10. StoppedIsEmpty'
  BY <1>1, <1>5 DEF StoppedIsEmpty
<1>11. procs[p] = 0 /\ \A q \in Pids : procs[q] # n
  <2>1. p \in Pids /\ ~ (p <= lastPid)
    BY <1>1, <1>2, PidFacts
  <2>2. procs[p] = 0
    BY <2>1 DEF PidsAreFresh
  <2>3. QED
    BY <2>2, <1>1 DEF LaunchesAreOwned, n
<1>12. PidsAreFresh'
  <2>1. \A q \in Pids : procs'[q] # 0 => q <= lastPid' /\ procs'[q] \in DOMAIN launches'
    BY <1>1, <1>2, <1>4, PidFacts DEF PidsAreFresh
  <2>2. \A q, k \in Pids : procs'[q] # 0 /\ procs'[q] = procs'[k] => q = k
    BY <1>4, <1>11 DEF PidsAreFresh
  <2>3. \A j \in ProcessIds \ doubtful' : Launching(j)' \/ files'[j].pid <= lastPid'
    <3> SUFFICES ASSUME NEW j \in ProcessIds \ doubtful', ~ Launching(j)'
                 PROVE  files'[j].pid <= lastPid'
      OBVIOUS
    <3>1. files[j].pid \in Pids \cup {0} /\ files[j].pid <= lastPid
      BY <1>1, <1>7 DEF PidsAreFresh, ProcessTyped
    <3>2. p \in Nat /\ files[j].pid \in Nat
      BY <3>1, <1>1, PidFacts
    <3>3. QED
      BY <3>1, <3>2, <1>1, <1>2, <1>4
  <2>4. \A m \in Launchers : launcher'[m].at = "record" =>
           launcher'[m].pid \in Pids /\ launcher'[m].pid <= lastPid'
    BY <1>1, <1>2, <1>3, <1>4, PidFacts DEF PidsAreFresh
  <2>5. QED
    BY <2>1, <2>2, <2>3, <2>4 DEF PidsAreFresh
<1>13. LaunchesAreOwned'
  <2>1. \A m \in Launchers : Engaged(m)' => launcher'[m].launch \in DOMAIN launches'
    BY <1>1, <1>5 DEF LaunchesAreOwned
  <2>2. \A m, k \in Launchers :
           Engaged(m)' /\ Engaged(k)' /\ launcher'[m].launch = launcher'[k].launch => m = k
    BY <1>5 DEF LaunchesAreOwned
  <2>3. ASSUME NEW m \in Launchers, m # l, Engaged(m)
        PROVE  launcher'[m] = launcher[m] /\ launcher[m].launch # n
    BY <2>3, <1>4, <1>5 DEF LaunchesAreOwned, n
  <2>4. \A m \in Launchers : launcher'[m].at = "fork" =>
           \A q \in Pids : procs'[q] # launcher'[m].launch
    <3> SUFFICES ASSUME NEW m \in Launchers, launcher'[m].at = "fork", NEW q \in Pids
                 PROVE  procs'[q] # launcher'[m].launch
      OBVIOUS
    <3>1. m # l /\ launcher[m].at = "fork" /\ Engaged(m)
      BY <1>3, <1>4 DEF Engaged
    <3>2. QED
      BY <3>1, <2>3, <1>4 DEF LaunchesAreOwned
  <2>5. ASSUME NEW m \in Launchers, launcher'[m].at = "record"
        PROVE  /\ procs'[launcher'[m].pid] \in {0, launcher'[m].launch}
               /\ \A q \in Pids : procs'[q] = launcher'[m].launch => q = launcher'[m].pid
    <3>1. CASE m = l
      BY <3>1, <1>1, <1>3, <1>4, <1>11
    <3>2. CASE m # l
      <4>1. Engaged(m) /\ launcher[m].at = "record" /\ launcher'[m] = launcher[m]
            /\ launcher[m].pid \in Pids /\ launcher[m].pid <= lastPid
        BY <2>5, <3>2, <1>4 DEF Engaged, PidsAreFresh
      <4>2. launcher[m].pid # p
        BY <4>1, <1>1, <1>2, PidFacts
      <4>3. launcher[m].launch # n
        BY <2>3, <3>2, <4>1
      <4>4. QED
        BY <4>1, <4>2, <4>3, <1>4 DEF LaunchesAreOwned
    <3>3. QED
      BY <3>1, <3>2
  <2>6. ASSUME NEW m \in Launchers, Engaged(m)', IdOf(m)' \notin doubtful'
        PROVE  /\ launcher'[m].launch = LatestLaunch(IdOf(m))'
               /\ \A k \in Launchers : Engaged(k)' /\ IdOf(k)' = IdOf(m)' => k = m
               /\ launcher'[m].at = "record" => files'[IdOf(m)'].log = launcher'[m].launch
    <3>1. Engaged(m) /\ IdOf(m) \notin doubtful /\ IdOf(m)' = IdOf(m)
      BY <2>6, <1>1, <1>5, <1>6
    <3>2. IdOf(m) \in ProcessIds
      BY <3>1, ElementOfSeq DEF LaunchesAreOwned, ProcessTyped, IdOf
    <3>3. LatestLaunch(IdOf(m))' = LatestLaunch(IdOf(m))
      BY <3>1, <1>1 DEF LatestLaunch
    <3>4. \A k \in Launchers : Engaged(k) /\ IdOf(k) = IdOf(m) => k = m
      BY <3>1 DEF LaunchesAreOwned
    <3>5. launcher'[m].at = "record" => files'[IdOf(m)].log = launcher'[m].launch
      <4>1. CASE m = l
        BY <4>1, <3>2, <1>3, <1>4 DEF i
      <4>2. CASE m # l
        <5>1. IdOf(m) # i /\ launcher'[m] = launcher[m]
          BY <4>2, <3>1, <3>4, <1>4, <1>5 DEF i
        <5>2. QED
          BY <5>1, <3>1, <3>2, <1>4 DEF LaunchesAreOwned
      <4>3. QED
        BY <4>1, <4>2
    <3>6. \A k \in Launchers : Engaged(k)' /\ IdOf(k)' = IdOf(m)' => k = m
      BY <3>1, <3>4, <1>5, <1>6
    <3>7. QED
      BY <3>1, <3>3, <3>5, <3>6, <1>5 DEF LaunchesAreOwned
  <2>7. QED
    BY <2>1, <2>2, <2>4, <2>5, <2>6 DEF LaunchesAreOwned
<1>14. FilesLead'
  <2> SUFFICES ASSUME NEW j \in ProcessIds \ doubtful', LatestLaunch(j)' # 0, ~ Launching(j)',
                      files'[j].pid # 0
               PROVE  /\ files'[j].log = LatestLaunch(j)'
                      /\ procs'[files'[j].pid] \in {0, LatestLaunch(j)'}
                      /\ \A q \in Pids : procs'[q] = LatestLaunch(j)' => q = files'[j].pid
    BY DEF FilesLead
  <2>1. /\ j \in ProcessIds \ doubtful /\ ~ Launching(j) /\ LatestLaunch(j)' = LatestLaunch(j)
        /\ files[j].pid = files'[j].pid
    BY <1>1, <1>4, <1>7, <1>8
  <2>2. Launching(i) /\ j # i
    BY <2>1, <1>5 DEF Launching, Engaged, IdOf, i
  <2>3. files[j].pid \in Pids /\ files[j].pid <= lastPid /\ files[j].pid # p
    <3>1. files[j].pid \in Pids /\ files[j].pid <= lastPid
      BY <2>1 DEF ProcessTyped, PidsAreFresh
    <3>2. QED
      BY <3>1, <1>1, <1>2, PidFacts
  <2>4. LatestLaunch(j) # n
    <3>1. launches[LatestLaunch(j)] = j
      BY <2>1 DEF LatestIsLast
    <3>2. launches[n] = i
      BY DEF i, n, IdOf
    <3>3. QED
      BY <3>1, <3>2, <2>2
  <2>5. /\ files[j].log = LatestLaunch(j)
        /\ procs[files[j].pid] \in {0, LatestLaunch(j)}
        /\ \A q \in Pids : procs[q] = LatestLaunch(j) => q = files[j].pid
    BY <2>1 DEF FilesLead
  <2>6. QED
    BY <2>1, <2>2, <2>3, <2>4, <2>5, <1>4
<1>15. QED
  BY <1>8, <1>9, <1>10, <1>12, <1>13, <1>14

LEMMA RecordKeeps ==
  ASSUME ProcessInv, NEW l \in Launchers, RecordPid(l)
  PROVE  ProcessInv'
<1> USE DEF ProcessInv
<1> DEFINE i == IdOf(l)
           p == launcher[l].pid
<1>1. /\ launcher[l].at = "record"
      /\ files' = [files EXCEPT ![i].pid = p]
      /\ launcher' = [launcher EXCEPT ![l] = IdleLauncher]
      /\ box' = box /\ procs' = procs /\ lastPid' = lastPid
      /\ launches' = launches /\ doubtful' = doubtful
  BY DEF RecordPid, IdOf
<1>2. Engaged(l) /\ p \in Pids /\ p <= lastPid /\ i \in ProcessIds
      /\ launcher[l].launch \in DOMAIN launches
  <2>1. Engaged(l) /\ p \in Pids /\ p <= lastPid
    BY <1>1 DEF Engaged, PidsAreFresh
  <2>2. launcher[l].launch \in DOMAIN launches
    BY <2>1 DEF LaunchesAreOwned
  <2>3. QED
    BY <2>1, <2>2, ElementOfSeq DEF ProcessTyped, IdOf
<1>3. IdleLauncher \in [at : {"idle", "fork", "record"}, launch : Nat, pid : Pids \cup {0}]
      /\ IdleLauncher.at = "idle"
  BY DEF IdleLauncher
<1> HIDE DEF i, p
<1>4. /\ \A m \in Launchers : launcher'[m] = IF m = l THEN IdleLauncher ELSE launcher[m]
      /\ \A j \in ProcessIds : /\ files'[j].log = files[j].log
                               /\ files'[j].pid = IF j = i THEN p ELSE files[j].pid
  BY <1>1 DEF ProcessTyped
<1>5. \A m \in Launchers : Engaged(m)' => m # l /\ Engaged(m) /\ launcher'[m] = launcher[m]
                                       /\ IdOf(m)' = IdOf(m)
  BY <1>1, <1>3, <1>4 DEF Engaged, IdOf
<1>6. \A j \in ProcessIds : /\ Launching(j)' => Launching(j)
                            /\ j # i => (Launching(j) => Launching(j)')
  <2>1. ASSUME NEW j \in ProcessIds, Launching(j)' PROVE Launching(j)
    <3>1. PICK m \in Launchers : launcher'[m].at # "idle" /\ launches'[launcher'[m].launch] = j
      BY <2>1 DEF Launching
    <3>2. QED
      BY <3>1, <1>1, <1>3, <1>4 DEF Launching
  <2>2. ASSUME NEW j \in ProcessIds, j # i, Launching(j) PROVE Launching(j)'
    <3>1. PICK m \in Launchers : launcher[m].at # "idle" /\ launches[launcher[m].launch] = j
      BY <2>2 DEF Launching
    <3>2. m # l
      BY <3>1, <2>2 DEF i, IdOf
    <3>3. QED
      BY <3>1, <3>2, <1>1, <1>4 DEF Launching
  <2>3. QED
    BY <2>1, <2>2
<1>7. LatestIsLast' /\ \A j \in ProcessIds : LatestLaunch(j)' = LatestLaunch(j)
  BY <1>1, LatestStays
<1>8. ProcessTyped'
  <2>1. files' \in [ProcessIds -> [cmd : Nat, log : Nat, pid : Pids \cup {0}]]
    BY <1>1, <1>2 DEF ProcessTyped
  <2>2. launcher' \in [Launchers -> [at : {"idle", "fork", "record"}, launch : Nat, pid : Pids \cup {0}]]
    BY <1>1, <1>3 DEF ProcessTyped
  <2>3. QED
    BY <1>1, <2>1, <2>2 DEF ProcessTyped
<1>9. StoppedIsEmpty'
  BY <1>1, <1>5 DEF StoppedIsEmpty
<1>10. PidsAreFresh'
  <2>1. \A j \in ProcessIds \ doubtful' : Launching(j)' \/ files'[j].pid <= lastPid'
    BY <1>1, <1>2, <1>4, <1>6 DEF PidsAreFresh
  <2>2. \A m \in Launchers : launcher'[m].at = "record" =>
           launcher'[m].pid \in Pids /\ launcher'[m].pid <= lastPid'
    BY <1>1, <1>5 DEF PidsAreFresh, Engaged
  <2>3. QED
    BY <1>1, <2>1, <2>2 DEF PidsAreFresh
<1>11. LaunchesAreOwned'
  <2>1. \A m \in Launchers : launcher'[m].at = "fork" \/ launcher'[m].at = "record" => Engaged(m)'
    BY DEF Engaged
  <2>2. ASSUME NEW m \in Launchers, Engaged(m)', IdOf(m)' \notin doubtful'
        PROVE  /\ launcher'[m].launch = LatestLaunch(IdOf(m))'
               /\ \A k \in Launchers : Engaged(k)' /\ IdOf(k)' = IdOf(m)' => k = m
               /\ launcher'[m].at = "record" => files'[IdOf(m)'].log = launcher'[m].launch
    <3>1. m # l /\ Engaged(m) /\ IdOf(m) \notin doubtful /\ IdOf(m)' = IdOf(m)
          /\ launcher'[m] = launcher[m]
      BY <2>2, <1>1, <1>5
    <3>2. IdOf(m) \in ProcessIds
      BY <3>1, ElementOfSeq DEF LaunchesAreOwned, ProcessTyped, IdOf
    <3>3. LatestLaunch(IdOf(m))' = LatestLaunch(IdOf(m))
      BY <3>1, <1>1 DEF LatestLaunch
    <3>4. \A k \in Launchers : Engaged(k)' /\ IdOf(k)' = IdOf(m)' => k = m
      BY <3>1, <1>5 DEF LaunchesAreOwned
    <3>5. QED
      BY <3>1, <3>2, <3>3, <3>4, <1>4 DEF LaunchesAreOwned
  <2>3. /\ \A m \in Launchers : Engaged(m)' => launcher'[m].launch \in DOMAIN launches'
        /\ \A m, k \in Launchers :
             Engaged(m)' /\ Engaged(k)' /\ launcher'[m].launch = launcher'[k].launch => m = k
    BY <1>1, <1>5 DEF LaunchesAreOwned
  <2>4. /\ \A m \in Launchers : launcher'[m].at = "fork" =>
             \A q \in Pids : procs'[q] # launcher'[m].launch
        /\ \A m \in Launchers : launcher'[m].at = "record" =>
             /\ procs'[launcher'[m].pid] \in {0, launcher'[m].launch}
             /\ \A q \in Pids : procs'[q] = launcher'[m].launch => q = launcher'[m].pid
    BY <2>1, <1>1, <1>5 DEF LaunchesAreOwned
  <2>5. QED
    BY <2>2, <2>3, <2>4 DEF LaunchesAreOwned
<1>12. FilesLead'
  <2> SUFFICES ASSUME NEW j \in ProcessIds \ doubtful', LatestLaunch(j)' # 0, ~ Launching(j)',
                      files'[j].pid # 0
               PROVE  /\ files'[j].log = LatestLaunch(j)'
                      /\ procs'[files'[j].pid] \in {0, LatestLaunch(j)'}
                      /\ \A q \in Pids : procs'[q] = LatestLaunch(j)' => q = files'[j].pid
    BY DEF FilesLead
  <2>1. j \in ProcessIds \ doubtful /\ LatestLaunch(j)' = LatestLaunch(j)
    BY <1>1, <1>7
  <2>2. CASE j = i
    <3>1. /\ launcher[l].launch = LatestLaunch(IdOf(l))
          /\ files[IdOf(l)].log = launcher[l].launch
          /\ procs[launcher[l].pid] \in {0, launcher[l].launch}
          /\ \A q \in Pids : procs[q] = launcher[l].launch => q = launcher[l].pid
      BY <2>1, <2>2, <1>1, <1>2 DEF LaunchesAreOwned, i
    <3>2. /\ files[j].log = LatestLaunch(j)
          /\ procs[p] \in {0, LatestLaunch(j)}
          /\ \A q \in Pids : procs[q] = LatestLaunch(j) => q = p
      BY <3>1, <2>2 DEF i, p
    <3>3. QED
      BY <3>2, <2>1, <2>2, <1>1, <1>4
  <2>3. CASE j # i
    BY <2>1, <2>3, <1>1, <1>4, <1>6 DEF FilesLead
  <2>4. QED
    BY <2>2, <2>3
<1>13. QED
  BY <1>7, <1>8, <1>9, <1>10, <1>11, <1>12

-----------------------------------------------------------------------------
LEMMA ProcessStep == ProcessInv /\ [DockerNext]_dockerVars => ProcessInv'
<1> SUFFICES ASSUME ProcessInv, [DockerNext]_dockerVars PROVE ProcessInv'
  OBVIOUS
<1>1. ASSUME UNCHANGED <<box, procs, lastPid, files, launcher, launches, doubtful>>
      PROVE  ProcessInv'
  <2>1. /\ box' = box /\ procs' = procs /\ lastPid' = lastPid /\ files' = files
        /\ launcher' = launcher /\ launches' = launches /\ doubtful' = doubtful
    BY <1>1
  <2>2. ProcessTyped' /\ StoppedIsEmpty'
    BY <2>1 DEF ProcessInv, ProcessTyped, StoppedIsEmpty, Engaged
  <2>3. LatestIsLast' /\ \A i \in ProcessIds : LatestLaunch(i)' = LatestLaunch(i)
    BY <2>1, LatestStays DEF ProcessInv
  <2>4. \A i \in ProcessIds : Launching(i)' <=> Launching(i)
    BY <2>1 DEF Launching
  <2>5. PidsAreFresh' /\ FilesLead'
    BY <2>1, <2>3, <2>4 DEF ProcessInv, PidsAreFresh, FilesLead
  <2>6. LaunchesAreOwned'
    BY <2>1 DEF ProcessInv, LaunchesAreOwned, Engaged, IdOf, LatestLaunch
  <2>7. QED
    BY <2>2, <2>3, <2>5, <2>6 DEF ProcessInv
<1>2. ASSUME NEW sub, NEW args, RunDockerTool(sub, args) PROVE ProcessInv'
  BY <1>1, <1>2 DEF RunDockerTool
<1>3. ASSUME NEW p \in Pids, ProcessEnds(p) PROVE ProcessInv'
  BY <1>3, EndKeepsProcesses DEF ProcessEnds
<1>4. ASSUME NEW i \in ProcessIds, ExecSignal(i) PROVE ProcessInv'
  <2>1. files[i].pid \in Pids
    BY <1>4 DEF ExecSignal, SeenRunning, ProcessInv, ProcessTyped
  <2>2. QED
    BY <1>4, <2>1, EndKeepsProcesses DEF ExecSignal
<1>5. CASE UNCHANGED dockerVars
  BY <1>1, <1>5 DEF dockerVars
<1>6. CASE DockerNext
  BY <1>2, <1>3, <1>4, <1>6, BoxKeeps, LaunchKeeps, ForkKeeps, RecordKeeps DEF DockerNext
<1>7. QED
  BY <1>5, <1>6

LEMMA ProcessIdsName == ProcessInv => ProcessIdNamesItsProcess
<1> SUFFICES ASSUME ProcessInv, NEW i \in ProcessIds, LatestLaunch(i) # 0, i \notin doubtful,
                    ~ Launching(i), files[i].pid # 0
             PROVE  /\ ExecTail(i) = [output |-> LatestLaunch(i),
                                      running |-> Alive(LatestLaunch(i))]
                    /\ ExecTail(i).running => procs[files[i].pid] = LatestLaunch(i)
  BY DEF ProcessIdNamesItsProcess
<1>1. /\ files[i].log = LatestLaunch(i)
      /\ procs[files[i].pid] \in {0, LatestLaunch(i)}
      /\ \A p \in Pids : procs[p] = LatestLaunch(i) => p = files[i].pid
  BY DEF ProcessInv, FilesLead
<1>2. files[i].pid \in Pids
  BY DEF ProcessInv, ProcessTyped
<1>3. SeenRunning(i) = Alive(LatestLaunch(i))
  <2>1. SeenRunning(i) <=> Alive(LatestLaunch(i))
    BY <1>1, <1>2 DEF SeenRunning, Alive
  <2>2. SeenRunning(i) \in BOOLEAN /\ Alive(LatestLaunch(i)) \in BOOLEAN
    BY DEF SeenRunning, Alive
  <2>3. QED
    BY <2>1, <2>2
<1>4. ExecTail(i) = [output |-> LatestLaunch(i), running |-> Alive(LatestLaunch(i))]
  BY <1>1, <1>3 DEF ExecTail
<1>5. ExecTail(i).running => procs[files[i].pid] = LatestLaunch(i)
  BY <1>1 DEF ExecTail, SeenRunning
<1>6. QED
  BY <1>4, <1>5

-----------------------------------------------------------------------------
(* All of them.                                                            *)

ToolsInv == PolicyInv /\ ShellInv /\ ProcessInv /\ FilesInv

LEMMA ToolsStart == ToolsInit => ToolsInv
BY PolicyStart, ShellStart, ProcessStart, FilesStart DEF ToolsInit, ToolsInv

\* A step of one part is a step of that part, and none of the others.
LEMMA PartsStep ==
  [ToolsNext]_toolsVars => /\ [ToolStateNext]_toolVars /\ [ShellNext]_shellVars
                           /\ [DockerNext]_dockerVars /\ [FileToolsNext]_fileVars
<1> SUFFICES ASSUME [ToolsNext]_toolsVars
             PROVE  /\ [ToolStateNext]_toolVars /\ [ShellNext]_shellVars
                    /\ [DockerNext]_dockerVars /\ [FileToolsNext]_fileVars
  OBVIOUS
<1>1. CASE UNCHANGED toolsVars
  BY <1>1 DEF toolsVars
<1>2. CASE ToolsNext
  BY <1>2 DEF ToolsNext
<1>3. QED
  BY <1>1, <1>2

LEMMA ToolsStep == ToolsInv /\ [ToolsNext]_toolsVars => ToolsInv'
BY PartsStep, PolicyStep, ShellStep, ProcessStep, FilesStep DEF ToolsInv

THEOREM ToolsInvariant == ToolsSpec => []ToolsInv
BY ToolsStart, ToolsStep, PTL DEF ToolsSpec

\* What a tool reports is what it did: hidden tools can be found and a child is
\* bound by its parent's policy; what a script did arrives in the workspace; files
\* that no two calls touch at once hold what the calls report, pages are the file
\* and searches are complete; and a process id names its process (runtime.go:386-420,
\* shell_workspace.go, tools_files.go, docker/runner.go).
THEOREM ToolsTellTheTruth == ToolsSpec => []ToolsDoAsTold
<1>1. ToolsInv => ToolsDoAsTold
  BY PolicyBinds, PolicyGivesTypes, ShellArrives, ProcessIdsName, FilesAre
     DEF ToolsInv, PolicyInv, ToolsDoAsTold, ToolPolicyHolds
<1>2. QED
  BY <1>1, ToolsInvariant, PTL

\* The types of the tool policy, the restricted shell and the file tools.
THEOREM ToolPartsTypes == ToolsSpec => [](ToolStateTypeOK /\ ShellTypeOK /\ FileToolsTypeOK)
<1>1. ToolsInv => ToolStateTypeOK /\ ShellTypeOK /\ FileToolsTypeOK
  BY PolicyGivesTypes, FilesAre DEF ToolsInv, ShellInv
<1>2. QED
  BY <1>1, ToolsInvariant, PTL
================================================================================
