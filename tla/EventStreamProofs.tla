------------------------- MODULE EventStreamProofs -------------------------
(***************************************************************************)
(* Proofs about EventStream, for any number of writers, clients and        *)
(* connections, and any size of the channels and batches.                  *)
(*                                                                         *)
(* NoSendOnClosed rests on the life of a connection (ConnectionsOK): it    *)
(* subscribes once, before it ends, and only an ended one is unsubscribed  *)
(* and then closed.  InOrder rests on the position of a client being ahead *)
(* of all it was sent (Behind).  BacklogLeavesNoGap rests on every id a    *)
(* client was sent following the one before it, or having come through the *)
(* bus (Gapless).                                                          *)
(***************************************************************************)
EXTENDS EventStream, SequenceTheorems, WellFoundedInduction, TLAPS

ConnectionsOK ==
  /\ \A x \in gone : x[2] <= conn[x[1]]
  /\ \A c \in Clients : reader[c] # "away" => Current(c) \notin gone /\ conn[c] >= 1
  /\ shut \subseteq gone \ subs

Behind == \A c \in Clients : \A i \in DOMAIN got[c] : got[c][i] <= after[c]

Inv == TypeOK /\ ConnectionsOK /\ InOrder /\ Behind

-----------------------------------------------------------------------------
(* What is read from the log.                                              *)

\* The least of two numbers.
LEMMA MinOfTwo ==
  ASSUME NEW a \in Nat, NEW b \in Nat
  PROVE  Min({a, b}) \in Nat /\ Min({a, b}) <= a /\ Min({a, b}) <= b
<1>1. \E x \in {a, b} : \A y \in {a, b} : x <= y
  OBVIOUS
<1>2. Min({a, b}) \in {a, b} /\ \A y \in {a, b} : Min({a, b}) <= y
  BY <1>1 DEF Min
<1> QED
  BY <1>2

\* ListAgentRunEventsAfter returns the ids that follow n, in order.
LEMMA ListedFollow ==
  ASSUME log \in Seq(Kinds), NEW n \in Ids
  PROVE  /\ Listed(n) \in Seq(Ids)
         /\ n + Len(Listed(n)) \in Ids
         /\ DOMAIN Listed(n) = 1..Len(Listed(n))
         /\ \A i \in 1..Len(Listed(n)) : Listed(n)[i] = n + i
<1> DEFINE k == Min({Batch, Len(log) - n})
<1>1. Len(log) \in Nat /\ n \in Nat /\ Len(log) - n \in Nat
  BY DEF Ids
<1>2. k \in Nat /\ k <= Len(log) - n
  BY <1>1, MinOfTwo, StreamAssumption
<1>3. Listed(n) = [i \in 1..k |-> n + i]
  BY DEF Listed
<1> HIDE DEF k
<1>4. \A i \in 1..k : n + i \in Ids
  BY <1>1, <1>2 DEF Ids
<1>5. Listed(n) \in Seq(Ids) /\ Len(Listed(n)) = k
  BY <1>2, <1>3, <1>4
<1> QED
  BY <1>1, <1>2, <1>3, <1>5 DEF Ids

\* Only kinds of events are emitted.
LEMMA EmitsKinds ==
  ASSUME NEW w \in Writers, pos[w] \in 1..(Len(Program(w)) + 1), Does(w, "emit")
  PROVE  What(w) \in Kinds
<1>1. CASE w = Executor
  <2>1. Program(w) = <<Emit("plan_ready"), Rewrite("completed"), Emit("trace_chunk"),
                       Rewrite("completed"), Emit("status")>>
    BY <1>1 DEF Program
  <2>2. pos[w] \in 1..5
    BY <2>1 DEF Does
  <2> QED
    BY <2>1, <2>2 DEF Does, What, Kinds, Emit, Rewrite
<1>2. CASE w # Executor
  BY <1>2 DEF Program, Does, What, Kinds, Emit
<1> QED
  BY <1>1, <1>2

\* A program has a length.
LEMMA LengthOfProgram ==
  ASSUME NEW w \in Writers
  PROVE  Len(Program(w)) \in Nat
BY DEF Program

-----------------------------------------------------------------------------
(* Types.                                                                  *)

\* Initially.
LEMMA InitInv ==
  ASSUME Init
  PROVE  Inv
<1> USE StreamAssumption DEF Init
<1>1. Ids = {0} /\ \A w \in Writers : Len(Program(w)) \in Nat
  BY LengthOfProgram DEF Ids
<1>2. WritersTyped
  <2>1. over \in BOOLEAN
    OBVIOUS
  <2>2. log \in Seq(Kinds) /\ last \in Ids
    BY <1>1
  <2>3. half \in [Writers -> BOOLEAN]
    OBVIOUS
  <2>4. /\ \A w \in Writers : pos[w] \in 1..(Len(Program(w)) + 1)
        /\ DOMAIN pos = Writers
        /\ kept \in [Writers -> Ids]
    BY <1>1
  <2> QED
    BY <2>1, <2>2, <2>3, <2>4 DEF WritersTyped
<1>3. BusTyped
  BY <1>1 DEF BusTyped
<1>4. ReadersTyped
  BY DEF ReadersTyped
<1>5. SentTyped /\ CliTyped
  BY <1>1 DEF SentTyped, CliTyped
<1>6. ConnectionsOK
  BY DEF ConnectionsOK
<1>7. InOrder /\ Behind
  BY DEF InOrder, Behind
<1> QED
  BY <1>2, <1>3, <1>4, <1>5, <1>6, <1>7 DEF Inv, TypeOK

\* The current connection of a client that is connected exists.
LEMMA CurrentConnection ==
  ASSUME Inv, NEW c \in Clients, reader[c] # "away"
  PROVE  Current(c) \in Conns
<1>1. conn[c] \in 1..MaxConnections
  BY StreamAssumption DEF Inv, TypeOK, ReadersTyped, ConnectionsOK
<1> QED
  BY <1>1 DEF Current, Conns

\* A writer keeps the types.
LEMMA WriterTypes ==
  ASSUME Inv, NEW w \in Writers, WriterStep(w)
  PROVE  TypeOK'
<1> USE DEF Inv, TypeOK
<1>1. /\ Len(log) \in Nat /\ Len(Program(w)) \in Nat
      /\ pos[w] \in 1..(Len(Program(w)) + 1)
      /\ kept[w] \in Ids
  BY LengthOfProgram DEF WritersTyped
<1>2. CASE CreateEvent(w)
  <2>1. What(w) \in Kinds
    BY <1>1, <1>2, EmitsKinds DEF CreateEvent
  <2>2. log' \in Seq(Kinds) /\ Len(log') = Len(log) + 1
    BY <1>2, <2>1 DEF CreateEvent, WritersTyped
  <2>3. Ids \subseteq Ids' /\ Len(log) + 1 \in Ids'
    BY <1>1, <2>2 DEF Ids
  <2>4. Seq(Ids) \subseteq Seq(Ids')
    BY <2>3
  <2>5. WritersTyped'
    BY <1>2, <2>2, <2>3 DEF CreateEvent, WritersTyped
  <2>6. BusTyped'
    BY <1>2, <2>4 DEF CreateEvent, BusTyped, busVars
  <2>7. ReadersTyped'
    BY <1>2 DEF CreateEvent, ReadersTyped, clientVars
  <2>8. SentTyped' /\ CliTyped'
    BY <1>2, <2>3, <2>4 DEF CreateEvent, SentTyped, CliTyped, clientVars
  <2> QED
    BY <2>5, <2>6, <2>7, <2>8
<1>3. CASE Publish(w)
  <2>1. Ids' = Ids
    BY <1>3 DEF Publish, Ids
  <2>2. WritersTyped'
    BY <1>1, <1>3, <2>1 DEF Publish, Proceed, Does, WritersTyped
  <2>3. ASSUME NEW x \in Conns
        PROVE  chan'[x] \in Seq(Ids) /\ Len(chan'[x]) <= Capacity
    <3>1. chan[x] \in Seq(Ids) /\ Len(chan[x]) <= Capacity
      BY DEF BusTyped
    <3>2. chan'[x] = IF Receives(w, x) THEN Append(chan[x], kept[w]) ELSE chan[x]
      BY <1>3 DEF Publish, BusTyped
    <3> QED
      BY <1>1, <3>1, <3>2, StreamAssumption DEF Receives
  <2>4. BusTyped'
    BY <1>3, <2>1, <2>3 DEF Publish, BusTyped
  <2>5. ReadersTyped' /\ SentTyped' /\ CliTyped'
    BY <1>3, <2>1 DEF Publish, ReadersTyped, SentTyped, CliTyped, clientVars
  <2> QED
    BY <2>2, <2>4, <2>5
<1>4. CASE ReadRow(w) \/ WriteRow(w)
  <2>1. Ids' = Ids
    BY <1>4 DEF ReadRow, WriteRow, Ids
  <2>2. ASSUME ReadRow(w)
        PROVE  WritersTyped'
    BY <1>1, <2>1, <2>2 DEF ReadRow, WritersTyped
  <2>3. ASSUME WriteRow(w)
        PROVE  WritersTyped'
    <3>1. over' \in BOOLEAN
      BY <2>3 DEF WriteRow, WritersTyped
    <3> QED
      BY <1>1, <2>1, <2>3, <3>1 DEF WriteRow, Proceed, Does, WritersTyped
  <2>4. WritersTyped'
    BY <1>4, <2>2, <2>3
  <2>5. BusTyped' /\ ReadersTyped' /\ SentTyped' /\ CliTyped'
    BY <1>4, <2>1 DEF ReadRow, WriteRow, BusTyped, ReadersTyped, SentTyped, CliTyped, busVars, clientVars
  <2> QED
    BY <2>4, <2>5
<1> QED
  BY <1>2, <1>3, <1>4 DEF WriterStep

\* A writer leaves the clients and the life of their connections alone.
LEMMA WriterInv ==
  ASSUME Inv, NEW w \in Writers, WriterStep(w)
  PROVE  Inv'
<1>1. UNCHANGED <<clientVars, subs, shut, gone>>
  BY DEF WriterStep, CreateEvent, Publish, ReadRow, WriteRow, busVars
<1>2. ConnectionsOK' /\ InOrder' /\ Behind'
  BY <1>1 DEF Inv, ConnectionsOK, InOrder, Behind, Current, clientVars
<1> QED
  BY <1>2, WriterTypes DEF Inv

-----------------------------------------------------------------------------
(* The life of a connection.                                               *)

\* The end of a connection on the bus keeps the invariant.
LEMMA BusInv ==
  ASSUME Inv, NEW x \in Conns, Unsubscribe(x) \/ CloseChannel(x)
  PROVE  Inv'
<1> USE DEF Inv, TypeOK, Unsubscribe, CloseChannel
<1>1. UNCHANGED <<writerVars, clientVars, cli, cliAfter, chan, gone>>
  OBVIOUS
<1>2. Ids' = Ids
  BY <1>1 DEF Ids, writerVars
<1>3. WritersTyped' /\ ReadersTyped' /\ SentTyped' /\ CliTyped'
  BY <1>1, <1>2 DEF WritersTyped, ReadersTyped, SentTyped, CliTyped, writerVars, clientVars
<1>4. BusTyped'
  BY <1>1, <1>2 DEF BusTyped
<1>5. shut' \subseteq gone' \ subs'
  BY DEF ConnectionsOK
<1>6. ConnectionsOK'
  BY <1>1, <1>5 DEF ConnectionsOK, Current, clientVars
<1>7. InOrder' /\ Behind'
  BY <1>1 DEF InOrder, Behind, clientVars
<1> QED
  BY <1>3, <1>4, <1>6, <1>7

\* The CLI keeps the invariant.
LEMMA CliInv ==
  ASSUME Inv, Replay \/ ReadStatus
  PROVE  Inv'
<1> USE DEF Inv, TypeOK, Replay, ReadStatus
<1>1. UNCHANGED <<writerVars, busVars, clientVars>>
  OBVIOUS
<1>2. Ids' = Ids
  BY <1>1 DEF Ids, writerVars
<1>3. WritersTyped' /\ BusTyped' /\ ReadersTyped' /\ SentTyped'
  BY <1>1, <1>2 DEF WritersTyped, BusTyped, ReadersTyped, SentTyped, writerVars, busVars, clientVars
<1>4. CliTyped'
  <2>1. cliAfter + Len(Listed(cliAfter)) \in Ids
    BY ListedFollow DEF WritersTyped, CliTyped
  <2> QED
    BY <1>2, <2>1 DEF CliTyped
<1>5. ConnectionsOK' /\ InOrder' /\ Behind'
  BY <1>1 DEF ConnectionsOK, InOrder, Behind, Current, busVars, clientVars
<1> QED
  BY <1>3, <1>4, <1>5

\* The steps of a client's handler that send nothing
Silent(c) ==
  Connect(c) \/ Subscribe(c) \/ ShouldClose(c) \/ Poll(c) \/ Disconnect(c)

\* So does what sends nothing to a client.
LEMMA SilentInv ==
  ASSUME Inv, NEW c \in Clients, Silent(c)
  PROVE  Inv'
<1> USE DEF Inv, TypeOK, Silent, Goto
<1>1. UNCHANGED <<writerVars, cli, cliAfter, after, got, live, shut, chan>>
  BY DEF Connect, Subscribe, ShouldClose, Poll, Disconnect, busVars
<1>2. Ids' = Ids
  BY <1>1 DEF Ids, writerVars
<1>3. WritersTyped' /\ SentTyped' /\ CliTyped'
  BY <1>1, <1>2 DEF WritersTyped, SentTyped, CliTyped, writerVars
<1>4. InOrder' /\ Behind'
  BY <1>1 DEF InOrder, Behind
<1>5. ReadersTyped'
  BY StreamAssumption DEF Connect, Subscribe, ShouldClose, Poll, Disconnect, ReadersTyped, clientVars
<1>6. reader[c] # "away" => Current(c) \in Conns
  BY CurrentConnection
<1>7. subs' \subseteq Conns /\ gone' \subseteq Conns
  BY <1>6 DEF Connect, Subscribe, ShouldClose, Poll, Disconnect, busVars, BusTyped
<1>8. BusTyped'
  BY <1>1, <1>2, <1>7 DEF BusTyped
<1>9. ConnectionsOK'
  <2>1. \A x \in gone : x[1] \in Clients /\ x[2] \in Nat /\ x[2] <= conn[x[1]]
    BY StreamAssumption DEF BusTyped, ConnectionsOK, Conns
  <2>2. \A d \in Clients : conn[d] \in Nat
    BY StreamAssumption DEF ReadersTyped
  <2>3. CASE Connect(c)
    <3>1. UNCHANGED <<subs, shut, gone>>
      BY <2>3 DEF Connect, busVars
    <3>2. /\ conn'[c] = conn[c] + 1 /\ \A d \in Clients \ {c} : conn'[d] = conn[d]
          /\ \A d \in Clients \ {c} : reader'[d] = reader[d]
      BY <2>3 DEF Connect, ReadersTyped
    <3>3. \A x \in gone' : x[2] <= conn'[x[1]]
      BY <2>1, <2>2, <3>1, <3>2
    <3>4. <<c, conn'[c]>> \notin gone'
      BY <2>1, <2>2, <3>1, <3>2
    <3>5. \A d \in Clients : reader'[d] # "away" => <<d, conn'[d]>> \notin gone' /\ conn'[d] >= 1
      BY <2>2, <3>1, <3>2, <3>4 DEF ConnectionsOK, Current
    <3> QED
      BY <3>1, <3>3, <3>5 DEF ConnectionsOK, Current
  <2>4. CASE Subscribe(c) \/ Poll(c)
    <3>1. UNCHANGED <<shut, gone, conn>>
      BY <2>4 DEF Subscribe, Poll, busVars
    <3>2. \A d \in Clients : reader'[d] # "away" => reader[d] # "away"
      BY <2>4 DEF Subscribe, Poll, ReadersTyped
    <3>3. shut' \subseteq gone' \ subs'
      BY <2>4 DEF Subscribe, Poll, ConnectionsOK, busVars
    <3> QED
      BY <3>1, <3>2, <3>3 DEF ConnectionsOK, Current
  <2>5. CASE ShouldClose(c) \/ Disconnect(c)
    <3>1. UNCHANGED <<subs, shut, conn>> /\ reader[c] # "away"
      BY <2>5 DEF ShouldClose, Disconnect
    <3>2. \/ reader' = [reader EXCEPT ![c] = "away"] /\ gone' = gone \union {Current(c)}
          \/ reader' = [reader EXCEPT ![c] = "select"] /\ gone' = gone
      BY <2>5 DEF ShouldClose, Disconnect
    <3>3. \A x \in gone' : x[2] <= conn'[x[1]]
      BY <2>1, <2>2, <3>1, <3>2 DEF Current
    <3>4. \A d \in Clients : reader'[d] # "away" => <<d, conn'[d]>> \notin gone' /\ conn'[d] >= 1
      BY <3>1, <3>2 DEF ConnectionsOK, Current, ReadersTyped
    <3>5. shut' \subseteq gone' \ subs'
      BY <3>1, <3>2 DEF ConnectionsOK
    <3> QED
      BY <3>3, <3>4, <3>5 DEF ConnectionsOK, Current
  <2> QED
    BY <2>3, <2>4, <2>5
<1> QED
  BY <1>3, <1>4, <1>5, <1>8, <1>9

-----------------------------------------------------------------------------
(* What a client is sent.                                                  *)

Increasing(s) == \A i, j \in 1..Len(s) : i < j => s[i] < s[j]

\* Numbers that increase beyond n, put after numbers that increase up to n
LEMMA IncreasingConcat ==
  ASSUME NEW S \in SUBSET Nat, NEW s \in Seq(S), NEW t \in Seq(S), NEW n \in S, NEW m,
         Increasing(s), \A i \in 1..Len(s) : s[i] <= n,
         Increasing(t), \A i \in 1..Len(t) : t[i] > n,
         m = IF t = <<>> THEN n ELSE t[Len(t)]
  PROVE  /\ s \o t \in Seq(S) /\ m \in S
         /\ Increasing(s \o t)
         /\ \A i \in 1..Len(s \o t) : (s \o t)[i] <= m
<1>1. Len(s) \in Nat /\ Len(t) \in Nat /\ n \in Nat
  OBVIOUS
<1>2. /\ s \o t \in Seq(S)
      /\ Len(s \o t) = Len(s) + Len(t)
      /\ \A i \in 1..Len(s) : (s \o t)[i] = s[i]
      /\ \A i \in (Len(s) + 1)..(Len(s) + Len(t)) : (s \o t)[i] = t[i - Len(s)]
  BY ConcatProperties, <1>1
<1>3. \A i \in 1..Len(s) : s[i] \in S /\ s[i] \in Nat
  BY ElementOfSeq
<1>4. \A i \in 1..Len(t) : t[i] \in S /\ t[i] \in Nat
  BY ElementOfSeq
<1>5. m \in S /\ m \in Nat /\ m >= n /\ \A i \in 1..Len(t) : t[i] <= m
  <2>1. CASE t = <<>>
    BY <1>1, <2>1
  <2>2. CASE t # <<>>
    <3>1. Len(t) \in 1..Len(t) /\ m = t[Len(t)]
      BY <1>1, <2>2, EmptySeq
    <3>2. \A i \in 1..Len(t) : i # Len(t) => i < Len(t)
      BY <1>1
    <3>3. \A i \in 1..Len(t) : i # Len(t) => t[i] < t[Len(t)]
      BY <3>1, <3>2 DEF Increasing
    <3> QED
      BY <1>1, <1>4, <3>1, <3>3
  <2> QED
    BY <2>1, <2>2
<1> DEFINE u == s \o t
<1> HIDE DEF u
<1>6. ASSUME NEW i \in 1..Len(u), NEW j \in 1..Len(u), i < j
      PROVE  u[i] < u[j]
  <2>1. CASE j <= Len(s)
    <3>1. i \in 1..Len(s) /\ j \in 1..Len(s)
      BY <1>1, <1>6, <2>1
    <3>2. u[i] = s[i] /\ u[j] = s[j]
      BY <1>2, <3>1 DEF u
    <3> QED
      BY <1>6, <3>1, <3>2 DEF Increasing
  <2>2. CASE i <= Len(s) /\ j > Len(s)
    <3>1. i \in 1..Len(s) /\ j \in (Len(s) + 1)..(Len(s) + Len(t)) /\ j - Len(s) \in 1..Len(t)
      BY <1>1, <1>2, <2>2 DEF u
    <3>2. u[i] = s[i] /\ u[j] = t[j - Len(s)]
      BY <1>2, <3>1 DEF u
    <3>3. s[i] \in Nat /\ s[i] <= n /\ t[j - Len(s)] \in Nat /\ t[j - Len(s)] > n
      BY <1>3, <1>4, <3>1
    <3> QED
      BY <1>1, <3>2, <3>3
  <2>3. CASE i > Len(s)
    <3>1. /\ i \in (Len(s) + 1)..(Len(s) + Len(t)) /\ i - Len(s) \in 1..Len(t)
          /\ j \in (Len(s) + 1)..(Len(s) + Len(t)) /\ j - Len(s) \in 1..Len(t)
          /\ i - Len(s) < j - Len(s)
      BY <1>1, <1>2, <1>6, <2>3 DEF u
    <3>2. u[i] = t[i - Len(s)] /\ u[j] = t[j - Len(s)]
      BY <1>2, <3>1 DEF u
    <3> QED
      BY <3>1, <3>2 DEF Increasing
  <2> QED
    BY <1>1, <2>1, <2>2, <2>3
<1>7. ASSUME NEW i \in 1..Len(u)
      PROVE  u[i] <= m
  <2>1. CASE i <= Len(s)
    <3>1. u[i] = s[i] /\ i \in 1..Len(s)
      BY <1>2, <2>1 DEF u
    <3> QED
      BY <1>1, <1>3, <1>5, <3>1
  <2>2. CASE i > Len(s)
    <3>1. i \in (Len(s) + 1)..(Len(s) + Len(t)) /\ i - Len(s) \in 1..Len(t)
      BY <1>1, <1>2, <2>2 DEF u
    <3>2. u[i] = t[i - Len(s)]
      BY <1>2, <3>1 DEF u
    <3> QED
      BY <1>5, <3>1, <3>2
  <2> QED
    BY <1>1, <2>1, <2>2
<1> QED
  BY <1>2, <1>5, <1>6, <1>7 DEF u, Increasing

\* Sending ids that increase from the client's position on keeps the order.
LEMMA SendKeepsOrder ==
  ASSUME TypeOK, InOrder, Behind,
         NEW c \in Clients, NEW ids \in Seq(Ids), Send(c, ids), Ids' = Ids,
         \A i \in 1..Len(ids) : ids[i] > after[c], Increasing(ids)
  PROVE  /\ after' \in [Clients -> Ids]
         /\ DOMAIN got' = Clients
         /\ \A d \in Clients : got'[d] \in Seq(Ids)
         /\ InOrder'
         /\ Behind'
<1>1. /\ Ids \in SUBSET Nat /\ after[c] \in Ids /\ got[c] \in Seq(Ids)
      /\ after \in [Clients -> Ids] /\ DOMAIN got = Clients
      /\ \A d \in Clients : got[d] \in Seq(Ids)
  BY DEF Ids, TypeOK, SentTyped
<1>2. /\ \A d \in Clients \ {c} : got'[d] = got[d] /\ after'[d] = after[d]
      /\ got'[c] = got[c] \o ids /\ DOMAIN got' = Clients /\ DOMAIN after' = Clients
      /\ after'[c] = IF ids = <<>> THEN after[c] ELSE ids[Len(ids)]
  BY <1>1 DEF Send
<1>3. DOMAIN got[c] = 1..Len(got[c])
  BY <1>1
<1>4. Increasing(got[c]) /\ \A i \in 1..Len(got[c]) : got[c][i] <= after[c]
  BY <1>3 DEF InOrder, Behind, Increasing
<1>5. /\ got'[c] \in Seq(Ids) /\ after'[c] \in Ids
      /\ Increasing(got[c] \o ids)
      /\ \A i \in 1..Len(got[c] \o ids) : (got[c] \o ids)[i] <= after'[c]
  <2>1. PICK m : m = after'[c]
    OBVIOUS
  <2>2. PICK s : s = got[c]
    OBVIOUS
  <2>3. PICK n : n = after[c]
    OBVIOUS
  <2>4. PICK S : S = Ids
    OBVIOUS
  <2>5. m = IF ids = <<>> THEN n ELSE ids[Len(ids)]
    BY <1>2, <2>1, <2>3
  <2>6. /\ S \in SUBSET Nat /\ n \in S /\ s \in Seq(S) /\ ids \in Seq(S)
        /\ Increasing(s) /\ \A i \in 1..Len(s) : s[i] <= n
        /\ Increasing(ids) /\ \A i \in 1..Len(ids) : ids[i] > n
    BY <1>1, <1>4, <2>2, <2>3, <2>4
  <2>7. /\ s \o ids \in Seq(S) /\ m \in S
        /\ Increasing(s \o ids)
        /\ \A i \in 1..Len(s \o ids) : (s \o ids)[i] <= m
    BY <2>5, <2>6, IncreasingConcat
  <2> QED
    BY <1>2, <2>1, <2>2, <2>4, <2>7
<1>6. DOMAIN (got[c] \o ids) = 1..Len(got[c] \o ids)
  BY <1>2, <1>5
<1>7. \A i, j \in DOMAIN got'[c] : i < j => got'[c][i] < got'[c][j]
  BY <1>2, <1>5, <1>6 DEF Increasing
<1>8. \A i \in DOMAIN got'[c] : got'[c][i] <= after'[c]
  BY <1>2, <1>5, <1>6
<1>9. after' \in [Clients -> Ids]
  BY <1>1, <1>5 DEF Send
<1>10. \A d \in Clients : got'[d] \in Seq(Ids)
  BY <1>1, <1>2, <1>5
<1>11. InOrder'
  BY <1>2, <1>7 DEF InOrder
<1>12. Behind'
  BY <1>2, <1>8 DEF Behind
<1> QED
  BY <1>2, <1>9, <1>10, <1>11, <1>12

\* Sending the backlog keeps the invariant.
LEMMA FlushInv ==
  ASSUME Inv, NEW c \in Clients, FlushBacklog(c)
  PROVE  Inv'
<1> USE DEF Inv, TypeOK
<1>1. UNCHANGED <<writerVars, busVars, conn, live, cli, cliAfter>> /\ Send(c, Listed(after[c]))
  BY DEF FlushBacklog
<1>2. Ids' = Ids
  BY <1>1 DEF Ids, writerVars
<1>3. after[c] \in Ids /\ after[c] \in Nat
  BY DEF SentTyped, Ids
<1>4. /\ Listed(after[c]) \in Seq(Ids)
      /\ \A i \in 1..Len(Listed(after[c])) : Listed(after[c])[i] = after[c] + i
  BY <1>3, ListedFollow DEF WritersTyped
<1>5. /\ after' \in [Clients -> Ids]
      /\ DOMAIN got' = Clients
      /\ \A d \in Clients : got'[d] \in Seq(Ids)
      /\ InOrder'
      /\ Behind'
  <2>1. /\ \A i \in 1..Len(Listed(after[c])) : Listed(after[c])[i] > after[c]
        /\ Increasing(Listed(after[c]))
    BY <1>3, <1>4 DEF Increasing
  <2> QED
    BY <1>1, <1>2, <1>4, <2>1, SendKeepsOrder
<1>6. WritersTyped' /\ BusTyped' /\ CliTyped'
  BY <1>1, <1>2 DEF WritersTyped, BusTyped, CliTyped, writerVars, busVars
<1>7. SentTyped'
  BY <1>1, <1>2, <1>5 DEF SentTyped
<1>8. ReadersTyped'
  BY <1>1 DEF FlushBacklog, ReadersTyped
<1>9. \A d \in Clients : reader'[d] # "away" => reader[d] # "away"
  BY DEF FlushBacklog, ReadersTyped
<1>10. ConnectionsOK'
  BY <1>1, <1>9 DEF ConnectionsOK, Current, busVars
<1> QED
  BY <1>5, <1>6, <1>7, <1>8, <1>10

\* Sending an event of the channel keeps the invariant.
LEMMA TakeInv ==
  ASSUME Inv, NEW c \in Clients, TakeLive(c)
  PROVE  Inv'
<1> DEFINE x == Current(c)
           id == Head(chan[x])
<1> USE DEF Inv, TypeOK
<1>1. /\ UNCHANGED <<writerVars, subs, shut, gone, conn, cli, cliAfter>>
      /\ chan[x] # <<>> /\ chan' = [chan EXCEPT ![x] = Tail(@)]
      /\ reader[c] = "select"
  BY DEF TakeLive
<1>2. \/ id <= after[c] /\ UNCHANGED <<reader, after, got, live>>
      \/ /\ ~(id <= after[c]) /\ Send(c, <<id>>)
         /\ live' = [live EXCEPT ![c] = @ \union {id}]
         /\ reader' = [reader EXCEPT ![c] = "check"]
  BY DEF TakeLive
<1>3. Ids' = Ids
  BY <1>1 DEF Ids, writerVars
<1>4. x \in Conns
  BY <1>1, CurrentConnection
<1>5. chan[x] \in Seq(Ids) /\ Len(chan[x]) <= Capacity
  BY <1>4 DEF BusTyped
<1>6. id \in Ids /\ Tail(chan[x]) \in Seq(Ids) /\ Len(Tail(chan[x])) <= Capacity
  BY <1>1, <1>5, StreamAssumption
<1>7. Ids \subseteq Nat /\ after[c] \in Ids
  BY DEF Ids, SentTyped
<1> HIDE DEF x, id
<1>8. BusTyped'
  BY <1>1, <1>3, <1>6 DEF BusTyped
<1>9. WritersTyped' /\ CliTyped'
  BY <1>1, <1>3 DEF WritersTyped, CliTyped, writerVars
<1>10. ReadersTyped'
  BY <1>1, <1>2 DEF ReadersTyped
<1>11. \A d \in Clients : reader'[d] # "away" => reader[d] # "away"
  BY <1>1, <1>2 DEF ReadersTyped
<1>12. ConnectionsOK'
  BY <1>1, <1>11 DEF ConnectionsOK, Current
<1>13. SentTyped' /\ InOrder' /\ Behind'
  <2>1. CASE UNCHANGED <<reader, after, got, live>>
    BY <1>3, <2>1 DEF SentTyped, InOrder, Behind
  <2>2. CASE ~(id <= after[c]) /\ Send(c, <<id>>) /\ live' = [live EXCEPT ![c] = @ \union {id}]
    <3>1. id > after[c]
      <4>1. id \in Nat /\ after[c] \in Nat
        BY <1>6, <1>7
      <4> QED
        BY <2>2, <4>1
    <3>2. <<id>> \in Seq(Ids) /\ Len(<<id>>) = 1 /\ <<id>>[1] = id /\ id > after[c]
      BY <1>6, <3>1
    <3>3. \A i \in 1..Len(<<id>>) : <<id>>[i] > after[c]
      BY <3>2
    <3>4. Increasing(<<id>>)
      BY <3>2 DEF Increasing
    <3>5. /\ after' \in [Clients -> Ids]
          /\ DOMAIN got' = Clients
          /\ \A d \in Clients : got'[d] \in Seq(Ids)
          /\ InOrder'
          /\ Behind'
      BY <1>3, <2>2, <3>2, <3>3, <3>4, SendKeepsOrder
    <3>6. DOMAIN live' = Clients /\ \A d \in Clients : live'[d] \subseteq Ids
      BY <1>6, <2>2 DEF SentTyped
    <3> QED
      BY <1>3, <3>5, <3>6 DEF SentTyped
  <2> QED
    BY <1>2, <2>1, <2>2
<1> QED
  BY <1>8, <1>9, <1>10, <1>12, <1>13

-----------------------------------------------------------------------------
(* The theorems.                                                           *)

\* The invariant is inductive.
LEMMA StepInv ==
  ASSUME Inv, [Next]_vars
  PROVE  Inv'
<1>1. CASE \E w \in Writers : WriterStep(w)
  BY <1>1, WriterInv
<1>2. CASE \E x \in Conns : Unsubscribe(x) \/ CloseChannel(x)
  BY <1>2, BusInv
<1>3. CASE \E c \in Clients : StreamStep(c) \/ Connect(c) \/ Disconnect(c)
  BY <1>3, SilentInv, FlushInv, TakeInv DEF StreamStep, Silent
<1>4. CASE Replay \/ ReadStatus
  BY <1>4, CliInv
<1>5. CASE UNCHANGED vars
  BY <1>5 DEF Inv, TypeOK, WritersTyped, BusTyped, ReadersTyped, SentTyped, CliTyped, Ids,
     ConnectionsOK, Current, InOrder, Behind, vars, writerVars, busVars, clientVars
<1> QED
  BY <1>1, <1>2, <1>3, <1>4, <1>5 DEF Next

\* The invariant holds.
LEMMA Invariance == Spec => []Inv
<1>1. Init => Inv
  BY InitInv
<1>2. Inv /\ [Next]_vars => Inv'
  BY StepInv
<1> QED
  BY <1>1, <1>2, PTL DEF Spec

\* Every event id that a writer, a channel, a client or the CLI holds names a
\* row of agent_run_events, and Publish never fills a channel beyond its room.
THEOREM TypeCorrect == Spec => []TypeOK
<1>1. Inv => TypeOK
  BY DEF Inv
<1> QED
  BY <1>1, Invariance, PTL

\* EventBus.Publish never meets a closed channel, whenever requests end.
THEOREM PublishIsSafe == Spec => []NoSendOnClosed
<1>1. Inv => NoSendOnClosed
  BY DEF Inv, ConnectionsOK, NoSendOnClosed
<1> QED
  BY <1>1, Invariance, PTL

\* An event stream sends each event at most once and in the order of the log,
\* over all connections of its client.
THEOREM EventsInOrder == Spec => []InOrder
<1>1. Inv => InOrder
  BY DEF Inv
<1> QED
  BY <1>1, Invariance, PTL


-----------------------------------------------------------------------------
(* What a client misses.                                                   *)

\* Each number of s follows the one before it, n at first, or is in L.
Chained(s, n, L) ==
  \A i \in 1..Len(s) : s[i] \in L \/ s[i] = (IF i = 1 THEN n ELSE s[i - 1]) + 1

\* A client is at the last id it was sent, and each of them follows the one
\* before it or came through the bus.
Gapless ==
  \A c \in Clients : /\ after[c] = IF got[c] = <<>> THEN 0 ELSE got[c][Len(got[c])]
                     /\ Chained(got[c], 0, live[c])

\* A set of numbers has a least one, and Min chooses it.
LEMMA LeastOf ==
  ASSUME NEW S \in SUBSET Nat, S # {}
  PROVE  Min(S) \in S /\ \A y \in S : Min(S) <= y
<1> DEFINE R == OpToRel(<, Nat)
<1>1. IsWellFoundedOn(R, Nat)
  BY NatLessThanWellFounded
<1>2. \A x, y \in Nat : y < x => <<y, x>> \in R
  BY DEF OpToRel
<1> HIDE DEF R
<1>3. PICK x \in S : \A y \in S : ~(<<y, x>> \in R)
  BY <1>1, WFMin
<1>4. ASSUME NEW y \in S PROVE x <= y
  <2>1. x \in Nat /\ y \in Nat
    OBVIOUS
  <2>2. ~(y < x)
    BY <1>2, <1>3, <2>1
  <2> QED
    BY <2>1, <2>2
<1> QED
  BY <1>4 DEF Min

\* What follows on something chained is chained with it.
LEMMA ChainedConcat ==
  ASSUME NEW s \in Seq(Nat), NEW t \in Seq(Nat), NEW n \in Nat, NEW m, NEW k, NEW L, NEW K,
         Chained(s, n, L), Chained(t, m, K), L \subseteq K,
         m = IF s = <<>> THEN n ELSE s[Len(s)],
         k = IF t = <<>> THEN m ELSE t[Len(t)]
  PROVE  /\ Chained(s \o t, n, K)
         /\ k = IF s \o t = <<>> THEN n ELSE (s \o t)[Len(s \o t)]
<1>1. Len(s) \in Nat /\ Len(t) \in Nat
  OBVIOUS
<1>2. /\ s \o t \in Seq(Nat)
      /\ Len(s \o t) = Len(s) + Len(t)
      /\ \A i \in 1..Len(s) : (s \o t)[i] = s[i]
      /\ \A i \in (Len(s) + 1)..(Len(s) + Len(t)) : (s \o t)[i] = t[i - Len(s)]
  BY ConcatProperties, <1>1
<1> DEFINE u == s \o t
<1> HIDE DEF u
<1>3. ASSUME NEW i \in 1..Len(u)
      PROVE  u[i] \in K \/ u[i] = (IF i = 1 THEN n ELSE u[i - 1]) + 1
  <2>1. CASE i <= Len(s)
    <3>1. i \in 1..Len(s) /\ u[i] = s[i]
      BY <1>1, <1>2, <2>1 DEF u
    <3>2. i # 1 => i - 1 \in 1..Len(s) /\ u[i - 1] = s[i - 1]
      BY <1>1, <1>2, <3>1 DEF u
    <3> QED
      BY <3>1, <3>2 DEF Chained
  <2>2. CASE i > Len(s)
    <3>1. /\ i \in (Len(s) + 1)..(Len(s) + Len(t)) /\ i - Len(s) \in 1..Len(t)
          /\ u[i] = t[i - Len(s)]
      BY <1>1, <1>2, <2>2 DEF u
    <3>2. u[i] \in K \/ u[i] = (IF i - Len(s) = 1 THEN m ELSE t[(i - Len(s)) - 1]) + 1
      BY <3>1 DEF Chained
    <3>3. (IF i - Len(s) = 1 THEN m ELSE t[(i - Len(s)) - 1]) = (IF i = 1 THEN n ELSE u[i - 1])
      <4>1. CASE i - Len(s) = 1
        <5>1. CASE Len(s) = 0
          <6>1. s = <<>> /\ i = 1
            BY <1>1, <4>1, <5>1
          <6> QED
            BY <4>1, <6>1
        <5>2. CASE Len(s) # 0
          <6>1. s # <<>> /\ i # 1 /\ i - 1 = Len(s) /\ Len(s) \in 1..Len(s)
            BY <1>1, <4>1, <5>2
          <6>2. u[i - 1] = s[Len(s)]
            BY <1>2, <6>1 DEF u
          <6> QED
            BY <4>1, <6>1, <6>2
        <5> QED
          BY <5>1, <5>2
      <4>2. CASE i - Len(s) # 1
        <5>1. /\ i - 1 \in (Len(s) + 1)..(Len(s) + Len(t)) /\ i # 1
              /\ (i - 1) - Len(s) = (i - Len(s)) - 1
          <6>1. i \in Nat /\ i >= Len(s) + 2 /\ i <= Len(s) + Len(t)
            BY <1>1, <3>1, <4>2
          <6> QED
            BY <1>1, <6>1
        <5>2. u[i - 1] = t[(i - Len(s)) - 1]
          BY <1>2, <5>1 DEF u
        <5> QED
          BY <4>2, <5>1, <5>2
      <4> QED
        BY <4>1, <4>2
    <3> QED
      BY <3>2, <3>3
  <2> QED
    BY <1>1, <2>1, <2>2
<1>4. k = IF u = <<>> THEN n ELSE u[Len(u)]
  <2>1. CASE t = <<>>
    <3>1. u = s
      BY <2>1 DEF u
    <3> QED
      BY <2>1, <3>1
  <2>2. CASE t # <<>>
    <3>1. Len(t) \in 1..Len(t) /\ Len(t) # 0
      BY <1>1, <2>2, EmptySeq
    <3>2. Len(u) \in (Len(s) + 1)..(Len(s) + Len(t)) /\ Len(u) - Len(s) = Len(t) /\ u # <<>>
      BY <1>1, <1>2, <3>1 DEF u
    <3>3. u[Len(u)] = t[Len(t)]
      BY <1>2, <3>2 DEF u
    <3> QED
      BY <2>2, <3>2, <3>3
  <2> QED
    BY <2>1, <2>2
<1> QED
  BY <1>3, <1>4 DEF Chained, u

\* Sending ids that follow the client's position, or came through the bus
LEMMA SendKeepsGapless ==
  ASSUME TypeOK, TypeOK', Gapless, NEW c \in Clients, NEW ids \in Seq(Ids), Send(c, ids),
         Chained(ids, after[c], live'[c]), live[c] \subseteq live'[c],
         \A d \in Clients \ {c} : live'[d] = live[d]
  PROVE  Gapless'
<1>1. /\ Ids \in SUBSET Nat /\ after[c] \in Nat /\ got[c] \in Seq(Nat) /\ ids \in Seq(Nat)
      /\ after \in [Clients -> Ids] /\ DOMAIN got = Clients
  BY DEF Ids, TypeOK, SentTyped
<1>2. /\ \A d \in Clients \ {c} : got'[d] = got[d] /\ after'[d] = after[d]
      /\ got'[c] = got[c] \o ids
      /\ after'[c] = IF ids = <<>> THEN after[c] ELSE ids[Len(ids)]
  BY <1>1 DEF Send
<1>3. PICK s, n, m, L, K : s = got[c] /\ n = after[c] /\ m = after'[c] /\ L = live[c] /\ K = live'[c]
  OBVIOUS
<1>4. /\ s \in Seq(Nat) /\ Chained(s, 0, L) /\ Chained(ids, n, K) /\ L \subseteq K
      /\ n = IF s = <<>> THEN 0 ELSE s[Len(s)]
      /\ m = IF ids = <<>> THEN n ELSE ids[Len(ids)]
  BY <1>1, <1>2, <1>3 DEF Gapless
<1>5. /\ Chained(s \o ids, 0, K)
      /\ m = IF s \o ids = <<>> THEN 0 ELSE (s \o ids)[Len(s \o ids)]
  BY <1>1, <1>4, ChainedConcat
<1>6. /\ after'[c] = IF got'[c] = <<>> THEN 0 ELSE got'[c][Len(got'[c])]
      /\ Chained(got'[c], 0, live'[c])
  BY <1>2, <1>3, <1>5
<1> QED
  BY <1>2, <1>6 DEF Gapless

\* Every step keeps Gapless.
LEMMA StepGapless ==
  ASSUME Inv, Inv', Gapless, [Next]_vars
  PROVE  Gapless'
<1>1. CASE UNCHANGED <<after, got, live>>
  BY <1>1 DEF Gapless
<1>2. ASSUME NEW c \in Clients, FlushBacklog(c) PROVE Gapless'
  <2>1. live' = live /\ Send(c, Listed(after[c]))
    BY <1>2 DEF FlushBacklog
  <2>2. after[c] \in Ids /\ after[c] \in Nat
    BY DEF Inv, TypeOK, SentTyped, Ids
  <2>3. /\ Listed(after[c]) \in Seq(Ids)
        /\ \A i \in 1..Len(Listed(after[c])) : Listed(after[c])[i] = after[c] + i
    BY <2>2, ListedFollow DEF Inv, TypeOK, WritersTyped
  <2>4. PICK s, n : s = Listed(after[c]) /\ n = after[c]
    OBVIOUS
  <2>5. Chained(s, n, live'[c])
    <3> SUFFICES ASSUME NEW i \in 1..Len(s)
                 PROVE  s[i] = (IF i = 1 THEN n ELSE s[i - 1]) + 1
      BY DEF Chained
    <3>1. Len(s) \in Nat /\ n \in Nat /\ \A j \in 1..Len(s) : s[j] = n + j
      BY <2>2, <2>3, <2>4
    <3>2. i # 1 => i - 1 \in 1..Len(s)
      BY <3>1
    <3> QED
      BY <3>1, <3>2
  <2> QED
    BY <2>1, <2>3, <2>4, <2>5, SendKeepsGapless DEF Inv
<1>3. ASSUME NEW c \in Clients, TakeLive(c), ~UNCHANGED <<after, got, live>> PROVE Gapless'
  <2>1. PICK id : id = Head(chan[Current(c)])
    OBVIOUS
  <2>2. /\ Send(c, <<id>>) /\ live' = [live EXCEPT ![c] = @ \union {id}]
        /\ reader[c] = "select" /\ chan[Current(c)] # <<>>
    BY <1>3, <2>1 DEF TakeLive
  <2>3. id \in Ids
    <3>1. chan[Current(c)] \in Seq(Ids)
      BY <2>2, CurrentConnection DEF Inv, TypeOK, BusTyped
    <3> QED
      BY <2>1, <2>2, <3>1
  <2>4. /\ live'[c] = live[c] \union {id}
        /\ \A d \in Clients \ {c} : live'[d] = live[d]
    BY <2>2 DEF Inv, TypeOK, SentTyped
  <2>5. Chained(<<id>>, after[c], live'[c])
    BY <2>4 DEF Chained
  <2>6. TypeOK /\ TypeOK' /\ <<id>> \in Seq(Ids) /\ live[c] \subseteq live'[c]
    BY <2>3, <2>4 DEF Inv
  <2> QED
    BY <2>2, <2>4, <2>5, <2>6, SendKeepsGapless
<1>4. \/ UNCHANGED <<after, got, live>>
      \/ \E c \in Clients : FlushBacklog(c) \/ TakeLive(c)
  BY DEF Next, WriterStep, CreateEvent, Publish, ReadRow, WriteRow, Unsubscribe, CloseChannel,
         StreamStep, Subscribe, ShouldClose, Poll, Connect, Disconnect, Replay, ReadStatus,
         vars, clientVars
<1> QED
  BY <1>1, <1>2, <1>3, <1>4

\* The first id beyond a missed one does not follow the one before it.
LEMMA GaplessLeavesNoGap ==
  ASSUME Inv, Gapless
  PROVE  BacklogLeavesNoGap
<1> SUFFICES ASSUME NEW c \in Clients, NEW id \in 1..after[c],
                    \A i \in DOMAIN got[c] : got[c][i] # id
             PROVE  LET next == {n \in {got[c][i] : i \in DOMAIN got[c]} : n > id} IN
                      next # {} /\ Min(next) \in live[c]
  BY DEF BacklogLeavesNoGap
<1> DEFINE next == {n \in {got[c][i] : i \in DOMAIN got[c]} : n > id}
<1>1. /\ got[c] \in Seq(Nat) /\ after[c] \in Nat /\ id \in Nat /\ id >= 1 /\ id <= after[c]
      /\ Len(got[c]) \in Nat /\ DOMAIN got[c] = 1..Len(got[c])
      /\ \A i \in DOMAIN got[c] : got[c][i] \in Nat
  BY DEF Inv, TypeOK, SentTyped, Ids
<1>2. next \in SUBSET Nat
  BY <1>1
<1>3. next # {}
  <2>1. got[c] # <<>> /\ after[c] = got[c][Len(got[c])]
    BY <1>1 DEF Gapless
  <2>2. Len(got[c]) \in DOMAIN got[c]
    BY <1>1, <2>1, EmptySeq
  <2>3. got[c][Len(got[c])] > id
    BY <1>1, <2>1, <2>2
  <2> QED
    BY <2>2, <2>3
<1>4. Min(next) \in next /\ \A y \in next : Min(next) <= y
  BY <1>2, <1>3, LeastOf
<1> DEFINE m == Min(next)
<1> HIDE DEF m
<1>5. PICK k \in DOMAIN got[c] : m = got[c][k]
  BY <1>4 DEF m
<1>6. m > id /\ m \in Nat /\ k \in 1..Len(got[c])
  BY <1>1, <1>4, <1>5 DEF m
<1>7. m # (IF k = 1 THEN 0 ELSE got[c][k - 1]) + 1
  <2>1. CASE k = 1
    BY <1>1, <1>6, <2>1
  <2>2. CASE k # 1
    <3>1. k - 1 \in DOMAIN got[c] /\ k - 1 < k
      BY <1>1, <1>6, <2>2
    <3>2. got[c][k - 1] < m
      BY <1>5, <3>1 DEF Inv, InOrder
    <3>3. ~(got[c][k - 1] > id)
      <4>1. SUFFICES ASSUME got[c][k - 1] > id PROVE FALSE
        OBVIOUS
      <4>2. got[c][k - 1] \in next
        BY <3>1, <4>1
      <4>3. m <= got[c][k - 1]
        BY <1>4, <4>2 DEF m
      <4> QED
        BY <1>1, <1>6, <3>1, <3>2, <4>3
    <3> QED
      BY <1>1, <1>6, <2>2, <3>1, <3>3
  <2> QED
    BY <2>1, <2>2
<1>8. m \in live[c]
  BY <1>5, <1>6, <1>7 DEF Gapless, Chained
<1> QED
  BY <1>3, <1>8 DEF m

\* Whatever the bus drops or another process writes, an event stream misses an
\* event only behind one that came through the bus.
THEOREM BacklogIsGapless == Spec => []BacklogLeavesNoGap
<1>1. Init => Inv /\ Gapless
  <2>1. Init => Gapless
    BY DEF Init, Gapless, Chained
  <2> QED
    BY <2>1, InitInv
<1>2. (Inv /\ Gapless) /\ [Next]_vars => (Inv /\ Gapless)'
  BY StepInv, StepGapless
<1>3. Inv /\ Gapless => BacklogLeavesNoGap
  BY GaplessLeavesNoGap
<1> QED
  BY <1>1, <1>2, <1>3, PTL DEF Spec
=============================================================================
