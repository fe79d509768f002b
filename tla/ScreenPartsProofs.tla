----------------------------- MODULE ScreenPartsProofs -----------------------------
(***************************************************************************)
(* What holds of the web app's screens for every value of their constants: *)
(* the thread list, the model picker, the connection form, the SQL editor, *)
(* the table view and the tab strips, each by an inductive invariant; and  *)
(* of the SQL texts that the editor reads in one way and the server in     *)
(* another.  PartsProofs puts them together.                               *)
(*                                                                         *)
(* What a filter or another scan of a list computes is shown by induction: *)
(* the library's theorem of least elements (WFMin) needs no operator as a  *)
(* parameter, so that a set of counterexamples has a first one.            *)
(***************************************************************************)
EXTENDS Threads, ModelChoice, ConnectionForm, SqlEditor, TableView, Workspace, SqlText,
        WellFoundedInduction, SequenceTheorems, FiniteSetTheorems, TLAPS

-----------------------------------------------------------------------------
(* Induction over an interval, and filtering                               *)

\* A set of numbers has a least element.
LEMMA LeastElement ==
  ASSUME NEW T \in SUBSET Nat, T # {}
  PROVE  \E x \in T : \A y \in T : x <= y
  <1> DEFINE Below == {ss \in Nat \X Nat : ss[1] < ss[2]}
  <1>1. IsWellFoundedOn(Below, Nat)
    BY NatLessThanWellFounded DEF OpToRel
  <1> HIDE DEF Below
  <1>2. PICK x \in T : \A y \in T : ~(<<y, x>> \in Below)
    BY <1>1, WFMin
  <1>3. ASSUME NEW y \in T PROVE x <= y
    <2>1. x \in Nat /\ y \in Nat /\ ~(<<y, x>> \in Below)
      BY <1>2
    <2>2. ~(y < x)
      BY <2>1 DEF Below
    <2>. QED  BY <2>1, <2>2
  <1>. QED  BY <1>3

\* Induction, up to n, on membership of a set.
LEMMA IntervalInduction ==
  ASSUME NEW n \in Nat, NEW S, 0 \in S, \A i \in 0..(n-1) : i \in S => i + 1 \in S
  PROVE  \A i \in 0..n : i \in S
  <1> DEFINE Gaps == {i \in 0..n : i \notin S}
  <1>1. SUFFICES ASSUME Gaps # {} PROVE FALSE
    OBVIOUS
  <1>2. PICK x \in Gaps : \A y \in Gaps : x <= y
    <2>1. Gaps \in SUBSET Nat
      OBVIOUS
    <2> HIDE DEF Gaps
    <2>. QED  BY <1>1, <2>1, LeastElement
  <1>3. x # 0 /\ x \in 0..n /\ x \notin S
    OBVIOUS
  <1>4. x - 1 \in 0..(n-1) /\ x - 1 \in 0..n /\ (x - 1) + 1 = x /\ ~(x <= x - 1)
    BY <1>3
  <1>5. x - 1 \in S
    BY <1>2, <1>4
  <1>. QED  BY <1>3, <1>4, <1>5

\* g starts with v0 and takes the steps of f.
TakesSteps(g, n, V, v0, f) ==
  /\ g \in [0..n -> V]
  /\ g[0] = v0
  /\ \A i \in 1..n : g[i] = f[i][g[i-1]]

\* A function on 0..n whose values follow from one another exists.
LEMMA StepFunction ==
  ASSUME NEW V, NEW n \in Nat, NEW v0 \in V, NEW f \in [1..n -> [V -> V]]
  PROVE  \E g : TakesSteps(g, n, V, v0, f)
  <1> DEFINE Upto(m, g) == g[0] = v0 /\ \A i \in 1..m : g[i] = f[i][g[i-1]]
             S == {m \in 0..n : \E g \in [0..m -> V] : Upto(m, g)}
  <1>1. 0 \in S
    <2> DEFINE k == [i \in 0..0 |-> v0]
    <2>1. k \in [0..0 -> V] /\ Upto(0, k)
       OBVIOUS
    <2> HIDE DEF k, Upto
    <2>. QED BY <2>1
  <1>2. ASSUME NEW m \in 0..(n-1), m \in S PROVE m + 1 \in S
    <2>1. PICK g \in [0..m -> V] : Upto(m, g)
      BY <1>2
    <2> DEFINE h == [i \in 0..(m+1) |-> IF i <= m THEN g[i] ELSE f[m+1][g[m]]]
    <2>2. m \in Nat /\ m + 1 \in 1..n /\ m + 1 \in 0..n /\ g[m] \in V
      OBVIOUS
    <2>3. f[m+1][g[m]] \in V
      BY <2>2
    <2>4. h \in [0..(m+1) -> V]
      <3>1. ASSUME NEW i \in 0..(m+1) PROVE (IF i <= m THEN g[i] ELSE f[m+1][g[m]]) \in V
        BY <2>2, <2>3
      <3>. QED BY <3>1
    <2>5. Upto(m+1, h)
      <3>1. h[0] = v0
        BY <2>1, <2>2
      <3>2. ASSUME NEW i \in 1..(m+1) PROVE h[i] = f[i][h[i-1]]
        <4>1. CASE i <= m
          <5>1. i \in 1..m /\ i \in 0..(m+1) /\ i - 1 \in 0..(m+1) /\ i - 1 <= m
            BY <4>1, <2>2
          <5>2. h[i] = g[i] /\ h[i-1] = g[i-1]
            BY <5>1, <4>1
          <5>. QED BY <5>1, <5>2, <2>1
        <4>2. CASE i = m + 1
          <5>1. i \in 0..(m+1) /\ i - 1 = m /\ m \in 0..(m+1) /\ ~(i <= m)
            BY <4>2, <2>2
          <5>2. h[i] = f[i][g[m]] /\ h[i-1] = g[m]
            BY <5>1, <4>2
          <5>. QED BY <5>2
        <4>. QED BY <4>1, <4>2, <2>2
      <3>. QED BY <3>1, <3>2
    <2> HIDE DEF h, Upto
    <2>6. \E k \in [0..(m+1) -> V] : Upto(m+1, k)
      BY <2>4, <2>5
    <2>. QED BY <2>2, <2>6
  <1>3. n \in S
    <2> HIDE DEF S
    <2>1. \A i \in 0..n : i \in S
      BY <1>1, <1>2, IntervalInduction
    <2>. QED BY <2>1
  <1>4. PICK g \in [0..n -> V] : Upto(n, g)
    BY <1>3
  <1>. QED BY <1>4 DEF TakesSteps

\* Two functions on 0..n that take the same steps are the same.
LEMMA SameSteps ==
  ASSUME NEW n \in Nat, NEW g, NEW h, g[0] = h[0],
         \A i \in 1..n : g[i-1] = h[i-1] => g[i] = h[i]
  PROVE  \A i \in 0..n : g[i] = h[i]
  <1> DEFINE S == {i \in 0..n : g[i] = h[i]}
  <1>1. 0 \in S
    OBVIOUS
  <1>2. ASSUME NEW i \in 0..(n-1), i \in S PROVE i + 1 \in S
    <2>1. i + 1 \in 1..n /\ (i + 1) - 1 = i /\ i + 1 \in 0..n
      OBVIOUS
    <2>. QED  BY <1>2, <2>1
  <1>3. \A i \in 0..n : i \in S
    <2> HIDE DEF S
    <2>. QED BY <1>1, <1>2, IntervalInduction
  <1>. QED  BY <1>3

\* How Kept is built.
KeptSteps(g, s, S, T) ==
  /\ g \in [0..Len(s) -> Seq(T)]
  /\ g[0] = <<>>
  /\ \A i \in 1..Len(s) : g[i] = IF s[i] \in S THEN Append(g[i-1], s[i]) ELSE g[i-1]

LEMMA KeptIs ==
  ASSUME NEW T, NEW s \in Seq(T), NEW S
  PROVE  \E g : KeptSteps(g, s, S, T) /\ Kept(s, S) = g[Len(s)]
  <1> DEFINE n == Len(s)
             Steps(g) == [i \in 0..Len(s) |->
               IF i = 0 THEN <<>> ELSE IF s[i] \in S THEN Append(g[i-1], s[i]) ELSE g[i-1]]
             kept == CHOOSE g : g = Steps(g)
             f == [i \in 1..n |-> [x \in Seq(T) |-> IF s[i] \in S THEN Append(x, s[i]) ELSE x]]
  <1>0. n \in Nat
    OBVIOUS
  <1>1. \A i \in 1..n : s[i] \in T
    OBVIOUS
  <1>2. f \in [1..n -> [Seq(T) -> Seq(T)]]
    <2>1. ASSUME NEW i \in 1..n, NEW x \in Seq(T)
          PROVE  (IF s[i] \in S THEN Append(x, s[i]) ELSE x) \in Seq(T)
      BY <1>1, AppendProperties
    <2>. QED  BY <2>1
  <1>3. PICK g : TakesSteps(g, n, Seq(T), <<>>, f)
    <2>1. <<>> \in Seq(T)
      OBVIOUS
    <2> HIDE DEF f
    <2>. QED  BY <1>0, <1>2, <2>1, StepFunction
  <1>4. g \in [0..n -> Seq(T)] /\ g[0] = <<>> /\ \A i \in 1..n : g[i] = f[i][g[i-1]]
    BY <1>3 DEF TakesSteps
  <1>5. ASSUME NEW i \in 1..n
        PROVE  g[i] = IF s[i] \in S THEN Append(g[i-1], s[i]) ELSE g[i-1]
    <2>1. i - 1 \in 0..n /\ g[i-1] \in Seq(T)
      <3> HIDE DEF f
      <3>. QED  BY <1>0, <1>4
    <2>. QED  BY <1>4, <2>1
  <1>6. KeptSteps(g, s, S, T)
    BY <1>4, <1>5 DEF KeptSteps
  <1>7. g = Steps(g)
    <2>1. ASSUME NEW i \in 0..n
          PROVE  g[i] = IF i = 0 THEN <<>> ELSE IF s[i] \in S THEN Append(g[i-1], s[i]) ELSE g[i-1]
      <3>1. CASE i = 0
        BY <1>4, <3>1
      <3>2. CASE i # 0
        <4>1. i \in 1..n
          BY <1>0, <3>2
        <4>. QED BY <1>5, <4>1, <3>2
      <3>. QED BY <3>1, <3>2
    <2> HIDE DEF f
    <2>. QED  BY <1>4, <2>1
  <1>8. kept = Steps(kept)
    <2> HIDE DEF Steps
    <2>. QED  BY <1>7
  <1>9. Kept(s, S) = kept[n]
    BY DEF Kept
  <1> HIDE DEF kept, f
  <1>10. kept[0] = g[0]
    BY <1>0, <1>4, <1>8
  <1>11. \A i \in 1..n : kept[i-1] = g[i-1] => kept[i] = g[i]
    <2> SUFFICES ASSUME NEW i \in 1..n, kept[i-1] = g[i-1] PROVE kept[i] = g[i]
      OBVIOUS
    <2>1. i \in 0..n /\ i # 0
      BY <1>0
    <2>. QED BY <1>5, <1>8, <2>1
  <1>12. \A i \in 0..n : kept[i] = g[i]
    <2> HIDE DEF n, Steps
    <2>1. ASSUME NEW h, h = kept, h[0] = g[0], \A i \in 1..n : h[i-1] = g[i-1] => h[i] = g[i]
          PROVE  \A i \in 0..n : h[i] = g[i]
      BY <1>0, <2>1, SameSteps, ZenonT(60)
    <2>. QED BY <1>10, <1>11, <2>1
  <1>. QED  BY <1>0, <1>6, <1>9, <1>12

\* k is what is kept of the first i elements of s.
KeptOf(k, s, i, S, T) ==
  /\ k \in Seq(T) /\ Len(k) <= i
  /\ \A a \in 1..Len(k) : k[a] \in S /\ \E x \in 1..i : k[a] = s[x]
  /\ \A x \in 1..i : s[x] \in S => \E a \in 1..Len(k) : k[a] = s[x]
  /\ (\A x, y \in 1..i : s[x] = s[y] => x = y) => \A a, b \in 1..Len(k) : k[a] = k[b] => a = b
  /\ (\A x \in 1..i : s[x] \in S) => Len(k) = i /\ \A x \in 1..i : k[x] = s[x]
  /\ (\A x, y \in 1..i : s[x] \notin S /\ s[y] \notin S => x = y) => Len(k) >= i - 1

LEMMA KeptOfNext ==
  ASSUME NEW T, NEW s \in Seq(T), NEW S, NEW i \in 1..Len(s), NEW k, KeptOf(k, s, i - 1, S, T),
         NEW m, m = IF s[i] \in S THEN Append(k, s[i]) ELSE k
  PROVE  KeptOf(m, s, i, S, T)
  <1>0. i \in Nat /\ i - 1 \in Nat /\ k \in Seq(T) /\ Len(k) \in Nat /\ Len(k) <= i - 1 /\ s[i] \in T
        /\ \A x \in 1..i : x = i \/ x \in 1..(i - 1)
    BY DEF KeptOf
  <1>1. CASE s[i] \notin S
    <2>1. m = k
      BY <1>1
    <2>2. i \in 1..i /\ \A x \in 1..(i - 1) : x \in 1..i /\ x # i
      BY <1>0
    <2>3. ASSUME \A x, y \in 1..i : s[x] \notin S /\ s[y] \notin S => x = y PROVE Len(k) >= i - 1
      <3>1. \A x \in 1..(i - 1) : s[x] \in S
        BY <1>1, <2>2, <2>3
      <3>. QED  BY <1>0, <3>1 DEF KeptOf
    <2>. QED  BY <1>0, <1>1, <2>1, <2>2, <2>3 DEF KeptOf
  <1>2. CASE s[i] \in S
    <2>1. /\ m \in Seq(T) /\ Len(m) = Len(k) + 1 /\ m[Len(k) + 1] = s[i]
          /\ \A a \in 1..Len(k) : m[a] = k[a]
      BY <1>0, <1>2, AppendProperties
    <2>2. \A a \in 1..Len(m) : a = Len(k) + 1 \/ a \in 1..Len(k)
      BY <1>0, <2>1
    <2>3. Len(m) <= i /\ Len(k) + 1 \in 1..Len(m) /\ \A a \in 1..Len(k) : a \in 1..Len(m)
      BY <1>0, <2>1
    <2>4. i \in 1..i /\ \A x \in 1..(i - 1) : x \in 1..i
      BY <1>0
    <2>5. ASSUME NEW a \in 1..Len(m) PROVE m[a] \in S /\ \E x \in 1..i : m[a] = s[x]
      <3>1. CASE a = Len(k) + 1
        BY <1>2, <2>1, <2>4, <3>1
      <3>2. CASE a \in 1..Len(k)
        BY <2>1, <2>4, <3>2 DEF KeptOf
      <3>. QED  BY <2>2, <3>1, <3>2
    <2>6. ASSUME NEW x \in 1..i, s[x] \in S PROVE \E a \in 1..Len(m) : m[a] = s[x]
      <3>1. CASE x = i
        BY <2>1, <2>3, <3>1
      <3>2. CASE x \in 1..(i - 1)
        <4>1. PICK a \in 1..Len(k) : k[a] = s[x]
          BY <2>6, <3>2 DEF KeptOf
        <4>. QED  BY <2>1, <2>3, <4>1
      <3>. QED  BY <1>0, <3>1, <3>2
    <2>7. ASSUME \A x, y \in 1..i : s[x] = s[y] => x = y, NEW a \in 1..Len(m), NEW b \in 1..Len(m), m[a] = m[b]
          PROVE  a = b
      <3>1. \A c \in 1..Len(k) : k[c] # s[i]
        <4> SUFFICES ASSUME NEW c \in 1..Len(k), k[c] = s[i] PROVE FALSE
          OBVIOUS
        <4>1. PICK x \in 1..(i - 1) : k[c] = s[x]
          BY DEF KeptOf
        <4>2. x \in 1..i /\ i \in 1..i /\ x # i /\ s[x] = s[i]
          BY <1>0, <2>4, <4>1
        <4>. QED  BY <2>7, <4>2
      <3>2. \A c, d \in 1..Len(k) : k[c] = k[d] => c = d
        BY <2>4, <2>7 DEF KeptOf
      <3>. QED  BY <2>1, <2>2, <2>7, <3>1, <3>2
    <2>8. ASSUME \A x \in 1..i : s[x] \in S PROVE Len(m) = i /\ \A x \in 1..i : m[x] = s[x]
      <3>1. Len(k) = i - 1 /\ \A x \in 1..(i - 1) : k[x] = s[x]
        BY <2>4, <2>8 DEF KeptOf
      <3>. QED  BY <1>0, <2>1, <3>1
    <2>9. ASSUME \A x, y \in 1..i : s[x] \notin S /\ s[y] \notin S => x = y PROVE Len(m) >= i - 1
      <3>1. Len(k) >= (i - 1) - 1
        BY <2>4, <2>9 DEF KeptOf
      <3>. QED  BY <1>0, <2>1, <3>1
    <2>. QED  BY <2>1, <2>3, <2>5, <2>6, <2>7, <2>8, <2>9 DEF KeptOf
  <1>. QED  BY <1>1, <1>2

LEMMA KeptResult ==
  ASSUME NEW T, NEW s \in Seq(T), NEW S
  PROVE  KeptOf(Kept(s, S), s, Len(s), S, T)
  <1>1. PICK g : KeptSteps(g, s, S, T) /\ Kept(s, S) = g[Len(s)]
    BY KeptIs
  <1> DEFINE P == {i \in 0..Len(s) : KeptOf(g[i], s, i, S, T)}
  <1>2. 0 \in P
    <2>1. g[0] = <<>> /\ 0 \in 0..Len(s)
      BY <1>1 DEF KeptSteps
    <2>2. <<>> \in Seq(T) /\ Len(<<>>) = 0
      OBVIOUS
    <2>3. KeptOf(<<>>, s, 0, S, T)
      <3>1. 1..0 = {}
        OBVIOUS
      <3>. QED  BY <2>2, <3>1 DEF KeptOf
    <2>. QED  BY <2>1, <2>3
  <1>3. ASSUME NEW i \in 0..(Len(s) - 1), i \in P PROVE i + 1 \in P
    <2>1. i + 1 \in 1..Len(s) /\ (i + 1) - 1 = i /\ i + 1 \in 0..Len(s)
      OBVIOUS
    <2>2. g[i+1] = IF s[i+1] \in S THEN Append(g[i], s[i+1]) ELSE g[i]
      BY <1>1, <2>1 DEF KeptSteps
    <2>3. KeptOf(g[i], s, (i + 1) - 1, S, T)
      BY <1>3, <2>1
    <2>4. KeptOf(g[i+1], s, i + 1, S, T)
      BY <2>1, <2>2, <2>3, KeptOfNext
    <2>. QED  BY <2>1, <2>4
  <1>4. Len(s) \in Nat
    OBVIOUS
  <1>5. \A i \in 0..Len(s) : i \in P
    <2> HIDE DEF P
    <2>. QED  BY <1>2, <1>3, <1>4, IntervalInduction
  <1>6. Len(s) \in 0..Len(s)
    BY <1>4
  <1>. QED  BY <1>1, <1>5, <1>6

-----------------------------------------------------------------------------
(* Threads                                                                 *)

ThreadShape == [title: {"none", "newChat", "firstMessage"}, messages: Nat]
UserTurnShape == [step: {"none", "claimed", "counted", "inserted", "answering"}, count: Nat]
CallSteps == [op: {"create", "delete"}, thread: ThreadRows, step: {"asked", "found", "failed", "done"}]
AwaitsRow(c) == c.op = "create" /\ c.step \in {"asked", "found"}

\* A list is right but for the threads a call has changed and not yet reported.
ListFits(ids) ==
  \A t \in ThreadRows : (t \in ids <=> threadRows[t] # NoThread)
                        \/ \E c \in threadCalls : c.thread = t /\ c.step = "done"

\* A row's title and messages, as far as a turn on it has come.
TitleFits(row, turn) ==
  LET named == row.title = "firstMessage" IN
  /\ turn.step \in {"none", "claimed", "counted", "answering"} => (named <=> row.messages > 0)
  /\ turn.step = "counted" => turn.count = row.messages
  /\ turn.step = "inserted" => row.messages > 0 /\ (named <=> turn.count > 0)
  /\ turn.step = "answering" => row.messages > 0

ThreadTypes ==
  /\ threadRows \in [ThreadRows -> ThreadShape]
  /\ userTurns \in [ThreadRows -> UserTurnShape]
  /\ \A c \in threadCalls : c \in CallSteps
  /\ connectionRow \in BOOLEAN /\ cutOff \in BOOLEAN
  /\ listFetch.step \in {"none", "asked", "read"}
  /\ listFetch.step = "none" => listFetch = NotFetching
  /\ listShown \subseteq ThreadRows /\ listFetch.ids \subseteq ThreadRows

\* An id is given to one thread, which is created once.
IdsOnce ==
  /\ \A t \in ThreadRows : threadRows[t] # NoThread \/ userTurns[t] # NoTurn => t \in usedIds
  /\ \A t \in ThreadRows : userTurns[t].step = "none" => userTurns[t] = NoTurn
  /\ \A t \in ThreadRows : threadRows[t] # NoThread => threadRows[t].title # "none"
  /\ \A c \in threadCalls : c.op = "create" => c.thread \in usedIds
  /\ \A c, d \in threadCalls : c.op = "create" /\ d.op = "create" /\ c.thread = d.thread => c = d
  /\ \A c \in threadCalls : AwaitsRow(c) => threadRows[c.thread] = NoThread /\ userTurns[c.thread] = NoTurn

ThreadsInv ==
  /\ ThreadTypes
  /\ IdsOnce
  /\ ~connectionRow => \A t \in ThreadRows : threadRows[t] = NoThread
  /\ connectionRow /\ ~cutOff =>
       /\ listFetch.step = "none" => ListFits(listShown)
       /\ listFetch.step = "read" => ListFits(listFetch.ids)
  /\ \A t \in ThreadRows \ untitled : threadRows[t] # NoThread => TitleFits(threadRows[t], userTurns[t])

LEMMA ThreadsStart == ThreadsInit => ThreadsInv
  <1> SUFFICES ASSUME ThreadsInit PROVE ThreadsInv
    OBVIOUS
  <1>1. /\ connectionRow = TRUE /\ cutOff = FALSE /\ listShown = {} /\ threadCalls = {} /\ listFetch = NotFetching
        /\ threadRows \in [ThreadRows -> ThreadShape] /\ userTurns \in [ThreadRows -> UserTurnShape]
        /\ \A t \in ThreadRows : threadRows[t] = NoThread /\ userTurns[t] = NoTurn
    BY DEF ThreadsInit, NoThread, NoTurn, ThreadShape, UserTurnShape
  <1>2. listFetch.step = "none" /\ listFetch.ids = {}
    BY <1>1 DEF NotFetching
  <1>3. ListFits(listShown)
    BY <1>1 DEF ListFits
  <1>. QED  BY <1>1, <1>2, <1>3 DEF ThreadsInv, ThreadTypes, IdsOnce

LEMMA ThreadsKeep == ThreadsInv => ListIsTrue /\ TitleIsOfTheFirstMessage /\ NothingWithoutConnection
  <1> SUFFICES ASSUME ThreadsInv PROVE ListIsTrue /\ TitleIsOfTheFirstMessage /\ NothingWithoutConnection
    OBVIOUS
  <1>1. ListIsTrue
    BY DEF ThreadsInv, ThreadTypes, ListIsTrue, ListFits, RowIds, NotFetching
  <1>2. TitleIsOfTheFirstMessage
    BY DEF ThreadsInv, TitleIsOfTheFirstMessage, TitleFits, RowIds
  <1>3. NothingWithoutConnection
    BY DEF ThreadsInv, NothingWithoutConnection, RowIds
  <1>. QED  BY <1>1, <1>2, <1>3

\* A call moves on without changing a row.
LEMMA CallMovesOn ==
  ASSUME ThreadsInv, NEW c \in threadCalls, NEW to \in {"found", "failed"}, c.step = "asked", Step(c, to),
         UNCHANGED <<connectionRow, threadRows, usedIds, untitled, cutOff, userTurns, listShown, listFetch>>
  PROVE  ThreadsInv'
  <1> DEFINE d == [c EXCEPT !.step = to]
  <1>1. threadCalls' = (threadCalls \ {c}) \cup {d}
    BY DEF Step
  <1>2. c \in CallSteps
    BY DEF ThreadsInv, ThreadTypes
  <1>3. d \in CallSteps /\ d.op = c.op /\ d.thread = c.thread /\ d.step = to
    BY <1>2 DEF CallSteps
  <1> HIDE DEF d
  <1>4. ThreadTypes'
    BY <1>1, <1>3 DEF ThreadsInv, ThreadTypes
  <1>5. IdsOnce'
    BY <1>1, <1>3 DEF ThreadsInv, IdsOnce, AwaitsRow
  <1>6. ASSUME NEW ids, ListFits(ids) PROVE ListFits(ids)'
    BY <1>1, <1>6 DEF ListFits
  <1>. QED  BY <1>4, <1>5, <1>6 DEF ThreadsInv

\* A call that changes a row and is done.
LEMMA RowChanges ==
  ASSUME ThreadsInv, NEW c \in threadCalls, c.step = "found", Step(c, "done"), NEW row \in ThreadShape,
         threadRows' = [threadRows EXCEPT ![c.thread] = row], row # NoThread => row.title # "none" /\ connectionRow /\ c.op = "create",
         row # NoThread => TitleFits(row, userTurns[c.thread]),
         UNCHANGED <<connectionRow, usedIds, untitled, cutOff, userTurns, listShown, listFetch>>
  PROVE  ThreadsInv'
  <1> DEFINE d == [c EXCEPT !.step = "done"]
  <1>1. threadCalls' = (threadCalls \ {c}) \cup {d}
    BY DEF Step
  <1>2. c \in CallSteps
    BY DEF ThreadsInv, ThreadTypes
  <1>3. d \in CallSteps /\ d.op = c.op /\ d.thread = c.thread /\ d.step = "done" /\ c.thread \in ThreadRows
    BY <1>2 DEF CallSteps
  <1> HIDE DEF d
  <1>4. /\ threadRows' \in [ThreadRows -> ThreadShape] /\ threadRows'[c.thread] = row
        /\ \A t \in ThreadRows : t # c.thread => threadRows'[t] = threadRows[t]
    BY <1>3 DEF ThreadsInv, ThreadTypes
  <1>5. ThreadTypes'
    BY <1>1, <1>3, <1>4 DEF ThreadsInv, ThreadTypes
  <1>6. IdsOnce'
    <2>1. \A t \in ThreadRows : threadRows'[t] # NoThread \/ userTurns'[t] # NoTurn => t \in usedIds'
      BY <1>3, <1>4 DEF ThreadsInv, IdsOnce
    <2>2. \A t \in ThreadRows : threadRows'[t] # NoThread => threadRows'[t].title # "none"
      BY <1>3, <1>4 DEF ThreadsInv, IdsOnce
    <2>3. \A x \in threadCalls' : x.op = "create" => x.thread \in usedIds'
      BY <1>1, <1>3 DEF ThreadsInv, IdsOnce
    <2>4. \A x, y \in threadCalls' : x.op = "create" /\ y.op = "create" /\ x.thread = y.thread => x = y
      BY <1>1, <1>3 DEF ThreadsInv, IdsOnce
    <2>5. ASSUME NEW x \in threadCalls', AwaitsRow(x) PROVE threadRows'[x.thread] = NoThread /\ userTurns'[x.thread] = NoTurn
      <3>1. x \in threadCalls /\ x # c /\ x.thread \in ThreadRows
        BY <1>1, <1>3, <2>5 DEF AwaitsRow, ThreadsInv, ThreadTypes, CallSteps
      <3>2. x.thread = c.thread => row = NoThread
        BY <2>5, <3>1 DEF AwaitsRow, ThreadsInv, IdsOnce
      <3>. QED  BY <1>4, <2>5, <3>1, <3>2 DEF ThreadsInv, IdsOnce
    <2>. QED  BY <2>1, <2>2, <2>3, <2>4, <2>5 DEF ThreadsInv, IdsOnce, AwaitsRow
  <1>7. ASSUME NEW ids, ListFits(ids) PROVE ListFits(ids)'
    <2>1. d \in threadCalls' /\ \A x \in threadCalls : x.step = "done" => x \in threadCalls'
      BY <1>1
    <2>. QED  BY <1>3, <1>4, <1>7, <2>1 DEF ListFits
  <1>8. ~connectionRow' => \A t \in ThreadRows : threadRows'[t] = NoThread
    BY <1>3, <1>4 DEF ThreadsInv
  <1>9. \A t \in ThreadRows \ untitled' : threadRows'[t] # NoThread => TitleFits(threadRows'[t], userTurns'[t])
    BY <1>3, <1>4 DEF ThreadsInv
  <1>. QED  BY <1>5, <1>6, <1>7, <1>8, <1>9 DEF ThreadsInv

\* A turn moves on, the row it writes staying a row.
LEMMA TurnMoves ==
  ASSUME ThreadsInv, NEW t \in ThreadRows, NEW turn \in UserTurnShape, NEW row \in ThreadShape,
         userTurns' = [userTurns EXCEPT ![t] = turn], threadRows' = [threadRows EXCEPT ![t] = row],
         row = NoThread <=> threadRows[t] = NoThread, row # NoThread => row.title # "none",
         turn.step = "none" => turn = NoTurn,
         userTurns[t] # NoTurn \/ threadRows[t] # NoThread,
         t \notin untitled /\ row # NoThread => TitleFits(row, turn),
         UNCHANGED <<connectionRow, usedIds, untitled, cutOff, listShown, listFetch, threadCalls>>
  PROVE  ThreadsInv'
  <1>1. /\ threadRows' \in [ThreadRows -> ThreadShape] /\ userTurns' \in [ThreadRows -> UserTurnShape]
        /\ threadRows'[t] = row /\ userTurns'[t] = turn
        /\ \A x \in ThreadRows : x # t => threadRows'[x] = threadRows[x] /\ userTurns'[x] = userTurns[x]
    BY DEF ThreadsInv, ThreadTypes
  <1>2. ThreadTypes'
    BY <1>1 DEF ThreadsInv, ThreadTypes
  <1>3. \A x \in ThreadRows : (threadRows'[x] # NoThread) = (threadRows[x] # NoThread)
    BY <1>1
  <1>4. IdsOnce'
    <2>1. ASSUME NEW c \in threadCalls, AwaitsRow(c) PROVE c.thread # t /\ c.thread \in ThreadRows
      BY <2>1 DEF ThreadsInv, IdsOnce, ThreadTypes, CallSteps
    <2>. QED  BY <1>1, <1>3, <2>1 DEF ThreadsInv, IdsOnce, AwaitsRow
  <1>5. ASSUME NEW ids, ListFits(ids) PROVE ListFits(ids)'
    BY <1>3, <1>5 DEF ListFits
  <1>6. \A x \in ThreadRows \ untitled' : threadRows'[x] # NoThread => TitleFits(threadRows'[x], userTurns'[x])
    BY <1>1 DEF ThreadsInv
  <1>7. ~connectionRow' => \A x \in ThreadRows : threadRows'[x] = NoThread
    BY <1>3 DEF ThreadsInv
  <1>. QED  BY <1>2, <1>4, <1>5, <1>6, <1>7 DEF ThreadsInv

LEMMA ThreadTurnStep ==
  ASSUME ThreadsInv, NEW t \in ThreadRows,
         ClaimThread(t) \/ CountMessages(t) \/ InsertMessage(t) \/ SetThreadTitle(t)
  PROVE  ThreadsInv'
  <1> DEFINE row == threadRows[t]
             turn == userTurns[t]
  <1>1. /\ row \in ThreadShape /\ turn \in UserTurnShape
        /\ threadRows = [threadRows EXCEPT ![t] = row]
        /\ threadRows \in [ThreadRows -> ThreadShape] /\ userTurns \in [ThreadRows -> UserTurnShape]
        /\ turn.step = "none" => turn = NoTurn
        /\ row # NoThread => row.title # "none"
        /\ t \notin untitled /\ row # NoThread => TitleFits(row, turn)
    BY DEF ThreadsInv, ThreadTypes, IdsOnce
  <1>2. /\ row.title \in {"none", "newChat", "firstMessage"} /\ row.messages \in Nat
        /\ turn.step \in {"none", "claimed", "counted", "inserted", "answering"} /\ turn.count \in Nat
    BY <1>1 DEF ThreadShape, UserTurnShape
  <1>3. NoTurn \in UserTurnShape /\ NoTurn.step = "none" /\ NoThread \in ThreadShape /\ NoThread.title = "none"
    BY DEF NoTurn, NoThread, UserTurnShape, ThreadShape
  <1>4. CASE ClaimThread(t)
    <2> DEFINE to == [step |-> "claimed", count |-> 0]
    <2>1. /\ row # NoThread /\ turn = NoTurn /\ userTurns' = [userTurns EXCEPT ![t] = to]
          /\ threadRows' = [threadRows EXCEPT ![t] = row]
          /\ UNCHANGED <<connectionRow, usedIds, untitled, cutOff, listShown, listFetch, threadCalls>>
      BY <1>1, <1>4 DEF ClaimThread
    <2>2. to \in UserTurnShape /\ to.step = "claimed"
      BY DEF UserTurnShape
    <2> HIDE DEF row, turn, to
    <2>3. t \notin untitled => TitleFits(row, to)
      BY <1>1, <1>3, <2>1, <2>2 DEF TitleFits
    <2>. QED  BY <1>1, <2>1, <2>2, <2>3, TurnMoves DEF row, turn
  <1>5. CASE CountMessages(t)
    <2> DEFINE to == [step |-> "counted", count |-> row.messages]
    <2>1. /\ turn.step = "claimed" /\ userTurns' = [userTurns EXCEPT ![t] = to]
          /\ threadRows' = [threadRows EXCEPT ![t] = row]
          /\ UNCHANGED <<connectionRow, usedIds, untitled, cutOff, listShown, listFetch, threadCalls>>
      BY <1>1, <1>5 DEF CountMessages
    <2>2. to \in UserTurnShape /\ to.step = "counted" /\ to.count = row.messages
      BY <1>2 DEF UserTurnShape
    <2> HIDE DEF row, turn, to
    <2>3. t \notin untitled /\ row # NoThread => TitleFits(row, to)
      BY <1>1, <2>1, <2>2 DEF TitleFits
    <2>. QED  BY <1>1, <1>3, <2>1, <2>2, <2>3, TurnMoves DEF row, turn
  <1>6. CASE InsertMessage(t)
    <2>1. turn.step \in {"counted", "answering"} /\ UNCHANGED <<connectionRow, usedIds, untitled, cutOff, listShown, listFetch, threadCalls>>
      BY <1>6 DEF InsertMessage
    <2>2. turn # NoTurn
      BY <1>3, <2>1
    <2>3. CASE row = NoThread
      <3>1. userTurns' = [userTurns EXCEPT ![t] = NoTurn] /\ threadRows' = [threadRows EXCEPT ![t] = row]
        BY <1>1, <1>6, <2>3 DEF InsertMessage, EndUserTurn
      <3> HIDE DEF row, turn
      <3>. QED  BY <1>1, <1>3, <2>1, <2>2, <2>3, <3>1, TurnMoves DEF row, turn
    <2>4. CASE row # NoThread
      <3> DEFINE more == [row EXCEPT !.messages = @ + 1]
                 to == IF turn.step = "answering" THEN NoTurn ELSE [turn EXCEPT !.step = "inserted"]
      <3>1. threadRows' = [threadRows EXCEPT ![t] = more]
        BY <1>1, <1>6, <2>4 DEF InsertMessage
      <3>2. userTurns' = [userTurns EXCEPT ![t] = to]
        <4>1. CASE turn.step = "answering"
          BY <1>1, <1>6, <2>4, <4>1 DEF InsertMessage, EndUserTurn
        <4>2. CASE turn.step # "answering"
          BY <1>1, <1>6, <2>4, <4>2 DEF InsertMessage
        <4>. QED  BY <4>1, <4>2
      <3>3. more \in ThreadShape /\ more.title = row.title /\ more.messages = row.messages + 1
        BY <1>1, <1>2 DEF ThreadShape
      <3>4. /\ to \in UserTurnShape
            /\ turn.step = "answering" => to = NoTurn
            /\ turn.step # "answering" => to.step = "inserted" /\ to.count = turn.count
        BY <1>1, <1>3 DEF UserTurnShape
      <3>5. more # NoThread /\ more.title # "none"
        BY <1>1, <1>3, <2>4, <3>3
      <3> HIDE DEF row, turn, more, to
      <3>6. t \notin untitled => TitleFits(more, to)
        BY <1>1, <1>2, <1>3, <2>1, <2>4, <3>3, <3>4 DEF TitleFits
      <3>7. to.step = "none" => to = NoTurn
        BY <3>4
      <3>. QED  BY <2>1, <2>2, <2>4, <3>1, <3>2, <3>3, <3>4, <3>5, <3>6, <3>7, TurnMoves DEF row, turn
    <2>. QED  BY <2>3, <2>4
  <1>7. CASE SetThreadTitle(t)
    <2> DEFINE named == IF turn.count = 0 /\ row # NoThread THEN [row EXCEPT !.title = "firstMessage"] ELSE row
               to == [turn EXCEPT !.step = "answering"]
    <2>1. /\ turn.step = "inserted" /\ userTurns' = [userTurns EXCEPT ![t] = to]
          /\ UNCHANGED <<connectionRow, usedIds, untitled, cutOff, listShown, listFetch, threadCalls>>
      BY <1>1, <1>7 DEF SetThreadTitle
    <2>2. threadRows' = [threadRows EXCEPT ![t] = named]
      BY <1>1, <1>7 DEF SetThreadTitle
    <2>3. /\ named \in ThreadShape /\ named.messages = row.messages
          /\ turn.count = 0 /\ row # NoThread => named.title = "firstMessage"
          /\ ~(turn.count = 0 /\ row # NoThread) => named = row
      BY <1>1 DEF ThreadShape
    <2>4. to \in UserTurnShape /\ to.step = "answering" /\ to.count = turn.count
      BY <1>1 DEF UserTurnShape
    <2>5. turn # NoTurn
      BY <1>3, <2>1
    <2> HIDE DEF row, turn, named, to
    <2>6. (named = NoThread <=> row = NoThread) /\ (named # NoThread => named.title # "none")
      BY <1>1, <1>3, <2>3
    <2>7. t \notin untitled /\ named # NoThread => TitleFits(named, to)
      BY <1>1, <1>2, <2>1, <2>3, <2>4, <2>6 DEF TitleFits
    <2>8. to.step # "none"
      BY <2>4
    <2>. QED  BY <2>1, <2>2, <2>3, <2>4, <2>5, <2>6, <2>7, <2>8, TurnMoves DEF row, turn
  <1>. QED  BY <1>4, <1>5, <1>6, <1>7

LEMMA ThreadsStep ==
  ASSUME ThreadsInv, ThreadsNext
  PROVE  ThreadsInv'
  <1>1. CASE ListRead
    <2>1. /\ listFetch' = ListOf(RowIds)
          /\ UNCHANGED <<connectionRow, threadRows, usedIds, untitled, cutOff, userTurns, listShown, threadCalls>>
      BY <1>1 DEF ListRead
    <2>2. listFetch'.step = "read" /\ listFetch'.ids = RowIds /\ RowIds \subseteq ThreadRows
      BY <2>1 DEF ListOf, RowIds
    <2>3. ListFits(listFetch.ids)'
      BY <2>1, <2>2 DEF ListFits, RowIds
    <2>. QED  BY <2>1, <2>2, <2>3 DEF ThreadsInv, ThreadTypes, IdsOnce, ListFits
  <1>2. CASE ListThreads
    <2>1. /\ listFetch.step = "read" /\ listShown' = listFetch.ids /\ listFetch' = NotFetching
          /\ UNCHANGED <<connectionRow, threadRows, usedIds, untitled, cutOff, userTurns, threadCalls>>
      BY <1>2 DEF ListThreads
    <2>2. NotFetching.step = "none" /\ NotFetching.ids = {}
      BY DEF NotFetching
    <2>. QED  BY <2>1, <2>2 DEF ThreadsInv, ThreadTypes, IdsOnce, ListFits
  <1>3. CASE DeleteConnection
    <2>1. /\ connectionRow' = FALSE /\ threadRows' = [t \in ThreadRows |-> NoThread]
          /\ UNCHANGED <<usedIds, untitled, cutOff, userTurns, listShown, listFetch, threadCalls>>
      BY <1>3 DEF DeleteConnection
    <2>2. threadRows' \in [ThreadRows -> ThreadShape]
      BY <2>1 DEF NoThread, ThreadShape
    <2>3. \A c \in threadCalls : c.thread \in ThreadRows
      BY DEF ThreadsInv, ThreadTypes, CallSteps
    <2>. QED  BY <2>1, <2>2, <2>3 DEF ThreadsInv, ThreadTypes, IdsOnce, AwaitsRow
  <1>4. CASE ServerStops
    <2>1. /\ userTurns' = [t \in ThreadRows |-> NoTurn]
          /\ threadCalls' = {[c EXCEPT !.step = "failed"] : c \in threadCalls}
          /\ untitled' = untitled \cup {t \in ThreadRows : userTurns[t].step = "inserted"}
          /\ cutOff' = (cutOff \/ threadCalls # {} \/ listFetch # NotFetching)
          /\ listFetch' = NotFetching
          /\ UNCHANGED <<connectionRow, threadRows, usedIds, listShown>>
      BY <1>4 DEF ServerStops
    <2>2. /\ NotFetching.step = "none" /\ NotFetching.ids = {} /\ NoTurn \in UserTurnShape /\ NoTurn.step = "none"
          /\ \A t \in ThreadRows : userTurns'[t] = NoTurn
      BY <2>1 DEF NotFetching, NoTurn, UserTurnShape
    <2>3. \A d \in threadCalls' : d \in CallSteps /\ d.step = "failed"
                                  /\ \E c \in threadCalls : d = [c EXCEPT !.step = "failed"] /\ d.op = c.op /\ d.thread = c.thread
      BY <2>1 DEF ThreadsInv, ThreadTypes, CallSteps
    <2>4. ThreadTypes'
      BY <2>1, <2>2, <2>3 DEF ThreadsInv, ThreadTypes
    <2>5. IdsOnce'
      <3>1. \A c, d \in threadCalls' : c.op = "create" /\ d.op = "create" /\ c.thread = d.thread => c = d
        BY <2>3 DEF ThreadsInv, IdsOnce
      <3>. QED  BY <2>1, <2>2, <2>3, <3>1 DEF ThreadsInv, IdsOnce, AwaitsRow
    <2>6. ASSUME connectionRow', ~cutOff' PROVE ListFits(listShown)'
      <3>1. connectionRow /\ ~cutOff /\ threadCalls = {} /\ listFetch = NotFetching /\ threadCalls' = {}
        BY <2>1, <2>6 DEF ThreadsInv, ThreadTypes
      <3>2. ListFits(listShown)
        BY <2>2, <3>1 DEF ThreadsInv
      <3>. QED  BY <2>1, <3>1, <3>2 DEF ListFits
    <2>7. \A t \in ThreadRows \ untitled' : threadRows'[t] # NoThread => TitleFits(threadRows'[t], userTurns'[t])
      <3> SUFFICES ASSUME NEW t \in ThreadRows \ untitled', threadRows'[t] # NoThread
                   PROVE  TitleFits(threadRows'[t], NoTurn)
        BY <2>2
      <3>1. userTurns[t].step \in {"none", "claimed", "counted", "answering"}
        BY <2>1 DEF ThreadsInv, ThreadTypes, UserTurnShape
      <3>. QED  BY <2>1, <2>2, <3>1 DEF ThreadsInv, TitleFits
    <2>. QED  BY <2>1, <2>2, <2>4, <2>5, <2>6, <2>7 DEF ThreadsInv
  <1>5. ASSUME NEW t \in ThreadRows, AskCreate(t) \/ AskDelete(t) PROVE ThreadsInv'
    <2>1. PICK op \in {"create", "delete"} :
            /\ threadCalls' = threadCalls \cup {ThreadCall(op, t, "asked")}
            /\ op = "create" => threadRows[t] = NoThread /\ t \notin usedIds /\ t \in usedIds'
            /\ usedIds \subseteq usedIds'
            /\ UNCHANGED <<connectionRow, threadRows, untitled, cutOff, userTurns, listShown, listFetch>>
      <3>1. CASE AskCreate(t)
        BY <3>1 DEF AskCreate
      <3>2. CASE AskDelete(t)
        BY <3>2 DEF AskDelete
      <3>. QED  BY <1>5, <3>1, <3>2
    <2> DEFINE d == ThreadCall(op, t, "asked")
    <2>2. d \in CallSteps /\ d.op = op /\ d.thread = t /\ d.step = "asked"
      BY DEF ThreadCall, CallSteps
    <2> HIDE DEF d
    <2>3. threadCalls' = threadCalls \cup {d}
      BY <2>1 DEF d
    <2>4. ThreadTypes'
      BY <2>1, <2>2, <2>3 DEF ThreadsInv, ThreadTypes
    <2>5. IdsOnce'
      <3>1. op = "create" => userTurns[t] = NoTurn
        BY <2>1 DEF ThreadsInv, IdsOnce
      <3>2. \A c \in threadCalls : op = "create" /\ c.op = "create" => c.thread # t
        BY <2>1 DEF ThreadsInv, IdsOnce
      <3>3. \A x, y \in threadCalls' : x.op = "create" /\ y.op = "create" /\ x.thread = y.thread => x = y
        BY <2>2, <2>3, <3>2 DEF ThreadsInv, IdsOnce
      <3>. QED  BY <2>1, <2>2, <2>3, <3>1, <3>3 DEF ThreadsInv, IdsOnce, AwaitsRow
    <2>6. ASSUME NEW ids, ListFits(ids) PROVE ListFits(ids)'
      BY <2>1, <2>3, <2>6 DEF ListFits
    <2>. QED  BY <2>1, <2>4, <2>5, <2>6 DEF ThreadsInv
  <1>6. ASSUME NEW c \in threadCalls, CallSettles(c) PROVE ThreadsInv'
    <2>1. /\ c.step \in {"done", "failed"} /\ threadCalls' = threadCalls \ {c}
          /\ c.step = "done" => listFetch' = [step |-> "asked", ids |-> {}]
          /\ c.step # "done" => listFetch' = listFetch
          /\ UNCHANGED <<connectionRow, threadRows, usedIds, untitled, cutOff, userTurns, listShown>>
      BY <1>6 DEF CallSettles, Invalidate
    <2>2. CASE c.step = "done"
      <3>1. listFetch'.step = "asked" /\ listFetch'.ids = {}
        BY <2>1, <2>2
      <3>. QED  BY <2>1, <3>1 DEF ThreadsInv, ThreadTypes, IdsOnce, AwaitsRow
    <2>3. CASE c.step # "done"
      <3>1. ASSUME NEW ids, ListFits(ids) PROVE ListFits(ids)'
        BY <2>1, <2>3, <3>1 DEF ListFits
      <3>. QED  BY <2>1, <2>3, <3>1 DEF ThreadsInv, ThreadTypes, IdsOnce, AwaitsRow
    <2>. QED  BY <2>2, <2>3
  <1>7. ASSUME NEW c \in threadCalls, ConnectionFound(c) \/ GetThread(c) PROVE ThreadsInv'
    <2>1. PICK to \in {"found", "failed"} : Step(c, to) /\ c.step = "asked"
      BY <1>7 DEF ConnectionFound, GetThread
    <2>2. UNCHANGED <<connectionRow, threadRows, usedIds, untitled, cutOff, userTurns, listShown, listFetch>>
      BY <1>7 DEF ConnectionFound, GetThread
    <2>. QED  BY <2>1, <2>2, CallMovesOn
  <1>8. ASSUME NEW c \in threadCalls, CreateThread(c) PROVE ThreadsInv'
    <2>1. /\ c.op = "create" /\ c.step = "found"
          /\ UNCHANGED <<connectionRow, usedIds, untitled, cutOff, userTurns, listShown, listFetch>>
      BY <1>8 DEF CreateThread
    <2>2. CASE connectionRow
      <3> DEFINE row == [title |-> "newChat", messages |-> 0]
      <3>1. threadRows' = [threadRows EXCEPT ![c.thread] = row] /\ Step(c, "done")
        BY <1>8, <2>2 DEF CreateThread
      <3>2. row \in ThreadShape /\ row.title = "newChat" /\ row.messages = 0
        BY DEF ThreadShape
      <3> HIDE DEF row
      <3>3. userTurns[c.thread] = NoTurn
        BY <2>1 DEF ThreadsInv, IdsOnce, AwaitsRow
      <3>4. TitleFits(row, userTurns[c.thread])
        BY <3>2, <3>3 DEF TitleFits, NoTurn
      <3>. QED  BY <2>1, <2>2, <3>1, <3>2, <3>4, RowChanges
    <2>3. CASE ~connectionRow
      <3>1. Step(c, "failed") /\ threadRows' = threadRows
        BY <1>8, <2>3 DEF CreateThread
      <3> DEFINE d == [c EXCEPT !.step = "failed"]
      <3>2. threadCalls' = (threadCalls \ {c}) \cup {d}
        BY <3>1 DEF Step
      <3>3. d \in CallSteps /\ d.op = c.op /\ d.thread = c.thread /\ d.step = "failed"
        BY DEF ThreadsInv, ThreadTypes, CallSteps
      <3> HIDE DEF d
      <3>4. ThreadTypes' /\ IdsOnce'
        BY <2>1, <3>1, <3>2, <3>3 DEF ThreadsInv, ThreadTypes, IdsOnce, AwaitsRow
      <3>. QED  BY <2>1, <2>3, <3>1, <3>4 DEF ThreadsInv
    <2>. QED  BY <2>2, <2>3
  <1>9. ASSUME NEW c \in threadCalls, DeleteThread(c) PROVE ThreadsInv'
    <2>1. /\ c.step = "found" /\ Step(c, "done") /\ threadRows' = [threadRows EXCEPT ![c.thread] = NoThread]
          /\ UNCHANGED <<connectionRow, usedIds, untitled, cutOff, userTurns, listShown, listFetch>>
      BY <1>9 DEF DeleteThread
    <2>2. NoThread \in ThreadShape
      BY DEF NoThread, ThreadShape
    <2>. QED  BY <2>1, <2>2, RowChanges
  <1>. QED  BY <1>1, <1>2, <1>3, <1>4, <1>5, <1>6, <1>7, <1>8, <1>9, ThreadTurnStep DEF ThreadsNext

LEMMA ThreadsRest == ASSUME ThreadsInv, UNCHANGED threadVars PROVE ThreadsInv'
  BY DEF ThreadsInv, threadVars, ThreadTypes, IdsOnce, ListFits

-----------------------------------------------------------------------------
(* ModelChoice                                                             *)

Named == ModelIds \cup {NoModel}
Running == ModelIds \cup DefaultModels \cup {NoModel}
AllThreads == PickThreads \cup {Draft}

LEMMA OwnerOwns ==
  ASSUME NEW m \in ModelIds
  PROVE  OwnerOf(m) \in CatalogProviders /\ m \in ModelsOf(OwnerOf(m))
  <1>1. \E p \in CatalogProviders : m \in ModelsOf(p)
    BY DEF ModelIds
  <1>. QED  BY <1>1 DEF OwnerOf

LEMMA FirstModel ==
  ASSUME NEW p \in CatalogProviders
  PROVE  CatalogModels[p][1] \in ModelsOf(p)
  BY PickAssumption DEF ModelsOf

LEMMA OfProvider ==
  ASSUME NEW p \in CatalogProviders, NEW m \in ModelsOf(p)
  PROVE  m \in ModelIds
  BY DEF ModelIds

LEMMA SelectedNamed == ASSUME NEW t PROVE SelectedModel(t) \in Named
  <1> DEFINE picks == <<picked[t], IF t = Draft THEN NoModel ELSE threadListed[t], userDefault>>
             good == {i \in DOMAIN picks : ReadyModel(picks[i], catalogShown)}
  <1>1. SelectedModel(t) = ResolveSelected(catalogShown, picks)
    BY DEF SelectedModel
  <1>2. DOMAIN picks = 1..3
    OBVIOUS
  <1> HIDE DEF picks
  <1>3. CASE good # {}
    <2>1. good \in SUBSET Nat
      BY <1>2
    <2>2. PICK i \in good : \A j \in good : i <= j
      <3> HIDE DEF good
      <3>. QED  BY <1>3, <2>1, LeastElement
    <2>3. (CHOOSE k \in good : \A j \in good : k <= j) \in good
      <3> HIDE DEF good
      <3>. QED  BY <2>2
    <2>4. picks[CHOOSE k \in good : \A j \in good : k <= j] \in ModelIds
      BY <2>3 DEF ReadyModel
    <2>. QED  BY <1>1, <1>3, <2>4 DEF ResolveSelected, Named
  <1>4. CASE good = {}
    <2>1. CatalogModels["anthropic"][1] \in ModelIds
      BY PickAssumption, FirstModel, OfProvider
    <2>. QED  BY <1>1, <1>4, <2>1 DEF ResolveSelected, Named, ReadyModel
  <1>. QED  BY <1>3, <1>4

PickTypes ==
  /\ serverCatalog.model \in DefaultModels
  /\ userDefault \in Named
  /\ providerModels \in [CatalogProviders -> Named]
  /\ \A p \in CatalogProviders : providerModels[p] \in ModelsOf(p) \cup {NoModel}
  /\ threadModel \in [PickThreads -> Running \cup {NotCreated}]
  /\ picked \in [AllThreads -> Running]
  /\ wanted \in [AllThreads -> Running \cup {Missed}]
  /\ creating # NoSend => creating.asked \in Named
  /\ sendCalls \in [PickThreads -> [kind: {"none"}] \cup [kind: {"send"}, asked: Named]]
  /\ modelTurn \in [PickThreads -> [kind: {"none"}] \cup [kind: {"modelTurn"}, asked: Named, model: Running]]

PickInv ==
  /\ PickTypes
  /\ \A t \in PickThreads : sendCalls[t] # NoSend \/ modelTurn[t] # NoSend => Stored(t)
  /\ TurnsRunWhatWasShown
  /\ DefaultsAgree
  /\ PickerRemembers

LEMMA PickStart == PickInit => PickInv
  <1> SUFFICES ASSUME NEW present \in SUBSET CliProviders, NEW m \in DefaultModels,
                      serverCatalog = BuildCatalog(present, m), userDefault = NoModel,
                      providerModels = [p \in CatalogProviders |-> NoModel],
                      NEW stored \in SUBSET PickThreads,
                      threadModel = [t \in PickThreads |-> IF t \in stored THEN NoModel ELSE NotCreated],
                      picked = [t \in PickThreads \cup {Draft} |-> NoModel], creating = NoSend,
                      sendCalls = [t \in PickThreads |-> NoSend], modelTurn = [t \in PickThreads |-> NoSend],
                      wanted = picked
               PROVE  PickInv
    BY DEF PickInit
  <1>1. serverCatalog.model = m
    BY DEF BuildCatalog
  <1>2. NoSend \in [kind: {"none"}]
    BY DEF NoSend
  <1>3. PickTypes
    BY <1>1, <1>2 DEF PickTypes, Named, Running, AllThreads
  <1>. QED  BY <1>3 DEF PickInv, TurnsRunWhatWasShown, DefaultsAgree, PickerRemembers

\* Saving a default keeps it the model saved for its provider.
LEMMA SaveKeeps ==
  ASSUME PickInv, NEW m \in ModelIds, SaveDefault(m)
  PROVE  PickInv'
  <1>1. /\ userDefault' = m /\ providerModels' = [providerModels EXCEPT ![OwnerOf(m)] = m]
        /\ UNCHANGED <<serverCatalog, threadModel, picked, creating, sendCalls, modelTurn, wanted>>
    BY DEF SaveDefault
  <1>2. OwnerOf(m) \in CatalogProviders /\ m \in ModelsOf(OwnerOf(m))
    BY OwnerOwns
  <1>3. PickTypes'
    BY <1>1, <1>2 DEF PickInv, PickTypes, Named
  <1>4. DefaultsAgree'
    BY <1>1, <1>2 DEF PickInv, PickTypes, DefaultsAgree
  <1>. QED  BY <1>1, <1>3, <1>4 DEF PickInv, TurnsRunWhatWasShown, PickerRemembers, Stored, ReadyModel

\* What the user picks, sends and reloads, and nothing else of the settings and turns.
LEMMA PickStep ==
  ASSUME PickInv, PickNext
  PROVE  PickInv'
  <1>0. /\ NoModel \notin ModelIds /\ NotCreated \notin ModelIds \cup DefaultModels \cup {NoModel} /\ Draft \notin PickThreads
        /\ NoSend \in [kind: {"none"}] /\ (\A x : [kind |-> "send", asked |-> x] # NoSend)
        /\ \A x, y : [kind |-> "modelTurn", asked |-> x, model |-> y] # NoSend
    BY PickAssumption DEF NoSend, NotCreated, NoModel
  <1>1. /\ picked \in [AllThreads -> Running] /\ wanted \in [AllThreads -> Running \cup {Missed}]
        /\ threadModel \in [PickThreads -> Running \cup {NotCreated}]
        /\ sendCalls \in [PickThreads -> [kind: {"none"}] \cup [kind: {"send"}, asked: Named]]
        /\ modelTurn \in [PickThreads -> [kind: {"none"}] \cup [kind: {"modelTurn"}, asked: Named, model: Running]]
        /\ PickThreads \subseteq AllThreads /\ Draft \in AllThreads /\ Named \subseteq Running
        /\ \A t \in PickThreads : sendCalls[t] # NoSend => sendCalls[t].asked \in Named
    BY DEF PickInv, PickTypes, AllThreads, Named, Running, NoSend
  <1>2. CASE LoadCatalog \/ LoadThreads \/ \E p \in CliProviders : MachineChanges(p)
    <2>1. UNCHANGED <<serverCatalog, userDefault, providerModels, threadModel, picked, creating, sendCalls, modelTurn, wanted>>
      BY <1>2 DEF LoadCatalog, LoadThreads, MachineChanges
    <2>. QED  BY <2>1 DEF PickInv, PickTypes, TurnsRunWhatWasShown, DefaultsAgree, PickerRemembers, Stored, ReadyModel
  <1>3. CASE SendDraft
    <2>1. /\ creating' = [kind |-> "create", asked |-> SelectedModel(Draft)]
          /\ wanted' = [wanted EXCEPT ![Draft] = NoModel]
          /\ UNCHANGED <<serverCatalog, userDefault, providerModels, threadModel, picked, sendCalls, modelTurn>>
      BY <1>3 DEF SendDraft
    <2>2. creating'.asked \in Named
      BY <2>1, SelectedNamed
    <2>3. wanted' \in [AllThreads -> Running \cup {Missed}] /\ \A t \in PickThreads : wanted'[t] = wanted[t]
      BY <1>0, <1>1, <2>1 DEF Running
    <2>4. PickTypes'
      BY <2>1, <2>2, <2>3 DEF PickInv, PickTypes
    <2>5. PickerRemembers'
      BY <2>1, <2>3 DEF PickInv, PickerRemembers
    <2>. QED  BY <2>1, <2>4, <2>5 DEF PickInv, TurnsRunWhatWasShown, DefaultsAgree, Stored, ReadyModel
  <1>4. CASE ReloadPicks
    <2>1. /\ picked' = [t \in DOMAIN picked |-> NoModel] /\ wanted' = picked' /\ creating' = NoSend
          /\ sendCalls' = [t \in PickThreads |-> NoSend]
          /\ UNCHANGED <<serverCatalog, userDefault, providerModels, threadModel, modelTurn>>
      BY <1>4 DEF ReloadPicks
    <2>2. picked' = [t \in AllThreads |-> NoModel] /\ \A t \in PickThreads : picked'[t] = NoModel /\ sendCalls'[t] = NoSend
      BY <1>1, <2>1
    <2>3. PickTypes'
      BY <1>0, <2>1, <2>2 DEF PickInv, PickTypes, Running
    <2>4. PickerRemembers'
      BY <2>2 DEF PickerRemembers
    <2>. QED  BY <2>1, <2>2, <2>3, <2>4 DEF PickInv, TurnsRunWhatWasShown, DefaultsAgree, Stored, ReadyModel
  <1>5. CASE RestartServer
    <2>1. PICK m \in DefaultModels : serverCatalog' = BuildCatalog(installedClis, m)
      BY <1>5 DEF RestartServer
    <2>2. /\ modelTurn' = [t \in PickThreads |-> NoSend] /\ sendCalls' = [t \in PickThreads |-> NoSend] /\ creating' = NoSend
          /\ wanted' = [t \in DOMAIN wanted |->
                    IF t = Draft \/ wanted[t] # NoModel \/ (modelTurn[t] = NoSend /\ sendCalls[t] = NoSend)
                    THEN wanted[t] ELSE Missed]
          /\ UNCHANGED <<userDefault, providerModels, threadModel, picked>>
      BY <1>5 DEF RestartServer
    <2>3. serverCatalog'.model = m
      BY <2>1 DEF BuildCatalog
    <2>4. /\ wanted' \in [AllThreads -> Running \cup {Missed}]
          /\ \A t \in PickThreads : wanted'[t] = IF wanted[t] # NoModel \/ (modelTurn[t] = NoSend /\ sendCalls[t] = NoSend)
                                                 THEN wanted[t] ELSE Missed
      BY <1>0, <1>1, <2>2
    <2>5. PickTypes'
      BY <1>0, <2>2, <2>3, <2>4 DEF PickInv, PickTypes
    <2>6. \A t \in PickThreads : modelTurn'[t] = NoSend /\ sendCalls'[t] = NoSend
      BY <2>2
    <2>7. PickerRemembers'
      BY <2>2, <2>4, <2>6 DEF PickInv, PickerRemembers, Missed, NoModel
    <2>. QED  BY <2>2, <2>5, <2>6, <2>7 DEF PickInv, TurnsRunWhatWasShown, DefaultsAgree
  <1>6. ASSUME NEW p \in CatalogProviders, UseProviderForNewChats(p) PROVE PickInv'
    <2>1. SaveDefault(ProviderModel(p)) /\ ProviderModel(p) # NoModel
      BY <1>6 DEF UseProviderForNewChats
    <2>2. ProviderModel(p) \in ModelsOf(p)
      BY <2>1, FirstModel DEF ProviderModel, PickInv, PickTypes
    <2>. QED  BY <2>1, <2>2, OfProvider, SaveKeeps
  <1>7. ASSUME NEW p \in CatalogProviders, NEW m \in ModelIds, ChooseProviderModel(p, m) PROVE PickInv'
    <2>1. m \in ModelsOf(p) /\ ReadyModel(m, catalogShown)
      BY <1>7 DEF ChooseProviderModel
    <2>2. CASE DefaultProvider = p
      BY <1>7, <2>2, SaveKeeps DEF ChooseProviderModel
    <2>3. CASE DefaultProvider # p
      <3>1. /\ providerModels' = [providerModels EXCEPT ![p] = m]
            /\ UNCHANGED <<serverCatalog, userDefault, threadModel, picked, creating, sendCalls, modelTurn, wanted>>
        BY <1>7, <2>3 DEF ChooseProviderModel
      <3>2. catalogShown # NoCatalog
        BY <2>1 DEF ReadyModel, NoCatalog
      <3>3. userDefault # NoModel => OwnerOf(userDefault) # p /\ OwnerOf(userDefault) \in CatalogProviders
        BY <2>3, <3>2, OwnerOwns DEF DefaultProvider, PickInv, PickTypes, Named
      <3>4. PickTypes'
        BY <2>1, <3>1 DEF PickInv, PickTypes, Named
      <3>5. DefaultsAgree'
        BY <3>1, <3>3 DEF PickInv, PickTypes, DefaultsAgree
      <3>. QED  BY <3>1, <3>4, <3>5 DEF PickInv, TurnsRunWhatWasShown, PickerRemembers, Stored, ReadyModel
    <2>. QED  BY <2>2, <2>3
  <1>8. ASSUME NEW t \in AllThreads, PickerDefault(t) PROVE PickInv'
    <2>1. SaveDefault(SelectedModel(t)) /\ SelectedModel(t) # NoModel
      BY <1>8 DEF PickerDefault
    <2>2. SelectedModel(t) \in ModelIds
      BY <2>1, SelectedNamed DEF Named
    <2>. QED  BY <2>1, <2>2, SaveKeeps
  <1>9. ASSUME NEW t \in AllThreads, NEW m \in ModelIds, Pick(t, m) PROVE PickInv'
    <2>1. /\ picked' = [picked EXCEPT ![t] = m] /\ wanted' = [wanted EXCEPT ![t] = m]
          /\ UNCHANGED <<serverCatalog, userDefault, providerModels, threadModel, creating, sendCalls, modelTurn>>
      BY <1>9 DEF Pick
    <2>2. /\ picked' \in [AllThreads -> Running] /\ wanted' \in [AllThreads -> Running \cup {Missed}]
          /\ wanted'[t] # NoModel
          /\ \A x \in PickThreads : x # t => wanted'[x] = wanted[x] /\ picked'[x] = picked[x]
      BY <1>0, <1>1, <2>1 DEF Running
    <2>3. PickTypes'
      BY <2>1, <2>2 DEF PickInv, PickTypes
    <2>4. PickerRemembers'
      BY <2>1, <2>2 DEF PickInv, PickerRemembers
    <2>. QED  BY <2>1, <2>3, <2>4 DEF PickInv, TurnsRunWhatWasShown, DefaultsAgree, Stored, ReadyModel
  <1>10. ASSUME NEW t \in PickThreads, SendChosen(t) PROVE PickInv'
    <2> DEFINE send == [kind |-> "send", asked |-> SelectedModel(t)]
    <2>1. /\ sendCalls' = [sendCalls EXCEPT ![t] = send] /\ wanted' = [wanted EXCEPT ![t] = NoModel] /\ Stored(t)
          /\ UNCHANGED <<serverCatalog, userDefault, providerModels, threadModel, picked, creating, modelTurn>>
      BY <1>10 DEF SendChosen
    <2>2. send \in [kind: {"send"}, asked: Named] /\ send # NoSend
      BY <1>0, SelectedNamed
    <2> HIDE DEF send
    <2>3. /\ sendCalls' \in [PickThreads -> [kind: {"none"}] \cup [kind: {"send"}, asked: Named]]
          /\ sendCalls'[t] # NoSend /\ \A x \in PickThreads : x # t => sendCalls'[x] = sendCalls[x] /\ wanted'[x] = wanted[x]
          /\ wanted' \in [AllThreads -> Running \cup {Missed}]
      BY <1>1, <2>1, <2>2 DEF Running
    <2>4. PickTypes'
      BY <2>1, <2>3 DEF PickInv, PickTypes
    <2>5. PickerRemembers'
      BY <2>1, <2>3 DEF PickInv, PickerRemembers
    <2>6. \A x \in PickThreads : sendCalls'[x] # NoSend \/ modelTurn'[x] # NoSend => Stored(x)'
      BY <2>1, <2>3 DEF PickInv, Stored
    <2>. QED  BY <2>1, <2>4, <2>5, <2>6 DEF PickInv, TurnsRunWhatWasShown, DefaultsAgree, ReadyModel
  <1>11. ASSUME NEW t \in PickThreads, DraftCreated(t) PROVE PickInv'
    <2> DEFINE send == [kind |-> "send", asked |-> creating.asked]
    <2>1. /\ sendCalls' = [sendCalls EXCEPT ![t] = send] /\ creating # NoSend /\ ~Stored(t)
          /\ threadModel' = [threadModel EXCEPT ![t] = NoModel] /\ picked' = [picked EXCEPT ![t] = creating.asked]
          /\ creating' = NoSend
          /\ UNCHANGED <<serverCatalog, userDefault, providerModels, wanted, modelTurn>>
      BY <1>11 DEF DraftCreated
    <2>2. creating.asked \in Named
      BY <2>1 DEF PickInv, PickTypes
    <2>3. send \in [kind: {"send"}, asked: Named] /\ send # NoSend
      BY <1>0, <2>2
    <2> HIDE DEF send
    <2>4. /\ sendCalls' \in [PickThreads -> [kind: {"none"}] \cup [kind: {"send"}, asked: Named]]
          /\ sendCalls'[t] # NoSend
          /\ threadModel' \in [PickThreads -> Running \cup {NotCreated}]
          /\ picked' \in [AllThreads -> Running]
          /\ threadModel'[t] # NotCreated
          /\ \A x \in PickThreads : x # t => sendCalls'[x] = sendCalls[x] /\ threadModel'[x] = threadModel[x] /\ picked'[x] = picked[x]
      BY <1>0, <1>1, <2>1, <2>2, <2>3 DEF Running
    <2>5. PickTypes'
      BY <2>1, <2>4 DEF PickInv, PickTypes
    <2>6. modelTurn[t] = NoSend
      BY <2>1 DEF PickInv
    <2>7. PickerRemembers'
      BY <2>1, <2>4 DEF PickInv, PickerRemembers
    <2>8. \A x \in PickThreads : sendCalls'[x] # NoSend \/ modelTurn'[x] # NoSend => Stored(x)'
      BY <2>1, <2>4 DEF PickInv, Stored
    <2>9. TurnsRunWhatWasShown'
      BY <2>1, <2>4, <2>6 DEF PickInv, TurnsRunWhatWasShown, ReadyModel
    <2>. QED  BY <2>1, <2>5, <2>7, <2>8, <2>9 DEF PickInv, DefaultsAgree
  <1>12. ASSUME NEW t \in PickThreads, StartModelTurn(t) PROVE PickInv'
    <2> DEFINE resolved == ResolveModel(sendCalls[t].asked, threadModel[t], serverCatalog.model, serverCatalog)
    <2>1. /\ sendCalls[t] # NoSend /\ sendCalls[t].asked \in Named
          /\ UNCHANGED <<serverCatalog, userDefault, providerModels, picked, creating>>
      BY <1>1, <1>12 DEF StartModelTurn
    <2>2. /\ sendCalls' = [sendCalls EXCEPT ![t] = NoSend]
      BY <1>12 DEF StartModelTurn, RefuseSend
    <2>3. /\ sendCalls' \in [PickThreads -> [kind: {"none"}] \cup [kind: {"send"}, asked: Named]]
          /\ sendCalls'[t] = NoSend
          /\ \A x \in PickThreads : x # t => sendCalls'[x] = sendCalls[x]
      BY <1>0, <1>1, <2>2
    <2>4. CASE ~resolved.ok \/ modelTurn[t] # NoSend
      <3>1. /\ wanted' = [wanted EXCEPT ![t] = IF @ = NoModel THEN Missed ELSE @] /\ UNCHANGED <<threadModel, modelTurn>>
        BY <1>12, <2>4 DEF StartModelTurn, RefuseSend
      <3>2. /\ wanted' \in [AllThreads -> Running \cup {Missed}] /\ wanted'[t] # NoModel
            /\ \A x \in PickThreads : x # t => wanted'[x] = wanted[x]
        BY <1>1, <3>1 DEF Missed, NoModel
      <3>3. PickTypes'
        BY <2>1, <2>3, <3>1, <3>2 DEF PickInv, PickTypes
      <3>4. PickerRemembers'
        BY <2>1, <2>3, <3>1, <3>2 DEF PickInv, PickerRemembers
      <3>. QED  BY <2>1, <2>3, <3>1, <3>3, <3>4 DEF PickInv, TurnsRunWhatWasShown, DefaultsAgree, Stored, ReadyModel
    <2>5. CASE resolved.ok /\ modelTurn[t] = NoSend
      <3> DEFINE turn == [kind |-> "modelTurn", asked |-> sendCalls[t].asked, model |-> resolved.model]
      <3>1. /\ threadModel' = [threadModel EXCEPT ![t] = resolved.model] /\ UNCHANGED wanted
            /\ modelTurn' = [modelTurn EXCEPT ![t] = turn]
        BY <1>12, <2>5 DEF StartModelTurn
      <3>2. /\ resolved.model \in ModelIds \cup DefaultModels
            /\ sendCalls[t].asked # NoModel => resolved.model = sendCalls[t].asked /\ ReadyModel(resolved.model, serverCatalog)
        BY <2>5 DEF ResolveModel, ReadyModel, PickInv, PickTypes
      <3>3. turn \in [kind: {"modelTurn"}, asked: Named, model: Running] /\ turn # NoSend
            /\ turn.model = resolved.model /\ turn.asked = sendCalls[t].asked
        BY <1>0, <2>1, <3>2 DEF Running
      <3> HIDE DEF turn, resolved
      <3>4. /\ threadModel' \in [PickThreads -> Running \cup {NotCreated}]
            /\ threadModel'[t] = resolved.model /\ threadModel'[t] # NotCreated
            /\ modelTurn' \in [PickThreads -> [kind: {"none"}] \cup [kind: {"modelTurn"}, asked: Named, model: Running]]
            /\ modelTurn'[t] = turn
            /\ \A x \in PickThreads : x # t => modelTurn'[x] = modelTurn[x] /\ threadModel'[x] = threadModel[x]
        BY <1>0, <1>1, <3>1, <3>2, <3>3 DEF Running
      <3>5. PickTypes'
        BY <2>1, <2>3, <3>1, <3>4 DEF PickInv, PickTypes
      <3>6. PickerRemembers'
        BY <2>1, <2>3, <3>1, <3>3, <3>4 DEF PickInv, PickerRemembers
      <3>7. TurnsRunWhatWasShown'
        BY <2>1, <3>2, <3>3, <3>4 DEF PickInv, TurnsRunWhatWasShown, ReadyModel
      <3>8. \A x \in PickThreads : sendCalls'[x] # NoSend \/ modelTurn'[x] # NoSend => Stored(x)'
        BY <2>3, <3>4 DEF PickInv, Stored
      <3>. QED  BY <2>1, <3>5, <3>6, <3>7, <3>8 DEF PickInv, DefaultsAgree
    <2>. QED  BY <2>4, <2>5
  <1>13. ASSUME NEW t \in PickThreads, EndModelTurn(t) PROVE PickInv'
    <2>1. /\ modelTurn[t] # NoSend /\ modelTurn' = [modelTurn EXCEPT ![t] = NoSend]
          /\ \/ picked' = [picked EXCEPT ![t] = modelTurn[t].model] /\ UNCHANGED wanted
             \/ wanted' = [wanted EXCEPT ![t] = IF @ = NoModel THEN Missed ELSE @] /\ UNCHANGED picked
          /\ UNCHANGED <<serverCatalog, userDefault, providerModels, threadModel, creating, sendCalls>>
      BY <1>13 DEF EndModelTurn
    <2>2. modelTurn[t].model = threadModel[t] /\ modelTurn[t].model \in Running
      BY <2>1 DEF PickInv, PickTypes, TurnsRunWhatWasShown, NoSend
    <2>3. /\ modelTurn' \in [PickThreads -> [kind: {"none"}] \cup [kind: {"modelTurn"}, asked: Named, model: Running]]
          /\ modelTurn'[t] = NoSend
          /\ \A x \in PickThreads : x # t => modelTurn'[x] = modelTurn[x]
      BY <1>0, <1>1, <2>1
    <2>4. /\ picked' \in [AllThreads -> Running] /\ wanted' \in [AllThreads -> Running \cup {Missed}]
          /\ picked'[t] = threadModel[t] \/ wanted'[t] # NoModel
          /\ \A x \in PickThreads : x # t => wanted'[x] = wanted[x] /\ picked'[x] = picked[x]
      <3>1. CASE picked' = [picked EXCEPT ![t] = modelTurn[t].model] /\ UNCHANGED wanted
        BY <1>1, <2>2, <3>1
      <3>2. CASE wanted' = [wanted EXCEPT ![t] = IF @ = NoModel THEN Missed ELSE @] /\ UNCHANGED picked
        BY <1>1, <3>2 DEF Missed, NoModel
      <3>. QED  BY <2>1, <3>1, <3>2
    <2>5. PickTypes'
      BY <2>1, <2>3, <2>4 DEF PickInv, PickTypes
    <2>6. PickerRemembers'
      BY <2>1, <2>3, <2>4 DEF PickInv, PickerRemembers
    <2>7. TurnsRunWhatWasShown'
      BY <2>1, <2>3 DEF PickInv, TurnsRunWhatWasShown, ReadyModel
    <2>8. \A x \in PickThreads : sendCalls'[x] # NoSend \/ modelTurn'[x] # NoSend => Stored(x)'
      BY <2>1, <2>3 DEF PickInv, Stored
    <2>. QED  BY <2>1, <2>5, <2>6, <2>7, <2>8 DEF PickInv, DefaultsAgree
  <1>. QED  BY <1>2, <1>3, <1>4, <1>5, <1>6, <1>7, <1>8, <1>9, <1>10, <1>11, <1>12, <1>13 DEF PickNext, AllThreads

LEMMA PickRest == ASSUME PickInv, UNCHANGED pickVars PROVE PickInv'
  BY DEF PickInv, pickVars, PickTypes, TurnsRunWhatWasShown, DefaultsAgree, PickerRemembers, Stored, ReadyModel

-----------------------------------------------------------------------------
(* ConnectionForm                                                          *)

FormWords == FormRows \cup {"", "std", "own", "localhost", "typed"}
RowDialects == {"postgres", "mysql", "sqlite", "bigquery"}
FormUrls == [scheme: RowDialects \cup {""}, host: FormWords, port: FormWords, database: FormWords, password: FormWords]
RowShapes == [dialect: RowDialects, host: FormWords, port: FormWords, database: FormWords] \cup {BlankRow}
SecretShapes == [password: FormWords, url: FormUrls]
FormShapes == [dialect: RowDialects, mode: {"fields", "url"}, url: FormUrls, hasStoredUrl: BOOLEAN,
               host: FormWords, port: FormWords, database: FormWords, password: FormWords]
InputWords == FormWords \cup {Absent}
InputShapes == [dialect: RowDialects, host: InputWords, port: InputWords, database: InputWords,
                password: InputWords, url: FormUrls \cup {AbsentUrl}]
StoredRows == FormRows \cup {NewRow}

\* The secrets of a form, a row or an input are c's or typed.
SecretOf(k, c) == k.password \in {"", Absent, c, "typed"} /\ k.url.password \in {"", Absent, c, "typed"}

\* What ToConnectionInput makes of a form that validates.
InputFits(i) ==
  /\ i \in InputShapes
  /\ ~Networked(i.dialect) => i.url = NoUrl /\ i.database # Absent
  /\ i.dialect = "bigquery" => i.host # Absent
  /\ Networked(i.dialect) => \/ i.url # NoUrl /\ i.host = Absent /\ i.port = Absent /\ i.database = Absent
                             \/ i.url = NoUrl /\ {i.host, i.port, i.database} \cap {Absent, ""} = {}

\* A row that is reached by URL has no fields.
RowFits(r, k) == k.url # NoUrl => Networked(r.dialect) /\ r.host = "" /\ r.database = ""
PortFits(r) == Networked(r.dialect) => r.port # ""

WithSecret(v, k) ==
  [v EXCEPT !.password = k.password, !.url = k.url, !.hasStoredUrl = k.url # NoUrl,
            !.mode = IF k.url # NoUrl THEN "url" ELSE @]
Untouched(v, r, k) == v = FromConnection(r) \/ v = WithSecret(FromConnection(r), k)

SaveShape(s) ==
  /\ s = [row |-> s.row, input |-> s.input, step |-> s.step, call |-> s.call, history |-> s.history,
          untouched |-> s.untouched, seed |-> s.seed]
  /\ s.row \in StoredRows /\ s.untouched \in BOOLEAN

SentFits(s) ==
  /\ InputFits(s.input) /\ SecretOf(s.input, s.row)
  /\ s.untouched /\ s.row # NewRow => \E v \in FormShapes : Untouched(v, s.seed.row, s.seed.secret) /\ s.input = ToConnectionInput(v)
  /\ s.row = NewRow => rows[NewRow] = BlankRow /\ \A t \in rowSaves : t.row = NewRow => t = s

ReachedAfter(s) == Reaches(SpecFromConnection(rows[s.row], SecretFrom(s.input)))

RowWrittenFits(s) ==
  /\ SecretFrom(s.input) \in SecretShapes /\ SecretOf(SecretFrom(s.input), s.row)
  /\ s.row \notin overlapped =>
       /\ RowFits(rows[s.row], SecretFrom(s.input))
       /\ ReachedAfter(s) = s.history.tested
       /\ s.history.unmoved => s.history.tested = s.history.before
       /\ \A t \in rowSaves : t.step = "row" /\ t.row = s.row => t = s

StoreFits ==
  /\ rows \in [StoredRows -> RowShapes] /\ secrets \in [StoredRows -> SecretShapes]
  /\ rowsShown \in [StoredRows -> RowShapes]
  /\ \A c \in StoredRows : SecretOf(secrets[c], c) /\ PortFits(rows[c])
  /\ \A c \in StoredRows \ overlapped :
       (\A s \in rowSaves : s.step = "row" => s.row # c) => RowFits(rows[c], secrets[c])

DialogFits ==
  /\ dialog = [open |-> dialog.open, row |-> dialog.row, token |-> dialog.token, loading |-> dialog.loading,
               submitting |-> dialog.submitting, touched |-> dialog.touched, seed |-> dialog.seed]
  /\ dialog.open \in BOOLEAN /\ dialog.row \in StoredRows /\ dialog.token \in Nat /\ dialog.loading \in BOOLEAN
  /\ dialog.touched \in BOOLEAN
  /\ form \in FormShapes
  /\ dialog.open =>
       /\ SecretOf(form, dialog.row)
       /\ dialog.seed.row \in RowShapes /\ dialog.seed.secret \in SecretShapes
       /\ SecretOf(dialog.seed.secret, dialog.row)
       /\ ~dialog.touched /\ dialog.row # NewRow => Untouched(form, dialog.seed.row, dialog.seed.secret)
  /\ \A a \in credentialCalls :
       /\ a.token \in Nat /\ a.token <= dialog.token
       /\ a.token = dialog.token => dialog.open /\ dialog.row # NewRow /\ a.secret = dialog.seed.secret

SavesFit ==
  \A s \in rowSaves :
    /\ SaveShape(s)
    /\ s.step = "sent" => SentFits(s)
    /\ s.step = "row" => RowWrittenFits(s)

FormInv == StoreFits /\ DialogFits /\ SavesFit /\ SavedIsTested /\ UntouchedIsUnchanged

LEMMA NoUrlFits == NoUrl \in FormUrls /\ AbsentUrl \notin FormUrls /\ NoUrl # AbsentUrl
                   /\ NoUrl.password = "" /\ AbsentUrl.password = "" /\ AbsentUrl.scheme = Absent
  <1>1. NoUrl = [scheme |-> "", host |-> "", port |-> "", database |-> "", password |-> ""]
    BY DEF NoUrl, Url
  <1>2. AbsentUrl = [scheme |-> "-", host |-> "", port |-> "", database |-> "", password |-> ""]
    BY DEF AbsentUrl, Url, Absent
  <1>3. "" \in FormWords
    BY DEF FormWords
  <1>. QED  BY <1>1, <1>2, <1>3 DEF FormUrls, RowDialects, Absent

LEMMA WordsAreGiven == Absent \notin FormWords /\ NewRow \notin FormRows
  BY FormAssumption DEF FormWords, Absent, NewRow

LEMMA ConnectionFormFits ==
  ASSUME NEW r \in RowShapes, r # BlankRow
  PROVE  FromConnection(r) \in FormShapes /\ FromConnection(r).password = "" /\ FromConnection(r).url = NoUrl
  <1>1. r \in [dialect: RowDialects, host: FormWords, port: FormWords, database: FormWords]
    BY DEF RowShapes
  <1>2. DefaultPort(r.dialect) \in FormWords /\ "" \in FormWords
    BY DEF DefaultPort, FormWords
  <1>. QED  BY <1>1, <1>2, NoUrlFits DEF FromConnection, FormShapes

LEMMA WithSecretFits ==
  ASSUME NEW v \in FormShapes, NEW k \in SecretShapes
  PROVE  /\ WithSecret(v, k) \in FormShapes /\ WithSecret(v, k).password = k.password /\ WithSecret(v, k).url = k.url
         /\ WithSecret(WithSecret(v, k), k) = WithSecret(v, k)
  BY DEF WithSecret, FormShapes, SecretShapes

\* What the dialog sends is complete.
LEMMA InputOfFits ==
  ASSUME NEW v \in FormShapes, Validates(v), NEW c \in StoredRows, SecretOf(v, c)
  PROVE  InputFits(ToConnectionInput(v)) /\ SecretOf(ToConnectionInput(v), c)
  <1>1. CASE v.dialect = "sqlite"
    BY <1>1, NoUrlFits, WordsAreGiven DEF ToConnectionInput, Input, Validates, InputFits, SecretOf, FormShapes, InputShapes, InputWords, Networked
  <1>2. CASE v.dialect = "bigquery"
    BY <1>2, NoUrlFits, WordsAreGiven DEF ToConnectionInput, Input, Validates, InputFits, SecretOf, FormShapes, InputShapes, InputWords, Networked
  <1>3. CASE Networked(v.dialect) /\ v.mode = "url"
    BY <1>3, NoUrlFits, WordsAreGiven DEF ToConnectionInput, Input, Validates, InputFits, SecretOf, FormShapes, InputShapes, InputWords, Networked
  <1>4. CASE Networked(v.dialect) /\ v.mode = "fields"
    BY <1>4, NoUrlFits, WordsAreGiven DEF ToConnectionInput, Input, Validates, InputFits, SecretOf, FormShapes, InputShapes, InputWords, Networked
  <1>. QED  BY <1>1, <1>2, <1>3, <1>4 DEF FormShapes, RowDialects, Networked

\* A form keeps what it holds from dialect to dialect and from mode to mode.
LEMMA EditsFit ==
  ASSUME NEW v \in FormShapes, NEW c \in StoredRows, SecretOf(v, c)
  PROVE  /\ \A d \in FormDialects : InDialect(v, d) \in FormShapes /\ SecretOf(InDialect(v, d), c)
         /\ InFields(v) \in FormShapes /\ SecretOf(InFields(v), c)
         /\ Networked(v.dialect) => InUrl(v) \in FormShapes /\ SecretOf(InUrl(v), c)
  <1>1. ASSUME NEW d \in FormDialects PROVE InDialect(v, d) \in FormShapes /\ SecretOf(InDialect(v, d), c)
    <2>1. d \in RowDialects /\ DefaultPort(d) \in FormWords /\ "localhost" \in FormWords /\ "" \in FormWords
      BY FormAssumption DEF RowDialects, DefaultPort, FormWords
    <2>. QED  BY <2>1 DEF InDialect, FormShapes, SecretOf
  <1>2. InFields(v) \in FormShapes /\ SecretOf(InFields(v), c)
    BY DEF InFields, FormShapes, FormUrls, SecretOf
  <1>3. InUrl(v) \in FormShapes /\ SecretOf(InUrl(v), c)
    BY DEF InUrl, FormShapes, FormUrls, SecretOf, Url
  <1>. QED  BY <1>1, <1>2, <1>3

LEMMA MergeFits ==
  ASSUME NEW i, InputFits(i), NEW k \in SecretShapes, NEW c \in StoredRows, SecretOf(i, c), SecretOf(k, c)
  PROVE  LET m == MergeSecret(i, k) IN
         /\ m.dialect = i.dialect /\ m.host = i.host /\ m.port = i.port /\ m.database = i.database
         /\ m.url = IF i.url = AbsentUrl THEN k.url ELSE i.url
         /\ m.password = IF i.password \notin {Absent, ""} THEN i.password ELSE k.password
         /\ m.password \in FormWords /\ m.url \in FormUrls
         /\ SecretFrom(m) = [password |-> m.password, url |-> m.url]
         /\ SecretFrom(m) \in SecretShapes /\ SecretOf(SecretFrom(m), c)
  BY NoUrlFits, WordsAreGiven DEF MergeSecret, InputFits, InputShapes, InputWords, SecretShapes, SecretFrom, Given, SecretOf

LEMMA BlankColumns ==
  ASSUME NEW p
  PROVE  LET x == [BlankRow EXCEPT !.port = p] IN x.dialect = "" /\ x.host = "" /\ x.port = p /\ x.database = ""
  BY DEF BlankRow

LEMMA BlankIs == BlankRow.dialect = "" /\ BlankRow.host = "" /\ BlankRow.port = "" /\ BlankRow.database = ""
  BY DEF BlankRow

\* Two targets are the same that agree on what a driver of their dialect reads.
LEMMA SameTarget ==
  ASSUME NEW x, NEW y, x.dialect = y.dialect, x.database = y.database,
         x.dialect = "bigquery" => x.host = y.host /\ x.password = y.password,
         x.dialect # "bigquery" => x.url = y.url,
         x.dialect \notin {"bigquery", "sqlite"} /\ x.url = NoUrl => x.host = y.host /\ x.port = y.port /\ x.password = y.password
  PROVE  Reaches(x) = Reaches(y)
  <1>1. CASE x.dialect = "bigquery"
    BY <1>1 DEF Reaches, Url
  <1>2. CASE x.dialect = "sqlite"
    BY <1>2 DEF Reaches, Url
  <1>3. CASE x.dialect \notin {"bigquery", "sqlite"}
    BY <1>3 DEF Reaches, Url
  <1>. QED  BY <1>1, <1>2, <1>3

SameParts(r, k, m) ==
  /\ r.dialect = m.dialect /\ r.database = Given(m.database)
  /\ r.dialect = "bigquery" => r.host = Given(m.host) /\ k.password = Given(m.password)
  /\ r.dialect # "bigquery" => k.url = m.url
  /\ r.dialect \notin {"bigquery", "sqlite"} /\ k.url = NoUrl =>
            r.host = Given(m.host) /\ r.port = Given(m.port) /\ k.password = Given(m.password)

LEMMA TargetsAgree ==
  ASSUME NEW r, NEW k, NEW m, SameParts(r, k, m)
  PROVE  Reaches(SpecFromConnection(r, k)) = Reaches(SpecFromInput(m))
  <1> DEFINE x == SpecFromConnection(r, k)
             y == SpecFromInput(m)
  <1>1. x.dialect = r.dialect /\ x.host = r.host /\ x.port = r.port /\ x.database = r.database /\ x.password = k.password /\ x.url = k.url
    BY DEF SpecFromConnection
  <1>2. /\ y.dialect = m.dialect /\ y.host = Given(m.host) /\ y.port = Given(m.port) /\ y.database = Given(m.database)
        /\ y.password = Given(m.password) /\ y.url = m.url
    BY DEF SpecFromInput
  <1> HIDE DEF x, y
  <1>3. Reaches(x) = Reaches(y)
    BY <1>1, <1>2, SameTarget DEF SameParts
  <1>. QED  BY <1>3 DEF x, y

LEMMA UrlsAgree ==
  ASSUME NEW r, NEW k, NEW m, r.dialect = m.dialect, r.dialect \notin {"bigquery", "sqlite"}, k.url = m.url, k.url # NoUrl
  PROVE  Reaches(SpecFromConnection(r, k)) = Reaches(SpecFromInput(m))
  BY DEF Reaches, SpecFromConnection, SpecFromInput

\* The row an update leaves, column by column.
ByUrl(i) == i.url \notin {NoUrl, AbsentUrl}
OtherDialect(r, i) == r.dialect # i.dialect
Replaces(new, r, i) == new = IF r = BlankRow THEN NewRowOf(i) ELSE UpdatedRow(r, i)

LEMMA UpdatedColumns ==
  ASSUME NEW r \in RowShapes, NEW i, InputFits(i), r # BlankRow, NEW new, Replaces(new, r, i)
  PROVE  /\ new.dialect = i.dialect
         /\ \E h, p, d : new = [dialect |-> i.dialect, host |-> h, port |-> p, database |-> d]
         /\ new.host = IF ByUrl(i) THEN "" ELSE IF i.host # Absent THEN i.host ELSE IF OtherDialect(r, i) THEN "" ELSE r.host
         /\ new.port = IF ByUrl(i) THEN DefaultPort(i.dialect) ELSE IF i.port # Absent THEN i.port
                       ELSE IF OtherDialect(r, i) THEN DefaultPort(i.dialect) ELSE r.port
         /\ new.database = IF ByUrl(i) THEN "" ELSE IF i.database # Absent THEN i.database ELSE IF OtherDialect(r, i) THEN "" ELSE r.database
  <1> DEFINE b == [BlankRow EXCEPT !.port = DefaultPort(i.dialect)]
  <1>1. b.host = "" /\ b.port = DefaultPort(i.dialect) /\ b.database = ""
    BY BlankColumns
  <1> HIDE DEF b
  <1>. QED  BY <1>1 DEF UpdatedRow, Replaces, b, ByUrl, OtherDialect

KeptBy(kept, r, k, i) == kept = IF r.dialect = i.dialect THEN k ELSE NoSecret
Merges(m, i, k) == m = MergeSecret(i, k)
Sends(i, v) == i = ToConnectionInput(v)

\* What a save leaves reaches what the test of the same input reached.
LEMMA SavedReaches ==
  ASSUME NEW r \in RowShapes, NEW k \in SecretShapes, NEW i, InputFits(i), NEW c \in StoredRows, SecretOf(i, c), SecretOf(k, c),
         PortFits(r),
         NEW kept, KeptBy(kept, r, k, i), NEW m, Merges(m, i, kept), Usable(m), NEW new, Replaces(new, r, i)
  PROVE  /\ new \in RowShapes /\ new.dialect = i.dialect /\ PortFits(new)
         /\ RowFits(r, k) => RowFits(new, SecretFrom(m))
         /\ Reaches(SpecFromConnection(new, SecretFrom(m))) = Reaches(SpecFromInput(m))
         /\ SecretFrom(m) \in SecretShapes /\ SecretOf(SecretFrom(m), c)
  <1>1. NoSecret \in SecretShapes /\ SecretOf(NoSecret, c) /\ NoSecret.url = NoUrl
    BY NoUrlFits DEF NoSecret, SecretShapes, SecretOf, FormWords
  <1>2. kept \in SecretShapes /\ SecretOf(kept, c)
    BY <1>1 DEF KeptBy
  <1>3. /\ m.dialect = i.dialect /\ m.host = i.host /\ m.port = i.port /\ m.database = i.database
        /\ m.url = IF i.url = AbsentUrl THEN kept.url ELSE i.url
        /\ SecretFrom(m) = [password |-> m.password, url |-> m.url]
        /\ SecretFrom(m) \in SecretShapes /\ SecretOf(SecretFrom(m), c)
    BY <1>2, MergeFits DEF Merges
  <1>4. m.password \in FormWords /\ m.url \in FormUrls
    BY <1>3 DEF SecretShapes
  <1>5. i.dialect \in RowDialects /\ i.host \in InputWords /\ i.port \in InputWords /\ i.database \in InputWords
    BY DEF InputFits, InputShapes
  <1>6. DefaultPort(i.dialect) \in FormWords /\ "" \in FormWords /\ (Networked(i.dialect) => DefaultPort(i.dialect) # "")
    BY DEF DefaultPort, FormWords
  <1>7. r \in [dialect: RowDialects, host: FormWords, port: FormWords, database: FormWords] \/ r = BlankRow
    BY DEF RowShapes
  <1>8. r = BlankRow => r.dialect = "" /\ r.host = "" /\ r.port = "" /\ r.database = ""
    BY BlankIs
  <1>9. r.host \in FormWords /\ r.port \in FormWords /\ r.database \in FormWords
    BY <1>6, <1>7, <1>8
  <1>10. r = BlankRow => r.dialect # i.dialect
    BY <1>5, <1>8 DEF RowDialects
  <1>11. /\ new.dialect = i.dialect
         /\ \E h, p, d : new = [dialect |-> i.dialect, host |-> h, port |-> p, database |-> d]
         /\ new.host = IF ByUrl(i) THEN "" ELSE IF i.host # Absent THEN i.host ELSE IF OtherDialect(r, i) THEN "" ELSE r.host
         /\ new.port = IF ByUrl(i) THEN DefaultPort(i.dialect) ELSE IF i.port # Absent THEN i.port
                       ELSE IF OtherDialect(r, i) THEN DefaultPort(i.dialect) ELSE r.port
         /\ new.database = IF ByUrl(i) THEN "" ELSE IF i.database # Absent THEN i.database ELSE IF OtherDialect(r, i) THEN "" ELSE r.database
    <2>1. CASE r = BlankRow
      <3>1. i.host = Absent \/ ~ByUrl(i)
        BY WordsAreGiven DEF InputFits, ByUrl
      <3>2. new = [dialect |-> i.dialect, host |-> Given(i.host),
                   port |-> IF i.port = Absent THEN DefaultPort(i.dialect) ELSE i.port, database |-> Given(i.database)]
        BY <2>1 DEF NewRowOf, Replaces
      <3>3. ByUrl(i) => i.host = Absent /\ i.port = Absent /\ i.database = Absent
        BY DEF InputFits, ByUrl
      <3>4. /\ new.host = (IF i.host = Absent THEN "" ELSE i.host) /\ new.database = (IF i.database = Absent THEN "" ELSE i.database)
            /\ new.port = (IF i.port = Absent THEN DefaultPort(i.dialect) ELSE i.port)
        BY <3>2 DEF Given
      <3>5. new.dialect = i.dialect /\ \E h, p, d : new = [dialect |-> i.dialect, host |-> h, port |-> p, database |-> d]
        BY <3>2
      <3>6. OtherDialect(r, i)
        BY <2>1, <1>10 DEF OtherDialect
      <3>. QED  BY <3>3, <3>4, <3>5, <3>6
    <2>2. CASE r # BlankRow
      BY <2>2, UpdatedColumns
    <2>. QED  BY <2>1, <2>2
  <1>12. new.host \in FormWords /\ new.port \in FormWords /\ new.database \in FormWords /\ new.dialect = i.dialect
    BY <1>5, <1>6, <1>9, <1>11 DEF InputWords
  <1>13. new \in RowShapes
    BY <1>5, <1>11, <1>12 DEF RowShapes
  <1>14. PortFits(new)
    <2>1. ASSUME Networked(i.dialect) PROVE new.port # ""
      <3>1. i.port # Absent => i.port # ""
        BY <2>1 DEF InputFits
      <3>2. ~OtherDialect(r, i) => r.port # ""
        BY <2>1 DEF PortFits, OtherDialect
      <3>. QED  BY <2>1, <1>6, <1>11, <3>1, <3>2
    <2>. QED  BY <2>1, <1>12 DEF PortFits
  <1>15. CASE ~Networked(i.dialect)
    <2>1. i.url = NoUrl /\ i.database # Absent /\ (i.dialect = "bigquery" => i.host # Absent)
      BY <1>15 DEF InputFits
    <2>2. m.url = NoUrl /\ ~ByUrl(i)
      BY <2>1, <1>3, NoUrlFits DEF ByUrl
    <2>3. new.database = i.database /\ (i.dialect = "bigquery" => new.host = i.host)
      BY <2>1, <2>2, <1>11
    <2>4. i.dialect \in {"sqlite", "bigquery"}
      BY <1>5, <1>15 DEF RowDialects, Networked
    <2>5. Given(i.database) = i.database /\ (i.dialect = "bigquery" => Given(i.host) = i.host)
      BY <2>1 DEF Given
    <2>6. Given(m.password) = m.password
      BY <1>4, WordsAreGiven DEF Given
    <2>7. Reaches(SpecFromConnection(new, SecretFrom(m))) = Reaches(SpecFromInput(m))
      <3>1. CASE i.dialect = "sqlite"
        BY <3>1, <1>3, <1>12, <2>2, <2>3, <2>5, TargetsAgree DEF SameParts
      <3>2. CASE i.dialect = "bigquery"
        BY <3>2, <1>3, <1>12, <2>2, <2>3, <2>5, <2>6, TargetsAgree DEF SameParts
      <3>. QED  BY <3>1, <3>2, <2>4
    <2>. QED  BY <2>2, <2>7, <1>3, <1>12, <1>13, <1>14 DEF RowFits
  <1>16. CASE Networked(i.dialect) /\ i.url = NoUrl
    <2>1. {i.host, i.port, i.database} \cap {Absent, ""} = {}
      BY <1>16 DEF InputFits
    <2>2. m.url = NoUrl /\ ~ByUrl(i)
      BY <1>16, <1>3, NoUrlFits DEF ByUrl
    <2>3. new.host = i.host /\ new.port = i.port /\ new.database = i.database
      BY <2>1, <2>2, <1>11
    <2>4. Given(i.host) = i.host /\ Given(i.port) = i.port /\ Given(i.database) = i.database /\ Given(m.password) = m.password
      BY <2>1, <1>4, WordsAreGiven DEF Given
    <2>5. i.dialect # "sqlite" /\ i.dialect # "bigquery"
      BY <1>16 DEF Networked
    <2>6. Reaches(SpecFromConnection(new, SecretFrom(m))) = Reaches(SpecFromInput(m))
      BY <1>3, <1>12, <2>2, <2>3, <2>4, <2>5, TargetsAgree DEF SameParts
    <2>. QED  BY <2>2, <2>6, <1>3, <1>12, <1>13, <1>14 DEF RowFits
  <1>17. CASE Networked(i.dialect) /\ i.url # NoUrl
    <2>1. i.host = Absent /\ i.port = Absent /\ i.database = Absent
      BY <1>17 DEF InputFits
    <2>2. i.dialect # "sqlite" /\ i.dialect # "bigquery"
      BY <1>17 DEF Networked
    <2>3. m.url # NoUrl
      BY <2>1, <2>2, <1>3 DEF Usable, Given
    <2>4. Reaches(SpecFromConnection(new, SecretFrom(m))) = Reaches(SpecFromInput(m))
      BY <1>3, <1>12, <2>2, <2>3, UrlsAgree
    <2>5. RowFits(r, k) => new.host = "" /\ new.database = ""
      <3>1. ASSUME ~ByUrl(i), ~OtherDialect(r, i), RowFits(r, k) PROVE r.host = "" /\ r.database = ""
        <4>1. i.url = AbsentUrl /\ kept = k
          BY <1>17, <3>1 DEF ByUrl, OtherDialect, KeptBy
        <4>. QED  BY <1>3, <2>3, <3>1, <4>1 DEF RowFits
      <3>. QED  BY <2>1, <1>11, <3>1
    <2>. QED  BY <2>4, <2>5, <1>3, <1>12, <1>13, <1>14, <1>17 DEF RowFits
  <1>. QED  BY <1>15, <1>16, <1>17

\* Saving the form as the row filled it in changes nothing.
LEMMA UntouchedReaches ==
  ASSUME NEW r \in RowShapes, r # BlankRow, NEW k \in SecretShapes, NEW c \in StoredRows, SecretOf(k, c), RowFits(r, k), PortFits(r),
         NEW v \in FormShapes, Untouched(v, r, k), NEW i, Sends(i, v), InputFits(i), SecretOf(i, c),
         NEW m, Merges(m, i, k), Usable(m)
  PROVE  i.dialect = r.dialect /\ Reaches(SpecFromInput(m)) = Reaches(SpecFromConnection(r, k))
  <1>1. r \in [dialect: RowDialects, host: FormWords, port: FormWords, database: FormWords]
    BY DEF RowShapes
  <1> DEFINE f == FromConnection(r)
             urlOnly == r.dialect # "sqlite" /\ r.host = "" /\ r.database = ""
  <1>2. /\ f \in FormShapes /\ f.dialect = r.dialect /\ f.host = r.host /\ f.database = r.database /\ f.password = "" /\ f.url = NoUrl
        /\ f.port = IF r.port = "" THEN DefaultPort(r.dialect) ELSE r.port
        /\ f.mode = (IF urlOnly THEN "url" ELSE "fields") /\ f.hasStoredUrl = urlOnly
    BY ConnectionFormFits DEF FromConnection
  <1> HIDE DEF f
  <1>3. /\ v.dialect = r.dialect /\ v.host = r.host /\ v.database = r.database /\ v.port = f.port
        /\ v.password \in {"", k.password} /\ v.url \in {NoUrl, k.url}
        /\ v.mode = "url" <=> urlOnly \/ (v # f /\ k.url # NoUrl)
        /\ v.mode \in {"fields", "url"}
    <2>1. CASE v = f
      BY <2>1, <1>2
    <2>2. CASE v = WithSecret(f, k)
      BY <2>2, <1>2 DEF WithSecret, FormShapes, f
    <2>. QED  BY <2>1, <2>2 DEF f, Untouched
  <1> HIDE DEF urlOnly
  <1>4. /\ m.dialect = i.dialect /\ m.host = i.host /\ m.port = i.port /\ m.database = i.database
        /\ m.url = IF i.url = AbsentUrl THEN k.url ELSE i.url
        /\ m.password = IF i.password \notin {Absent, ""} THEN i.password ELSE k.password
        /\ m.password \in FormWords
    BY MergeFits DEF Merges
  <1>5. k.url \in FormUrls /\ k.password \in FormWords
    BY DEF SecretShapes
  <1>6. CASE r.dialect = "sqlite"
    <2>. v.dialect = "sqlite"
      BY <1>3, <1>6
    <2>0. ToConnectionInput(v) = Input(v, Absent, Absent, v.database, Absent, NoUrl)
      BY DEF ToConnectionInput, Networked
    <2>1. i.dialect = r.dialect /\ i.database = r.database /\ i.url = NoUrl
      <3>1. v.dialect = r.dialect /\ v.database = r.database
        BY <1>3
      <3>2. i = Input(v, Absent, Absent, v.database, Absent, NoUrl)
        BY <2>0 DEF Sends
      <3>3. i.dialect = v.dialect /\ i.database = v.database /\ i.url = NoUrl
        BY <3>2 DEF Input
      <3>. QED  BY <3>1, <3>3
    <2>2. k.url = NoUrl
      BY <1>6 DEF RowFits, Networked
    <2>3. m.url = NoUrl /\ Given(m.database) = r.database
      BY <2>1, <2>2, <1>1, <1>4, WordsAreGiven DEF Given
    <2>8. r.dialect = m.dialect
      BY <1>4, <2>1
    <2>81. SameParts(r, k, m)
      BY <2>8, <1>4, <1>6, <2>1, <2>2, <2>3 DEF SameParts
    <2>9. Reaches(SpecFromConnection(r, k)) = Reaches(SpecFromInput(m))
      BY <2>81, TargetsAgree
    <2>. QED  BY <2>8, <2>9, <1>4
  <1>7. ASSUME v.mode # "url" \/ ~Networked(r.dialect), r.dialect # "sqlite"
        PROVE  /\ i.dialect = r.dialect /\ i.host = r.host /\ i.database = r.database /\ i.url = NoUrl
               /\ Networked(r.dialect) => i.port = v.port
               /\ m.password = k.password
    <2>1. r.dialect = "bigquery" \/ Networked(r.dialect)
      BY <1>1, <1>7 DEF RowDialects, Networked
    <2>2. i.password = IF v.password # "" THEN v.password ELSE Absent
      BY <1>3, <1>7, <2>1 DEF ToConnectionInput, Input, Sends, Networked
    <2>3. m.password = k.password
      BY <2>2, <1>3, <1>4
    <2>. QED  BY <1>3, <1>7, <2>1, <2>3 DEF ToConnectionInput, Input, Sends, Networked
  <1>8. CASE r.dialect = "bigquery"
    <2>1. Given(m.database) = r.database /\ Given(m.host) = r.host /\ Given(m.password) = k.password
      BY <1>1, <1>4, <1>7, <1>8, WordsAreGiven DEF Given, Networked
    <2>8. r.dialect = m.dialect
      BY <1>4, <1>7, <1>8 DEF Networked
    <2>81. SameParts(r, k, m)
      BY <2>8, <1>4, <1>7, <1>8, <2>1 DEF SameParts, Networked
    <2>9. Reaches(SpecFromConnection(r, k)) = Reaches(SpecFromInput(m))
      BY <2>81, TargetsAgree
    <2>. QED  BY <2>8, <2>9, <1>4
  <1>9. CASE Networked(r.dialect) /\ v.mode = "fields"
    <2>1. r.dialect # "sqlite" /\ r.dialect # "bigquery"
      BY <1>9 DEF Networked
    <2>2. k.url = NoUrl
      BY <1>3, <1>9 DEF RowFits, urlOnly, Networked
    <2>3. i.port = r.port
      BY <1>2, <1>3, <1>7, <1>9, <2>1 DEF PortFits
    <2>4. Given(m.database) = r.database /\ Given(m.host) = r.host /\ Given(m.port) = r.port /\ Given(m.password) = k.password
      BY <1>1, <1>4, <1>7, <1>9, <2>1, <2>3, WordsAreGiven DEF Given
    <2>5. m.url = NoUrl
      BY <1>4, <1>7, <1>9, <2>1, NoUrlFits
    <2>8. r.dialect = m.dialect
      BY <1>4, <1>7, <1>9, <2>1
    <2>81. SameParts(r, k, m)
      BY <2>8, <1>4, <1>7, <1>9, <2>1, <2>2, <2>4, <2>5 DEF SameParts
    <2>9. Reaches(SpecFromConnection(r, k)) = Reaches(SpecFromInput(m))
      BY <2>81, TargetsAgree
    <2>. QED  BY <2>8, <2>9, <1>4
  <1>10. CASE Networked(r.dialect) /\ v.mode = "url"
    <2>1. r.dialect # "sqlite" /\ r.dialect # "bigquery"
      BY <1>10 DEF Networked
    <2>2. /\ i.dialect = r.dialect /\ i.host = Absent
          /\ i.url = IF v.url # NoUrl THEN v.url ELSE IF v.hasStoredUrl THEN AbsentUrl ELSE NoUrl
      BY <1>3, <1>10, <2>1 DEF ToConnectionInput, Input, Sends
    <2>3. m.url # NoUrl
      BY <1>4, <2>1, <2>2 DEF Usable, Given
    <2>4. m.url = k.url
      BY <1>3, <1>4, <2>2, <2>3
    <2>8. r.dialect = m.dialect
      BY <1>4, <2>2
    <2>9. Reaches(SpecFromConnection(r, k)) = Reaches(SpecFromInput(m))
      BY <2>8, <1>4, <2>1, <2>2, <2>3, <2>4, UrlsAgree
    <2>. QED  BY <2>8, <2>9, <1>4
  <1>. QED  BY <1>1, <1>3, <1>6, <1>8, <1>9, <1>10 DEF RowDialects, Networked

LEMMA FormStart == FormInit => FormInv
  <1> SUFFICES ASSUME FormInit PROVE FormInv
    OBVIOUS
  <1>1. PICK d \in [FormRows -> FormDialects], byUrl \in [FormRows -> BOOLEAN] :
          /\ \A c \in FormRows : byUrl[c] => Networked(d[c])
          /\ rows = [c \in FormRows \cup {NewRow} |-> IF c = NewRow THEN BlankRow ELSE StoredRow(c, d[c], byUrl[c])]
          /\ secrets = [c \in FormRows \cup {NewRow} |-> IF c = NewRow THEN NoSecret ELSE StoredSecret(c, d[c], byUrl[c])]
    BY DEF FormInit
  <1>2. ASSUME NEW c \in FormRows
        PROVE  LET r == StoredRow(c, d[c], byUrl[c])
                   k == StoredSecret(c, d[c], byUrl[c])
               IN r \in RowShapes /\ k \in SecretShapes /\ SecretOf(k, c) /\ RowFits(r, k) /\ PortFits(r)
    <2>1. d[c] \in RowDialects /\ byUrl[c] \in BOOLEAN /\ c \in FormWords /\ {"", "std", "own"} \subseteq FormWords
      BY FormAssumption DEF RowDialects, FormWords
    <2>2. CASE byUrl[c]
      <3>1. /\ StoredRow(c, d[c], byUrl[c]).dialect = d[c] /\ StoredRow(c, d[c], byUrl[c]).host = ""
            /\ StoredRow(c, d[c], byUrl[c]).database = "" /\ StoredRow(c, d[c], byUrl[c]).port = "std"
            /\ StoredRow(c, d[c], byUrl[c]) \in RowShapes
        BY <2>1, <2>2 DEF StoredRow, BlankRow, RowShapes
      <3>2. /\ StoredSecret(c, d[c], byUrl[c]).password = "" /\ StoredSecret(c, d[c], byUrl[c]).url = Url(d[c], c, "own", c, c)
            /\ StoredSecret(c, d[c], byUrl[c]) = [password |-> "", url |-> Url(d[c], c, "own", c, c)]
        BY <2>2 DEF StoredSecret, NoSecret
      <3>3. Url(d[c], c, "own", c, c) \in FormUrls /\ Url(d[c], c, "own", c, c).password = c
        BY <2>1 DEF Url, FormUrls
      <3>4. StoredSecret(c, d[c], byUrl[c]) \in SecretShapes
        BY <2>1, <3>2, <3>3 DEF SecretShapes
      <3>. QED  BY <1>1, <2>2, <3>1, <3>2, <3>3, <3>4 DEF SecretOf, RowFits, PortFits
    <2>3. CASE ~byUrl[c]
      <3>1. /\ StoredRow(c, d[c], byUrl[c]) \in RowShapes /\ PortFits(StoredRow(c, d[c], byUrl[c]))
        BY <2>1, <2>3 DEF StoredRow, RowShapes, PortFits
      <3>2. \E p \in {"", c} : StoredSecret(c, d[c], byUrl[c]) = [password |-> p, url |-> NoUrl]
        BY <2>3 DEF StoredSecret, NoSecret
      <3>3. StoredSecret(c, d[c], byUrl[c]) \in SecretShapes /\ StoredSecret(c, d[c], byUrl[c]).url = NoUrl
            /\ StoredSecret(c, d[c], byUrl[c]).password \in {"", c}
        <4>1. PICK p \in {"", c} : StoredSecret(c, d[c], byUrl[c]) = [password |-> p, url |-> NoUrl]
          BY <3>2
        <4>2. p \in FormWords
          BY <2>1
        <4> DEFINE x == [password |-> p, url |-> NoUrl]
        <4>3. x \in SecretShapes /\ x.url = NoUrl /\ x.password = p
          BY <4>2, NoUrlFits DEF SecretShapes
        <4>4. StoredSecret(c, d[c], byUrl[c]) = x
          BY <4>1
        <4> HIDE DEF x
        <4>. QED  BY <4>3, <4>4
      <3>. QED  BY <3>1, <3>3, NoUrlFits DEF SecretOf, RowFits
    <2>. QED  BY <2>1, <2>2, <2>3
  <1>3. BlankRow \in RowShapes /\ PortFits(BlankRow) /\ NoSecret \in SecretShapes /\ SecretOf(NoSecret, NewRow) /\ RowFits(BlankRow, NoSecret)
    <2>1. NoSecret.password = "" /\ NoSecret.url = NoUrl /\ NoSecret \in SecretShapes
      BY NoUrlFits DEF NoSecret, SecretShapes, FormWords
    <2>2. ~Networked("")
      BY DEF Networked
    <2>. QED  BY <2>1, <2>2, BlankIs, NoUrlFits DEF RowShapes, PortFits, RowFits, SecretOf
  <1>4. rows \in [StoredRows -> RowShapes] /\ secrets \in [StoredRows -> SecretShapes]
    BY <1>1, <1>2, <1>3 DEF StoredRows
  <1>5. \A c \in StoredRows : SecretOf(secrets[c], c) /\ PortFits(rows[c]) /\ RowFits(rows[c], secrets[c])
    BY <1>1, <1>2, <1>3 DEF StoredRows
  <1>6. StoreFits
    BY <1>4, <1>5 DEF StoreFits, FormInit
  <1>7. EmptyValues \in FormShapes
    BY NoUrlFits DEF EmptyValues, FormShapes, RowDialects, FormWords
  <1>8. DialogFits
    BY <1>7 DEF DialogFits, FormInit, StoredRows
  <1>9. SavesFit /\ SavedIsTested /\ UntouchedIsUnchanged
    BY DEF SavesFit, SavedIsTested, UntouchedIsUnchanged, FormInit, Unknown
  <1>. QED  BY <1>6, <1>8, <1>9 DEF FormInv

LEMMA FormRest == FormInv /\ UNCHANGED formVars => FormInv'
  BY DEF FormInv, formVars, StoreFits, DialogFits, SavesFit, SentFits, RowWrittenFits, ReachedAfter, SavedIsTested, UntouchedIsUnchanged

LEMMA StoreRests ==
  ASSUME FormInv, UNCHANGED <<rows, secrets, rowsShown, rowSaves, overlapped, lastSave>>, DialogFits'
  PROVE  FormInv'
  BY DEF FormInv, StoreFits, SavesFit, SentFits, RowWrittenFits, ReachedAfter, SavedIsTested, UntouchedIsUnchanged

LEMMA OpensFit == ASSUME FormInv, NEW c \in StoredRows, OpenDialog(c) PROVE FormInv'
  <1>1. /\ dialog'.open = TRUE /\ dialog'.row = c /\ dialog'.token = dialog.token + 1 /\ dialog'.loading = (c # NewRow)
        /\ dialog'.touched = FALSE /\ dialog'.seed.row = rowsShown[c] /\ dialog'.seed.secret = secrets[c]
        /\ dialog' = [open |-> dialog'.open, row |-> dialog'.row, token |-> dialog'.token, loading |-> dialog'.loading,
                      submitting |-> dialog'.submitting, touched |-> dialog'.touched, seed |-> dialog'.seed]
    BY DEF OpenDialog
  <1>2. rowsShown[c] \in RowShapes /\ secrets[c] \in SecretShapes /\ SecretOf(secrets[c], c)
    BY DEF FormInv, StoreFits
  <1>3. form' \in FormShapes /\ SecretOf(form', c) /\ (c # NewRow => form' = FromConnection(rowsShown[c]))
    <2>1. CASE c = NewRow
      <3>1. EmptyValues \in FormShapes /\ EmptyValues.password = "" /\ EmptyValues.url = NoUrl
        BY NoUrlFits DEF EmptyValues, FormShapes, RowDialects, FormWords
      <3>. QED  BY <2>1, <3>1, NoUrlFits DEF OpenDialog, SecretOf
    <2>2. CASE c # NewRow
      <3>1. form' = FromConnection(rowsShown[c]) /\ rowsShown[c] # BlankRow
        BY <2>2 DEF OpenDialog
      <3>. QED  BY <1>2, <3>1, ConnectionFormFits, NoUrlFits DEF SecretOf
    <2>. QED  BY <2>1, <2>2
  <1>4. dialog.token \in Nat /\ \A a \in credentialCalls : a.token \in Nat /\ a.token <= dialog.token
    BY DEF FormInv, DialogFits
  <1>5. ASSUME NEW a \in credentialCalls'
        PROVE  /\ a.token \in Nat /\ a.token <= dialog'.token
               /\ a.token = dialog'.token => c # NewRow /\ a.secret = secrets[c]
    <2>1. a \in credentialCalls \/ (c # NewRow /\ a = [token |-> dialog.token + 1, secret |-> secrets[c]])
      BY DEF OpenDialog
    <2>2. CASE a \in credentialCalls
      BY <1>1, <1>4, <2>2
    <2>3. CASE c # NewRow /\ a = [token |-> dialog.token + 1, secret |-> secrets[c]]
      BY <1>1, <1>4, <2>3
    <2>. QED  BY <2>1, <2>2, <2>3
  <1>6. dialog'.open \in BOOLEAN /\ dialog'.loading \in BOOLEAN /\ dialog'.token \in Nat /\ dialog'.touched \in BOOLEAN
    BY <1>4 DEF OpenDialog
  <1>7. (dialog.row # NewRow => Untouched(form, dialog.seed.row, dialog.seed.secret))'
    BY <1>1, <1>3 DEF Untouched
  <1>8. DialogFits'
    BY <1>1, <1>2, <1>3, <1>5, <1>6, <1>7 DEF DialogFits
  <1>. QED  BY <1>8, StoreRests DEF OpenDialog

LEMMA ClosesFit == ASSUME FormInv, CloseDialog PROVE FormInv'
  <1>1. /\ dialog'.open = FALSE /\ dialog'.row = dialog.row /\ dialog'.token = dialog.token + 1 /\ dialog'.loading = dialog.loading
        /\ dialog'.touched = dialog.touched
        /\ dialog' = [open |-> dialog'.open, row |-> dialog'.row, token |-> dialog'.token, loading |-> dialog'.loading,
                      submitting |-> dialog'.submitting, touched |-> dialog'.touched, seed |-> dialog'.seed]
    BY DEF CloseDialog, FormInv, DialogFits
  <1>2. DialogFits'
    BY <1>1 DEF CloseDialog, FormInv, DialogFits
  <1>. QED  BY <1>2, StoreRests DEF CloseDialog

LEMMA ArrivalsFit == ASSUME FormInv, NEW a \in credentialCalls, CredentialsArrive(a) PROVE FormInv'
  <1>1. credentialCalls' = credentialCalls \ {a}
    BY DEF CredentialsArrive
  <1>2. CASE a.token # dialog.token
    <2>1. UNCHANGED <<form, dialog>>
      BY <1>2 DEF CredentialsArrive
    <2>2. DialogFits'
      BY <1>1, <2>1 DEF FormInv, DialogFits
    <2>. QED  BY <2>2, StoreRests DEF CredentialsArrive
  <1>3. CASE a.token = dialog.token
    <2>1. dialog.open /\ dialog.row # NewRow /\ a.secret = dialog.seed.secret /\ form \in FormShapes /\ dialog.seed.secret \in SecretShapes
          /\ SecretOf(dialog.seed.secret, dialog.row)
      BY <1>3 DEF FormInv, DialogFits
    <2>2. form' = WithSecret(form, dialog.seed.secret)
      BY <1>3, <2>1 DEF CredentialsArrive, WithSecret
    <2>3. form' \in FormShapes /\ SecretOf(form', dialog.row)
      BY <2>1, <2>2, WithSecretFits DEF SecretOf
    <2>4. ~dialog.touched => Untouched(form', dialog.seed.row, dialog.seed.secret)
      <3> SUFFICES ASSUME ~dialog.touched PROVE Untouched(form', dialog.seed.row, dialog.seed.secret)
        OBVIOUS
      <3>1. Untouched(form, dialog.seed.row, dialog.seed.secret) /\ dialog.seed.row \in RowShapes
        BY <2>1 DEF FormInv, DialogFits
      <3>2. CASE form = FromConnection(dialog.seed.row)
        BY <2>2, <3>2 DEF Untouched
      <3>3. CASE form = WithSecret(FromConnection(dialog.seed.row), dialog.seed.secret)
        <4>1. form' = form
          BY <2>1, <2>2, <3>3 DEF WithSecret, FormShapes
        <4>. QED  BY <3>1, <4>1
      <3>. QED  BY <3>1, <3>2, <3>3 DEF Untouched
    <2>5. /\ dialog'.open = dialog.open /\ dialog'.row = dialog.row /\ dialog'.token = dialog.token /\ dialog'.loading = FALSE
          /\ dialog'.touched = dialog.touched /\ dialog'.seed = dialog.seed
          /\ dialog' = [open |-> dialog'.open, row |-> dialog'.row, token |-> dialog'.token, loading |-> dialog'.loading,
                        submitting |-> dialog'.submitting, touched |-> dialog'.touched, seed |-> dialog'.seed]
      BY <1>3 DEF CredentialsArrive, FormInv, DialogFits
    <2>6. DialogFits'
      BY <1>1, <2>1, <2>3, <2>4, <2>5 DEF FormInv, DialogFits
    <2>. QED  BY <2>6, StoreRests DEF CredentialsArrive
  <1>. QED  BY <1>2, <1>3

LEMMA FailuresFit == ASSUME FormInv, NEW a \in credentialCalls, CredentialsFail(a) PROVE FormInv'
  <1>1. /\ dialog'.open = dialog.open /\ dialog'.row = dialog.row /\ dialog'.token = dialog.token /\ dialog'.loading \in BOOLEAN
        /\ dialog'.touched = dialog.touched /\ dialog'.seed = dialog.seed
        /\ dialog' = [open |-> dialog'.open, row |-> dialog'.row, token |-> dialog'.token, loading |-> dialog'.loading,
                      submitting |-> dialog'.submitting, touched |-> dialog'.touched, seed |-> dialog'.seed]
    BY DEF CredentialsFail, FormInv, DialogFits
  <1>2. DialogFits'
    BY <1>1 DEF CredentialsFail, FormInv, DialogFits
  <1>. QED  BY <1>2, StoreRests DEF CredentialsFail

LEMMA EditFits == ASSUME FormInv, NEW v \in FormShapes, SecretOf(v, dialog.row), Edit(v) PROVE FormInv'
  <1>1. /\ dialog'.open = dialog.open /\ dialog'.row = dialog.row /\ dialog'.token = dialog.token /\ dialog'.loading = dialog.loading
        /\ dialog'.touched = TRUE /\ dialog'.seed = dialog.seed
        /\ dialog' = [open |-> dialog'.open, row |-> dialog'.row, token |-> dialog'.token, loading |-> dialog'.loading,
                      submitting |-> dialog'.submitting, touched |-> dialog'.touched, seed |-> dialog'.seed]
    BY DEF Edit, FormInv, DialogFits
  <1>2. DialogFits'
    BY <1>1 DEF Edit, FormInv, DialogFits
  <1>. QED  BY <1>2, StoreRests DEF Edit

LEMMA TypingFits ==
  ASSUME FormInv, (\E d \in FormDialects : PickDialect(d)) \/ SwitchMode \/ TypeUrl \/ TypePassword \/ TypeFields
  PROVE  FormInv'
  <1>1. dialog.open
    BY DEF PickDialect, SwitchMode, TypeUrl, TypePassword, TypeFields, Edit
  <1>2. form \in FormShapes /\ dialog.row \in StoredRows /\ SecretOf(form, dialog.row)
    BY <1>1 DEF FormInv, DialogFits
  <1>3. ASSUME NEW d \in FormDialects, PickDialect(d) PROVE FormInv'
    BY <1>2, <1>3, EditsFit, EditFits DEF PickDialect
  <1>4. CASE SwitchMode
    <2>1. CASE form.mode = "url"
      BY <1>2, <1>4, <2>1, EditsFit, EditFits DEF SwitchMode
    <2>2. CASE form.mode # "url"
      BY <1>2, <1>4, <2>2, EditsFit, EditFits DEF SwitchMode
    <2>. QED  BY <2>1, <2>2
  <1>5. CASE TypeUrl
    <2>1. PICK u \in {NoUrl, Url(form.dialect, "typed", "own", "typed", "")} : Edit([form EXCEPT !.url = u])
      BY <1>5 DEF TypeUrl
    <2>2. u \in FormUrls /\ u.password = ""
      <3>1. Url(form.dialect, "typed", "own", "typed", "") \in FormUrls /\ Url(form.dialect, "typed", "own", "typed", "").password = ""
        BY <1>2 DEF Url, FormUrls, FormShapes, FormWords
      <3>. QED  BY <3>1, NoUrlFits
    <2>3. [form EXCEPT !.url = u] \in FormShapes /\ SecretOf([form EXCEPT !.url = u], dialog.row)
      BY <1>2, <2>2 DEF FormShapes, SecretOf
    <2>. QED  BY <2>1, <2>3, EditFits
  <1>6. CASE TypePassword
    <2>1. PICK p \in {"", "typed"} : Edit([form EXCEPT !.password = p])
      BY <1>6 DEF TypePassword
    <2>2. [form EXCEPT !.password = p] \in FormShapes /\ SecretOf([form EXCEPT !.password = p], dialog.row)
      BY <1>2, <2>1 DEF FormShapes, SecretOf, FormWords
    <2>. QED  BY <2>1, <2>2, EditFits
  <1>7. CASE TypeFields
    <2>1. Edit([form EXCEPT !.database = "typed"])
      BY <1>7 DEF TypeFields
    <2>2. [form EXCEPT !.database = "typed"] \in FormShapes /\ SecretOf([form EXCEPT !.database = "typed"], dialog.row)
      BY <1>2 DEF FormShapes, SecretOf, FormWords
    <2>. QED  BY <2>1, <2>2, EditFits
  <1>. QED  BY <1>3, <1>4, <1>5, <1>6, <1>7

LEMMA SubmitsFit == ASSUME FormInv, SubmitForm PROVE FormInv'
  <1>0. PICK s : s = [row |-> dialog.row, input |-> ToConnectionInput(form), step |-> "sent", call |-> formOps.saves,
                      history |-> Unknown, untouched |-> ~dialog.touched, seed |-> dialog.seed]
    OBVIOUS
  <1>1. rowSaves' = rowSaves \cup {s}
    BY <1>0 DEF SubmitForm
  <1>2. /\ s.row = dialog.row /\ s.input = ToConnectionInput(form) /\ s.step = "sent" /\ s.untouched = ~dialog.touched
        /\ s.seed = dialog.seed /\ SaveShape(s)
    BY <1>0 DEF SaveShape, FormInv, DialogFits
  <1>3. dialog.open /\ Validates(form) /\ UNCHANGED <<rows, secrets, rowsShown, form, credentialCalls, lastSave, overlapped>>
        /\ (dialog.row = NewRow => rows[NewRow] = BlankRow /\ \A t \in rowSaves : t.row # NewRow)
    BY DEF SubmitForm
  <1>4. form \in FormShapes /\ dialog.row \in StoredRows /\ SecretOf(form, dialog.row)
    BY <1>3 DEF FormInv, DialogFits
  <1>5. InputFits(s.input) /\ SecretOf(s.input, s.row)
    BY <1>2, <1>3, <1>4, InputOfFits
  <1>6. s.untouched /\ s.row # NewRow => \E v \in FormShapes : Untouched(v, s.seed.row, s.seed.secret) /\ s.input = ToConnectionInput(v)
    BY <1>2, <1>3, <1>4 DEF FormInv, DialogFits
  <1>7. SentFits(s)'
    BY <1>1, <1>2, <1>3, <1>5, <1>6 DEF SentFits
  <1>8. ASSUME NEW t \in rowSaves PROVE SaveShape(t) /\ (t.step = "sent" => SentFits(t)') /\ (t.step = "row" => RowWrittenFits(t)')
    <2>1. SaveShape(t) /\ (t.step = "sent" => SentFits(t)) /\ (t.step = "row" => RowWrittenFits(t))
      BY DEF FormInv, SavesFit
    <2>2. ASSUME t.step = "sent" PROVE SentFits(t)'
      BY <1>1, <1>2, <1>3, <2>1, <2>2 DEF SentFits
    <2>3. ASSUME t.step = "row" PROVE RowWrittenFits(t)'
      BY <1>1, <1>2, <1>3, <2>1, <2>3 DEF RowWrittenFits, ReachedAfter
    <2>. QED  BY <2>1, <2>2, <2>3
  <1>9. SavesFit'
    BY <1>1, <1>2, <1>7, <1>8 DEF SavesFit, SaveShape
  <1>10. StoreFits'
    BY <1>1, <1>2, <1>3 DEF FormInv, StoreFits
  <1>11. /\ dialog'.open = dialog.open /\ dialog'.row = dialog.row /\ dialog'.token = dialog.token /\ dialog'.loading = dialog.loading
         /\ dialog'.touched = dialog.touched /\ dialog'.seed = dialog.seed
         /\ dialog' = [open |-> dialog'.open, row |-> dialog'.row, token |-> dialog'.token, loading |-> dialog'.loading,
                       submitting |-> dialog'.submitting, touched |-> dialog'.touched, seed |-> dialog'.seed]
    BY DEF SubmitForm, FormInv, DialogFits
  <1>12. DialogFits'
    BY <1>3, <1>11 DEF FormInv, DialogFits
  <1>13. SavedIsTested' /\ UntouchedIsUnchanged'
    BY <1>3 DEF FormInv, SavedIsTested, UntouchedIsUnchanged
  <1>. QED  BY <1>9, <1>10, <1>12, <1>13 DEF FormInv

\* A save that ends, in one way or the other.
SaveLeaves(s, D) ==
  /\ s.step # "row" /\ rowSaves' = (rowSaves \ {s}) \cup D
  /\ \A d \in D : SaveShape(d) /\ d.step \notin {"sent", "row"} /\ d.row = s.row

LEMMA SaveEnds ==
  ASSUME FormInv, NEW s \in rowSaves, NEW D, SaveLeaves(s, D),
         UNCHANGED <<rows, secrets, overlapped, lastSave>>, DialogFits', rowsShown' \in {rows, rowsShown}
  PROVE  FormInv'
  <1>1. StoreFits'
    <2>1. ASSUME NEW t \in rowSaves, t.step = "row" PROVE t \in rowSaves'
      BY <2>1 DEF SaveLeaves
    <2>. QED  BY <2>1 DEF FormInv, StoreFits
  <1>2. ASSUME NEW t \in rowSaves PROVE SaveShape(t) /\ (t.step = "sent" /\ t # s => SentFits(t)') /\ (t.step = "row" => RowWrittenFits(t)')
    <2>1. SaveShape(t) /\ (t.step = "sent" => SentFits(t)) /\ (t.step = "row" => RowWrittenFits(t))
      BY DEF FormInv, SavesFit
    <2>2. ASSUME t.step = "sent", t # s PROVE SentFits(t)'
      BY <2>1, <2>2 DEF SentFits, SaveLeaves
    <2>3. ASSUME t.step = "row" PROVE RowWrittenFits(t)'
      BY <2>1, <2>3 DEF RowWrittenFits, ReachedAfter, SaveLeaves
    <2>. QED  BY <2>1, <2>2, <2>3
  <1>3. SavesFit'
    BY <1>2 DEF SavesFit, SaveShape, SaveLeaves
  <1>4. SavedIsTested' /\ UntouchedIsUnchanged'
    BY DEF FormInv, SavedIsTested, UntouchedIsUnchanged
  <1>. QED  BY <1>1, <1>3, <1>4 DEF FormInv

LEMMA EndsFit == ASSUME FormInv, NEW s \in rowSaves, SaveAnswered(s) \/ SaveFailed(s) PROVE FormInv'
  <1>1. dialog.token \in Nat /\ dialog.open \in BOOLEAN
        /\ dialog = [open |-> dialog.open, row |-> dialog.row, token |-> dialog.token, loading |-> dialog.loading,
                     submitting |-> dialog.submitting, touched |-> dialog.touched, seed |-> dialog.seed]
    BY DEF FormInv, DialogFits
  <1>2. DialogFits' /\ SaveLeaves(s, {}) /\ UNCHANGED <<rows, secrets, overlapped, lastSave>> /\ rowsShown' \in {rows, rowsShown}
    <2>1. CASE SaveAnswered(s)
      <3>1. dialog' = [open |-> FALSE, row |-> dialog.row, token |-> dialog.token + 1, loading |-> dialog.loading,
                       submitting |-> FALSE, touched |-> dialog.touched, seed |-> dialog.seed]
        BY <1>1, <2>1 DEF SaveAnswered
      <3>2. /\ dialog'.open = FALSE /\ dialog'.row = dialog.row /\ dialog'.token = dialog.token + 1 /\ dialog'.loading = dialog.loading
            /\ dialog'.touched = dialog.touched
            /\ dialog' = [open |-> dialog'.open, row |-> dialog'.row, token |-> dialog'.token, loading |-> dialog'.loading,
                          submitting |-> dialog'.submitting, touched |-> dialog'.touched, seed |-> dialog'.seed]
        BY <3>1
      <3>3. DialogFits'
        BY <2>1, <3>2 DEF SaveAnswered, FormInv, DialogFits
      <3>. QED  BY <2>1, <3>3 DEF SaveAnswered, SaveLeaves
    <2>2. CASE SaveFailed(s)
      <3>1. dialog' = [open |-> dialog.open, row |-> dialog.row, token |-> dialog.token, loading |-> dialog.loading,
                       submitting |-> FALSE, touched |-> dialog.touched, seed |-> dialog.seed]
        BY <1>1, <2>2 DEF SaveFailed
      <3>2. DialogFits'
        BY <2>2, <3>1 DEF SaveFailed, FormInv, DialogFits
      <3>. QED  BY <2>2, <3>2 DEF SaveFailed, SaveLeaves
    <2>. QED  BY <2>1, <2>2
  <1>. QED  BY <1>2, SaveEnds

LEMMA SecretsFit == ASSUME FormInv, NEW s \in rowSaves, SaveSecret(s) PROVE FormInv'
  <1> DEFINE c == s.row
             k == SecretFrom(s.input)
             d == [s EXCEPT !.step = "done"]
  <1>1. /\ s.step = "row" /\ secrets' = [secrets EXCEPT ![c] = k] /\ rowSaves' = (rowSaves \ {s}) \cup {d}
        /\ UNCHANGED <<rows, rowsShown, dialog, form, credentialCalls, overlapped>>
        /\ lastSave' = [known |-> TRUE, alone |-> c \notin overlapped, unmoved |-> s.history.unmoved, tested |-> s.history.tested,
                        before |-> s.history.before, after |-> ReachedAfter(s)]
    BY DEF SaveSecret, ReachedAfter
  <1>2. SaveShape(s) /\ RowWrittenFits(s)
    BY <1>1 DEF FormInv, SavesFit
  <1>3. SaveShape(d) /\ d.step = "done" /\ d.row = c
    BY <1>2 DEF SaveShape
  <1>4. c \in StoredRows /\ k \in SecretShapes /\ SecretOf(k, c)
    BY <1>2 DEF SaveShape, RowWrittenFits
  <1>5. c \notin overlapped => RowFits(rows[c], k) /\ ReachedAfter(s) = s.history.tested
                               /\ (s.history.unmoved => s.history.tested = s.history.before)
                               /\ \A t \in rowSaves : t.step = "row" /\ t.row = c => t = s
    BY <1>2 DEF RowWrittenFits
  <1> HIDE DEF c, k, d
  <1>6. secrets' \in [StoredRows -> SecretShapes] /\ secrets'[c] = k /\ \A x \in StoredRows : x # c => secrets'[x] = secrets[x]
    BY <1>1, <1>4 DEF FormInv, StoreFits
  <1>7. StoreFits'
    <2>1. ASSUME NEW x \in StoredRows \ overlapped, \A t \in rowSaves' : t.step = "row" => t.row # x PROVE RowFits(rows[x], secrets'[x])
      <3>1. CASE x = c
        BY <1>5, <1>6, <2>1, <3>1
      <3>2. CASE x # c
        <4>1. \A t \in rowSaves : t.step = "row" => t.row # x
          BY <1>1, <1>3, <2>1, <3>2 DEF c
        <4>. QED  BY <1>6, <2>1, <3>2, <4>1 DEF FormInv, StoreFits
      <3>. QED  BY <3>1, <3>2
    <2>. QED  BY <1>1, <1>4, <1>6, <2>1 DEF FormInv, StoreFits
  <1>8. ASSUME NEW t \in rowSaves PROVE SaveShape(t) /\ (t.step = "sent" => SentFits(t)') /\ (t.step = "row" => RowWrittenFits(t)')
    <2>1. SaveShape(t) /\ (t.step = "sent" => SentFits(t)) /\ (t.step = "row" => RowWrittenFits(t))
      BY DEF FormInv, SavesFit
    <2>2. ASSUME t.step = "sent" PROVE SentFits(t)'
      BY <1>1, <1>3, <2>1, <2>2 DEF SentFits, c
    <2>3. ASSUME t.step = "row" PROVE RowWrittenFits(t)'
      BY <1>1, <1>3, <2>1, <2>3 DEF RowWrittenFits, ReachedAfter
    <2>. QED  BY <2>1, <2>2, <2>3
  <1>9. SavesFit'
    BY <1>1, <1>3, <1>8 DEF SavesFit, SaveShape
  <1>10. DialogFits'
    BY <1>1 DEF FormInv, DialogFits
  <1>11. lastSave'.alone = (c \notin overlapped) /\ lastSave'.after = ReachedAfter(s) /\ lastSave'.tested = s.history.tested
         /\ lastSave'.unmoved = s.history.unmoved /\ lastSave'.before = s.history.before
    BY <1>1
  <1>12. SavedIsTested' /\ UntouchedIsUnchanged'
    BY <1>5, <1>11 DEF SavedIsTested, UntouchedIsUnchanged
  <1>. QED  BY <1>7, <1>9, <1>10, <1>12 DEF FormInv

LEMMA RowsFit == ASSUME FormInv, NEW s \in rowSaves, SaveRow(s) PROVE FormInv'
  <1> DEFINE c == s.row
             i == s.input
             r == rows[c]
             kept == KeptSecret(c, i)
             m == MergeSecret(i, kept)
             fresh == r = BlankRow
             unmoved == s.untouched /\ ~fresh /\ s.seed.row = r /\ s.seed.secret = secrets[c]
             new == IF fresh THEN NewRowOf(i) ELSE UpdatedRow(r, i)
             before == Reaches(SpecFromConnection(r, secrets[c]))
             tested == Reaches(SpecFromInput(m))
             d == [s EXCEPT !.step = "row", !.input = m, !.history = [tested |-> tested, unmoved |-> unmoved, before |-> before]]
             f == [s EXCEPT !.step = "failed"]
             across == {t.row : t \in {u \in rowSaves : u.row = c /\ u.step = "row"}}
  <1>1. s.step = "sent" /\ SaveShape(s) /\ SentFits(s)
    BY DEF SaveRow, FormInv, SavesFit
  <1>2. UNCHANGED <<secrets, rowsShown, dialog, form, credentialCalls, lastSave>>
    BY DEF SaveRow
  <1>3. DialogFits'
    BY <1>2 DEF FormInv, DialogFits
  <1>4. c \in StoredRows /\ s.untouched \in BOOLEAN
    BY <1>1 DEF SaveShape
  <1>5. CASE ~Usable(m)
    <2>1. rowSaves' = (rowSaves \ {s}) \cup {f} /\ UNCHANGED <<rows, overlapped>>
      BY <1>5 DEF SaveRow
    <2>2. SaveShape(f) /\ f.step = "failed" /\ f.row = c
      BY <1>1 DEF SaveShape
    <2> HIDE DEF f, m, c
    <2>3. SaveLeaves(s, {f})
      BY <1>1, <2>1, <2>2 DEF SaveLeaves, c
    <2>. QED  BY <1>2, <1>3, <2>1, <2>3, SaveEnds
  <1>6. CASE Usable(m)
    <2>0. PICK e : e = d
      OBVIOUS
    <2>1. rowSaves' = (rowSaves \ {s}) \cup {e} /\ rows' = [rows EXCEPT ![c] = new] /\ overlapped' = overlapped \cup across
      BY <1>6, <2>0 DEF SaveRow, Tested
    <2>2. /\ SaveShape(e) /\ e.step = "row" /\ e.row = c /\ e.input = m
          /\ e.history.tested = tested /\ e.history.unmoved = unmoved /\ e.history.before = before
      <3> DEFINE h == [tested |-> tested, unmoved |-> unmoved, before |-> before]
      <3>1. h.tested = tested /\ h.unmoved = unmoved /\ h.before = before
        OBVIOUS
      <3> HIDE DEF h, m, tested, unmoved, before
      <3>2. SaveShape(e) /\ e.step = "row" /\ e.row = c /\ e.input = m /\ e.history = h
        BY <1>1, <2>0 DEF SaveShape, h
      <3>. QED  BY <3>1, <3>2
    <2>3. r \in RowShapes /\ PortFits(r) /\ secrets[c] \in SecretShapes /\ SecretOf(secrets[c], c)
      BY <1>4 DEF FormInv, StoreFits
    <2>4. InputFits(i) /\ SecretOf(i, c)
      BY <1>1 DEF SentFits
    <2>5. KeptBy(kept, r, secrets[c], i) /\ Merges(m, i, kept) /\ Replaces(new, r, i)
      BY DEF KeptBy, Merges, Replaces, KeptSecret
    <2>6. unmoved => /\ r # BlankRow /\ c # NewRow
                     /\ \E v \in FormShapes : Untouched(v, r, secrets[c]) /\ Sends(i, v)
      BY <1>1 DEF SentFits, Sends
    <2>7. across \subseteq {c} /\ (c \notin across => \A t \in rowSaves : t.step = "row" => t.row # c)
      OBVIOUS
    <2>8. unmoved \in BOOLEAN
      BY <1>4
    <2> HIDE DEF d, new, m, kept, unmoved, before, tested, across
    <2>9. /\ new \in RowShapes /\ new.dialect = i.dialect /\ PortFits(new)
          /\ RowFits(r, secrets[c]) => RowFits(new, SecretFrom(m))
          /\ Reaches(SpecFromConnection(new, SecretFrom(m))) = Reaches(SpecFromInput(m))
          /\ SecretFrom(m) \in SecretShapes /\ SecretOf(SecretFrom(m), c)
      <3> HIDE DEF c, i, r
      <3>. QED  BY <1>4, <1>6, <2>3, <2>4, <2>5, SavedReaches
    <2>10. rows' \in [StoredRows -> RowShapes] /\ rows'[c] = new /\ \A x \in StoredRows : x # c => rows'[x] = rows[x]
      BY <1>4, <2>1, <2>9 DEF FormInv, StoreFits
    <2>11. ASSUME c \notin overlapped' PROVE RowFits(r, secrets[c]) /\ \A t \in rowSaves : t.step = "row" => t.row # c
      <3>1. c \notin overlapped /\ \A t \in rowSaves : t.step = "row" => t.row # c
        BY <2>1, <2>7, <2>11
      <3>. QED  BY <1>4, <3>1 DEF FormInv, StoreFits
    <2>12. ASSUME RowFits(r, secrets[c]), unmoved PROVE tested = before
      <3> HIDE DEF c, i, r
      <3>1. PICK v \in FormShapes : Untouched(v, r, secrets[c]) /\ Sends(i, v)
        BY <2>6, <2>12
      <3>2. i.dialect = r.dialect => kept = secrets[c]
        BY <2>5 DEF KeptBy
      <3>3. i.dialect = v.dialect /\ v.dialect = r.dialect
        <4>1. i.dialect = v.dialect
          <5>1. \E h, p, b, w, u : ToConnectionInput(v) = Input(v, h, p, b, w, u)
            BY <3>1 DEF ToConnectionInput, Networked, FormShapes, RowDialects
          <5>. QED  BY <3>1, <5>1 DEF Sends, Input
        <4>2. FromConnection(r).dialect = r.dialect /\ FromConnection(r) \in FormShapes
          BY <2>3, <2>6, <2>12, ConnectionFormFits DEF FromConnection
        <4>3. WithSecret(FromConnection(r), secrets[c]).dialect = r.dialect
          BY <4>2 DEF WithSecret, FormShapes
        <4>. QED  BY <3>1, <4>1, <4>2, <4>3 DEF Untouched
      <3>4. Merges(m, i, secrets[c])
        BY <2>5, <3>2, <3>3
      <3>5. Reaches(SpecFromInput(m)) = Reaches(SpecFromConnection(r, secrets[c]))
        BY <1>4, <1>6, <2>3, <2>4, <2>6, <2>12, <3>1, <3>4, UntouchedReaches
      <3>. QED  BY <3>5 DEF tested, before
    <2>13. RowWrittenFits(e)'
      <3>1. ReachedAfter(e)' = Reaches(SpecFromConnection(new, SecretFrom(m)))
        BY <2>2, <2>10 DEF ReachedAfter
      <3>2. c \notin overlapped' => RowFits(new, SecretFrom(m)) /\ ReachedAfter(e)' = tested /\ (unmoved => tested = before)
                                    /\ \A t \in rowSaves' : t.step = "row" /\ t.row = c => t = e
        BY <2>1, <2>9, <2>11, <2>12, <3>1 DEF tested
      <3>. QED  BY <2>2, <2>8, <2>9, <2>10, <3>2 DEF RowWrittenFits
    <2>14. ASSUME NEW t \in rowSaves, t # s PROVE SaveShape(t) /\ (t.step = "sent" => SentFits(t)') /\ (t.step = "row" => RowWrittenFits(t)')
      <3>1. SaveShape(t) /\ (t.step = "sent" => SentFits(t)) /\ (t.step = "row" => RowWrittenFits(t)) /\ t.row \in StoredRows
        BY DEF FormInv, SavesFit, SaveShape
      <3>2. ASSUME t.step = "sent" PROVE SentFits(t)'
        <4>1. ASSUME t.row = NewRow PROVE c # NewRow
          BY <2>14, <3>1, <3>2, <4>1, <1>1 DEF SentFits
        <4>2. ASSUME t.row = NewRow PROVE rows'[NewRow] = BlankRow /\ \A x \in rowSaves' : x.row = NewRow => x = t
          BY <2>1, <2>2, <2>10, <3>1, <3>2, <4>1, <4>2 DEF SentFits, StoredRows
        <4>. QED  BY <3>1, <3>2, <4>2 DEF SentFits
      <3>3. ASSUME t.step = "row" PROVE RowWrittenFits(t)'
        <4>1. CASE t.row = c
          <5>1. c \in overlapped'
            BY <2>11, <3>3, <4>1
          <5>. QED  BY <3>1, <3>3, <4>1, <5>1 DEF RowWrittenFits
        <4>2. CASE t.row # c
          BY <2>1, <2>2, <2>7, <2>10, <3>1, <3>3, <4>2 DEF RowWrittenFits, ReachedAfter
        <4>. QED  BY <4>1, <4>2
      <3>. QED  BY <3>1, <3>2, <3>3
    <2>15. SavesFit'
      BY <2>1, <2>2, <2>13, <2>14 DEF SavesFit, SaveShape
    <2>16. StoreFits'
      <3>1. ASSUME NEW x \in StoredRows \ overlapped', \A t \in rowSaves' : t.step = "row" => t.row # x PROVE RowFits(rows'[x], secrets[x])
        <4>1. x # c
          BY <2>1, <2>2, <3>1
        <4>2. \A t \in rowSaves : t.step = "row" => t.row # x
          BY <1>1, <2>1, <3>1
        <4>. QED  BY <2>1, <2>10, <3>1, <4>1, <4>2 DEF FormInv, StoreFits
      <3>2. \A x \in StoredRows : PortFits(rows'[x])
        BY <2>9, <2>10 DEF FormInv, StoreFits
      <3>. QED  BY <1>2, <2>10, <3>1, <3>2 DEF FormInv, StoreFits
    <2>17. SavedIsTested' /\ UntouchedIsUnchanged'
      BY <1>2 DEF FormInv, SavedIsTested, UntouchedIsUnchanged
    <2>. QED  BY <1>3, <2>15, <2>16, <2>17 DEF FormInv
  <1>. QED  BY <1>5, <1>6

LEMMA FormStep == FormInv /\ FormNext => FormInv'
  <1> SUFFICES ASSUME FormInv, FormNext PROVE FormInv'
    OBVIOUS
  <1>. QED  BY OpensFit, ClosesFit, ArrivalsFit, FailuresFit, TypingFits, SubmitsFit, RowsFit, SecretsFit, EndsFit DEF FormNext, StoredRows

LEMMA FormKeeps == FormInv => RowsKeepTheirSecrets /\ SavedIsTested /\ UntouchedIsUnchanged
  <1> SUFFICES ASSUME FormInv PROVE RowsKeepTheirSecrets
    BY DEF FormInv
  <1>1. ASSUME NEW k \in SecretShapes, NEW c, SecretOf(k, c) PROVE SecretWords(k) \subseteq {c, "typed"}
    BY <1>1, WordsAreGiven DEF SecretOf, SecretWords, SecretShapes, FormUrls
  <1>2. \A c \in DOMAIN secrets : SecretWords(secrets[c]) \subseteq {c, "typed"}
    BY <1>1 DEF FormInv, StoreFits
  <1>3. dialog.open => SecretWords([password |-> form.password, url |-> form.url]) \subseteq {dialog.row, "typed"}
    BY WordsAreGiven DEF FormInv, DialogFits, SecretOf, SecretWords, FormShapes, FormUrls
  <1>. QED  BY <1>2, <1>3 DEF RowsKeepTheirSecrets

-----------------------------------------------------------------------------
(* SqlEditor                                                               *)

Texts == 0..texts
Places == Texts \cup {NoText}
RunShapes == [id: Nat, kind: {"read", "write", "hidden"}, readOnly: BOOLEAN, confirmed: BOOLEAN, open: BOOLEAN]

RunTypes ==
  /\ prod \in BOOLEAN /\ confirmDml \in BOOLEAN /\ readOnly \in BOOLEAN
  /\ runs \in Seq(RunShapes)

EditorTypes ==
  /\ raced \in BOOLEAN
  /\ texts \in 1..MaxText /\ lastTyped \in (2..texts) \cup {NoText}
  /\ query \in QueryIds \cup {NoQuery} /\ code \in Texts
  /\ drafts \in [QueryIds -> Places]
  /\ saved \in [SavedIds -> Places] /\ list \in [SavedIds -> Places]

\* A query that has been opened or saved exists, and only such a query has a draft.
SaveFits(s) ==
  /\ s = [query |-> s.query, text |-> s.text] /\ s.query \in QueryIds /\ s.text \in Texts
  /\ s.query \in SavedIds => saved[s.query] # NoText
OnlyOfSaved ==
  /\ query \in SavedIds => saved[query] # NoText
  /\ \A i \in SavedIds : drafts[i] # NoText => saved[i] # NoText
  /\ \A s \in saves : SaveFits(s)

\* The buffer follows the draft, and no saved text comes over one.
BufferFollows ==
  ~raced =>
    /\ query \in SavedIds /\ loadedFor = "nothing" => drafts[query] = NoText
    /\ query # NoQuery /\ drafts[query] # NoText => code = drafts[query]

\* A query has the text t, as its draft or saved.
Holds(x, t) == drafts[x] = t \/ (x \in SavedIds /\ saved[x] = t)

\* Where the text typed last is: some query has it, a save that would take its
\* place saves it, and nothing typed before it is in front of it.
Keeps(t) ==
  /\ \E x \in QueryIds : Holds(x, t)
  /\ \A s \in saves : Holds(s.query, t) <=> s.text = t
  /\ \A i \in SavedIds : saved[i] = t => drafts[i] \in {NoText, t}
  /\ query \in SavedIds /\ saved[query] = t => code \in {0, t}
  /\ query # NoQuery /\ code = t => Holds(query, t)

SuggestInv ==
  /\ swapped \in BOOLEAN
  /\ swapped => loadedFor # "nothing"
  /\ swapped \/ (consulted \subseteq {code} /\ suggestion \in {NoText, code})

RunInv == RunTypes /\ WritesAreConfirmed /\ RunningIsShown

BufferInv ==
  /\ EditorTypes /\ OnlyOfSaved /\ BufferFollows
  /\ ~raced /\ lastTyped # NoText => Keeps(lastTyped)

EditorInv == BufferInv /\ RunInv /\ SuggestInv

LEMMA QueriesAre ==
  /\ NoQuery \notin QueryIds /\ NewQuery \in QueryIds /\ SavedIds \subseteq QueryIds
  /\ \A x \in QueryIds : x \in SavedIds <=> x # NewQuery
  BY EditorAssumption DEF QueryIds, NoQuery, NewQuery

LEMMA EditorKeeps == EditorInv => TypedTextIsKept /\ WritesAreConfirmed /\ RunningIsShown /\ SuggestionFits
  <1> SUFFICES ASSUME EditorInv PROVE TypedTextIsKept /\ SuggestionFits
    BY DEF EditorInv, RunInv
  <1>1. SuggestionFits
    BY DEF EditorInv, SuggestInv, SuggestionFits
  <1>2. ASSUME ~raced, lastTyped # NoText
        PROVE  (\E x \in QueryIds : drafts[x] = lastTyped) \/ \E i \in SavedIds : saved[i] = lastTyped
    BY <1>2 DEF EditorInv, BufferInv, Keeps, Holds
  <1>. QED  BY <1>1, <1>2 DEF TypedTextIsKept

LEMMA EditorStart == EditorInit => EditorInv
  <1> SUFFICES ASSUME EditorInit PROVE EditorInv
    OBVIOUS
  <1>1. texts = 1 /\ NoText \in Nat /\ NoText > 1 /\ 1 \in 1..MaxText
    BY EditorAssumption DEF NoText, EditorInit
  <1>2. code \in Texts /\ texts \in 1..MaxText /\ lastTyped = NoText /\ 1 \in Places /\ NoText \in Places
    BY <1>1 DEF EditorInit, Texts, Places
  <1>3. PICK i \in SavedIds : saved = [Unlisted EXCEPT ![i] = 1]
    BY DEF EditorInit
  <1>4. Unlisted \in [SavedIds -> Places]
    BY <1>2 DEF Unlisted
  <1>5. saved \in [SavedIds -> Places] /\ list \in [SavedIds -> Places]
    BY <1>2, <1>3, <1>4 DEF EditorInit
  <1>6. drafts = [x \in QueryIds |-> NoText]
    BY DEF EditorInit
  <1>7. EditorTypes
    BY <1>2, <1>5, <1>6 DEF EditorInit, EditorTypes
  <1>8. query = NoQuery /\ query \notin SavedIds
    BY QueriesAre DEF EditorInit
  <1>9. OnlyOfSaved /\ BufferFollows
    BY <1>6, <1>8, QueriesAre DEF OnlyOfSaved, BufferFollows, EditorInit
  <1>10. prod \in BOOLEAN /\ confirmDml \in BOOLEAN /\ readOnly = TRUE /\ runs = <<>> /\ runId = 0
    BY DEF EditorInit
  <1>11. RunTypes
    BY <1>10 DEF RunTypes
  <1>12. WritesAreConfirmed /\ RunningIsShown
    BY <1>10 DEF WritesAreConfirmed, RunningIsShown, Inflight
  <1>13. SuggestInv
    BY DEF EditorInit, SuggestInv
  <1>. QED  BY <1>2, <1>7, <1>9, <1>11, <1>12, <1>13 DEF EditorInv, BufferInv, RunInv

LEMMA BufferRest == ASSUME BufferInv, UNCHANGED bufferVars PROVE BufferInv'
  <1>0. UNCHANGED <<texts, query, code, loadedFor, drafts, saved, list, saves, lastTyped, raced>>
    BY DEF bufferVars
  <1>1. EditorTypes' /\ OnlyOfSaved' /\ BufferFollows'
    <2>1. EditorTypes'
      BY <1>0 DEF BufferInv, EditorTypes, Texts, Places
    <2>2. OnlyOfSaved'
      BY <1>0 DEF BufferInv, OnlyOfSaved, SaveFits, Texts
    <2>3. BufferFollows'
      BY <1>0 DEF BufferInv, BufferFollows
    <2>. QED  BY <2>1, <2>2, <2>3
  <1>2. ASSUME ~raced', lastTyped' # NoText PROVE Keeps(lastTyped)'
    BY <1>2 DEF BufferInv, bufferVars, Keeps, Holds
  <1>. QED  BY <1>1, <1>2 DEF BufferInv

LEMMA RunRest == ASSUME RunInv, UNCHANGED <<prod, confirmDml, runVars>> PROVE RunInv'
  BY DEF RunInv, runVars, RunTypes, WritesAreConfirmed, RunningIsShown, Inflight

LEMMA EditorRest == ASSUME EditorInv, UNCHANGED editorVars PROVE EditorInv'
  <1>1. BufferInv' /\ RunInv'
    BY BufferRest, RunRest DEF EditorInv, editorVars
  <1>. QED  BY <1>1 DEF EditorInv, SuggestInv, editorVars, suggestVars, bufferVars

\* A new mount.
LEMMA MountFits ==
  ASSUME RunInv, EditorMounted, UNCHANGED <<prod, confirmDml>>
  PROVE  RunInv' /\ SuggestInv'
  <1>1. runs' = <<>> /\ runId' = 0 /\ readOnly' = TRUE
    BY DEF EditorMounted
  <1>2. runs' \in Seq(RunShapes)
    BY <1>1
  <1>3. WritesAreConfirmed' /\ RunningIsShown'
    BY <1>1 DEF WritesAreConfirmed, RunningIsShown, Inflight
  <1>4. SuggestInv'
    BY DEF EditorMounted, SuggestInv
  <1>. QED  BY <1>1, <1>2, <1>3, <1>4 DEF RunInv, RunTypes

LEMMA TextsGrow ==
  ASSUME EditorTypes, texts < MaxText, texts' = Fresh
  PROVE  /\ texts' \in 1..MaxText /\ Fresh \in Texts' /\ Fresh \in 2..texts' /\ Fresh \notin Places /\ Fresh # NoText
         /\ Fresh \in Places' /\ Texts \subseteq Texts' /\ Places \subseteq Places'
         /\ lastTyped \in (2..texts') \cup {NoText}
  BY EditorAssumption DEF EditorTypes, Texts, Places, Fresh, NoText

LEMMA OpenFits == ASSUME EditorInv, NEW x \in QueryIds, OpenQuery(x) PROVE EditorInv'
  <1>1. /\ query' = x /\ (x \in SavedIds => saved[x] # NoText) /\ EditorMounted
        /\ UNCHANGED <<prod, confirmDml, saved, list, saves, raced>>
    BY QueriesAre DEF OpenQuery
  <1>2. RunInv' /\ SuggestInv' /\ swapped' = FALSE
    BY <1>1, MountFits DEF EditorInv, EditorMounted
  <1>3. CASE Bring /\ code' = Fresh /\ drafts' = Put(drafts, x, Fresh) /\ loadedFor' = "prefill" /\ lastTyped' = NoText
    <2>1. /\ texts' \in 1..MaxText /\ Fresh \in Texts' /\ Fresh # NoText /\ Fresh \in Places'
          /\ Texts \subseteq Texts' /\ Places \subseteq Places'
      BY <1>3, TextsGrow DEF Bring, EditorInv, BufferInv
    <2>2. drafts' \in [QueryIds -> Places'] /\ drafts'[x] = Fresh /\ \A y \in QueryIds : y # x => drafts'[y] = drafts[y]
      BY <1>3, <2>1 DEF Put, EditorInv, BufferInv, EditorTypes
    <2>3. saved' \in [SavedIds -> Places'] /\ list' \in [SavedIds -> Places']
      BY <1>1, <2>1 DEF EditorInv, BufferInv, EditorTypes
    <2>4. EditorTypes'
      BY <1>1, <1>2, <1>3, <2>1, <2>2, <2>3 DEF EditorInv, BufferInv, EditorTypes
    <2>5. OnlyOfSaved'
      BY <1>1, <2>1, <2>2, QueriesAre DEF EditorInv, BufferInv, OnlyOfSaved, SaveFits
    <2>6. BufferFollows'
      BY <1>1, <1>3, <2>1, <2>2 DEF BufferFollows
    <2>. QED  BY <1>2, <1>3, <2>4, <2>5, <2>6 DEF EditorInv, BufferInv
  <1>4. CASE /\ code' = IF drafts[x] = NoText THEN 0 ELSE drafts[x]
             /\ loadedFor' = IF drafts[x] = NoText THEN "nothing" ELSE "draft"
             /\ UNCHANGED <<texts, drafts, lastTyped>>
    <2>1. texts \in Nat /\ drafts[x] \in Places
      BY DEF EditorInv, BufferInv, EditorTypes
    <2>2. code' \in Texts
      BY <1>4, <2>1 DEF Texts, Places
    <2>3. EditorTypes'
      BY <1>1, <1>2, <1>4, <2>2 DEF EditorInv, BufferInv, EditorTypes, Texts, Places
    <2>4. OnlyOfSaved'
      BY <1>1, <1>4 DEF EditorInv, BufferInv, OnlyOfSaved, SaveFits, Texts
    <2>5. BufferFollows'
      BY <1>1, <1>4 DEF BufferFollows
    <2>6. ASSUME ~raced, lastTyped # NoText PROVE Keeps(lastTyped)'
      <3>1. Keeps(lastTyped) /\ lastTyped # 0
        BY <2>1, <2>6 DEF EditorInv, BufferInv, EditorTypes
      <3>. QED  BY <1>1, <1>4, <3>1 DEF Keeps, Holds
    <2>. QED  BY <1>1, <1>2, <1>4, <2>3, <2>4, <2>5, <2>6 DEF EditorInv, BufferInv
  <1>. QED  BY <1>3, <1>4 DEF OpenQuery

LEMMA LeaveFits == ASSUME EditorInv, Leave PROVE EditorInv'
  <1>1. /\ query' = NoQuery /\ code' = 0 /\ EditorMounted
        /\ UNCHANGED <<prod, confirmDml, texts, drafts, saved, list, saves, lastTyped, raced>>
    BY DEF Leave
  <1>2. RunInv' /\ SuggestInv' /\ swapped' = FALSE /\ NoQuery \notin SavedIds
    BY <1>1, MountFits, QueriesAre DEF EditorInv, EditorMounted
  <1>3. 0 \in Texts
    BY DEF EditorInv, BufferInv, EditorTypes, Texts
  <1>4. EditorTypes'
    <2>1. Texts' = Texts /\ Places' = Places
      BY <1>1 DEF Texts, Places
    <2>2. code' \in Texts' /\ query' \in QueryIds \cup {NoQuery}
      BY <1>1, <1>3, <2>1
    <2>. QED  BY <1>1, <1>2, <2>1, <2>2 DEF EditorInv, BufferInv, EditorTypes
  <1>5. OnlyOfSaved' /\ BufferFollows'
    BY <1>1, <1>2 DEF EditorInv, BufferInv, OnlyOfSaved, BufferFollows, SaveFits, Texts
  <1>6. ASSUME ~raced, lastTyped # NoText PROVE Keeps(lastTyped)'
    BY <1>1, <1>2, <1>6 DEF EditorInv, BufferInv, Keeps, Holds
  <1>. QED  BY <1>1, <1>2, <1>4, <1>5, <1>6 DEF EditorInv, BufferInv

LEMMA LoadFits == ASSUME EditorInv, LoadSaved PROVE EditorInv'
  <1>1. /\ query \in SavedIds /\ loadedFor = "nothing" /\ list[query] # NoText
        /\ loadedFor' = "saved" /\ code' = list[query] /\ swapped' = (code' # code)
        /\ raced' = (raced \/ list[query] # saved[query])
        /\ UNCHANGED <<prod, confirmDml, texts, query, drafts, saved, list, saves, lastTyped, runVars, suggestion, consulted>>
    BY DEF LoadSaved
  <1>2. RunInv'
    BY <1>1, RunRest DEF EditorInv
  <1>3. SuggestInv'
    BY <1>1 DEF EditorInv, SuggestInv
  <1>4. EditorTypes'
    <2>1. Texts' = Texts /\ Places' = Places
      BY <1>1 DEF Texts, Places
    <2>2. code' \in Texts /\ raced' \in BOOLEAN
      BY <1>1 DEF EditorInv, BufferInv, EditorTypes, Places
    <2>. QED  BY <1>1, <2>1, <2>2 DEF EditorInv, BufferInv, EditorTypes
  <1>5. OnlyOfSaved'
    BY <1>1 DEF EditorInv, BufferInv, OnlyOfSaved, SaveFits, Texts
  <1>6. ~raced' => ~raced /\ code' = saved[query] /\ drafts[query] = NoText
    BY <1>1 DEF EditorInv, BufferInv, BufferFollows, EditorTypes
  <1>7. BufferFollows'
    BY <1>1, <1>6 DEF BufferFollows
  <1>8. ASSUME ~raced', lastTyped' # NoText PROVE Keeps(lastTyped)'
    BY <1>1, <1>6, <1>8 DEF EditorInv, BufferInv, Keeps, Holds
  <1>. QED  BY <1>2, <1>3, <1>4, <1>5, <1>7, <1>8 DEF EditorInv, BufferInv

LEMMA ListArrivalFits == ASSUME EditorInv, SavedListArrives PROVE EditorInv'
  <1>1. /\ list' = saved
        /\ UNCHANGED <<prod, confirmDml, texts, query, code, loadedFor, drafts, saved, saves, lastTyped, raced, runVars, suggestVars>>
    BY DEF SavedListArrives
  <1>2. RunInv' /\ SuggestInv'
    BY <1>1, RunRest DEF EditorInv, SuggestInv, suggestVars
  <1>3. EditorTypes'
    BY <1>1 DEF EditorInv, BufferInv, EditorTypes, Texts, Places
  <1>4. OnlyOfSaved' /\ BufferFollows'
    BY <1>1 DEF EditorInv, BufferInv, OnlyOfSaved, SaveFits, Texts, BufferFollows
  <1>5. ASSUME ~raced', lastTyped' # NoText PROVE Keeps(lastTyped)'
    BY <1>1, <1>5 DEF EditorInv, BufferInv, Keeps, Holds
  <1>. QED  BY <1>2, <1>3, <1>4, <1>5 DEF EditorInv, BufferInv

\* A text nobody has seen comes into the buffer and its draft.
LEMMA BringFits ==
  ASSUME BufferInv, IsOpen, Bring, code' = Fresh, drafts' = Put(drafts, query, Fresh),
         lastTyped' \in {Fresh, NoText}, raced' \in BOOLEAN, raced => raced',
         lastTyped' = Fresh /\ ~raced' => saves = {} /\ ~(query \in SavedIds /\ loadedFor = "nothing"),
         raced' \/ loadedFor' # "nothing" \/ query \notin SavedIds,
         UNCHANGED <<query, saved, list, saves>>
  PROVE  BufferInv'
  <1>1. /\ texts' \in 1..MaxText /\ Fresh \in Texts' /\ Fresh # NoText /\ Fresh \in Places' /\ Fresh \notin Places
        /\ Texts \subseteq Texts' /\ Places \subseteq Places' /\ Fresh \in 2..texts'
    BY TextsGrow DEF Bring, BufferInv
  <1>2. query \in QueryIds
    BY DEF IsOpen, BufferInv, EditorTypes
  <1>3. drafts' \in [QueryIds -> Places'] /\ drafts'[query] = Fresh /\ \A y \in QueryIds : y # query => drafts'[y] = drafts[y]
    BY <1>1, <1>2 DEF Put, BufferInv, EditorTypes
  <1>4. saved' \in [SavedIds -> Places'] /\ list' \in [SavedIds -> Places']
    BY <1>1 DEF BufferInv, EditorTypes
  <1>5. EditorTypes'
    BY <1>1, <1>2, <1>3, <1>4 DEF EditorTypes
  <1>6. OnlyOfSaved'
    <2>1. \A s \in saves : SaveFits(s)'
      BY <1>1 DEF BufferInv, OnlyOfSaved, SaveFits
    <2>. QED  BY <1>2, <1>3, <2>1, QueriesAre DEF BufferInv, OnlyOfSaved
  <1>7. BufferFollows'
    BY <1>3 DEF BufferFollows
  <1>8. ASSUME ~raced', lastTyped' # NoText PROVE Keeps(lastTyped)'
    <2>1. lastTyped' = Fresh /\ saves' = {}
      BY <1>8
    <2>2. \A i \in SavedIds : saved'[i] # Fresh
      BY <1>1 DEF BufferInv, EditorTypes
    <2>3. drafts'[query] = lastTyped'
      BY <1>3, <2>1
    <2>4. Holds(query, lastTyped)'
      BY <2>3 DEF Holds
    <2>5. \A i \in SavedIds : saved'[i] # lastTyped'
      BY <2>1, <2>2
    <2>. QED  BY <1>2, <2>1, <2>4, <2>5 DEF Keeps
  <1>. QED  BY <1>5, <1>6, <1>7, <1>8 DEF BufferInv

LEMMA TypeFits == ASSUME EditorInv, Type PROVE EditorInv'
  <1>1. /\ IsOpen /\ Bring /\ code' = Fresh /\ drafts' = Put(drafts, query, Fresh) /\ lastTyped' = Fresh
        /\ raced' = (raced \/ saves # {} \/ (query \in SavedIds /\ loadedFor = "nothing"))
        /\ suggestion' = NoText /\ swapped' = FALSE /\ (consulted' = {Fresh} \/ consulted' = {})
        /\ UNCHANGED <<prod, confirmDml, query, loadedFor, saved, list, saves, runVars>>
    BY DEF Type
  <1>2. raced' \in BOOLEAN
    BY <1>1
  <1>3. BufferInv'
    <2>1. raced \in BOOLEAN
      BY DEF EditorInv, BufferInv, EditorTypes
    <2>2. (raced => raced') /\ (~raced' => saves = {} /\ ~(query \in SavedIds /\ loadedFor = "nothing"))
      BY <1>1, <2>1
    <2>3. raced' \/ loadedFor' # "nothing" \/ query \notin SavedIds
      BY <1>1, <2>2
    <2>. QED  BY <1>1, <1>2, <2>2, <2>3, BringFits DEF EditorInv
  <1>4. RunInv'
    BY <1>1, RunRest DEF EditorInv
  <1>5. SuggestInv'
    BY <1>1 DEF EditorInv, SuggestInv
  <1>. QED  BY <1>3, <1>4, <1>5 DEF EditorInv

LEMMA HistoryFits == ASSUME EditorInv, PickHistory PROVE EditorInv'
  <1>1. /\ IsOpen /\ Bring /\ code' = Fresh /\ drafts' = Put(drafts, query, Fresh) /\ lastTyped' = NoText
        /\ loadedFor' = "history" /\ swapped' = TRUE
        /\ UNCHANGED <<prod, confirmDml, query, saved, list, saves, raced, runVars, suggestion, consulted>>
    BY DEF PickHistory
  <1>2. raced' \in BOOLEAN /\ Fresh # NoText
    BY <1>1, TextsGrow DEF EditorInv, BufferInv, EditorTypes, Bring
  <1>3. BufferInv'
    BY <1>1, <1>2, BringFits DEF EditorInv
  <1>4. RunInv'
    BY <1>1, RunRest DEF EditorInv
  <1>5. SuggestInv'
    BY <1>1 DEF EditorInv, SuggestInv
  <1>. QED  BY <1>3, <1>4, <1>5 DEF EditorInv

LEMMA SaveKeepsText == ASSUME EditorInv, Save PROVE EditorInv'
  <1>1. /\ IsOpen /\ code # 0 /\ saves' = saves \cup {[query |-> query, text |-> code]}
        /\ UNCHANGED <<prod, confirmDml, texts, query, code, loadedFor, drafts, saved, list, lastTyped, raced, runVars, suggestVars>>
    BY DEF Save
  <1>2. RunInv' /\ SuggestInv'
    BY <1>1, RunRest DEF EditorInv, SuggestInv, suggestVars
  <1>3. EditorTypes'
    BY <1>1 DEF EditorInv, BufferInv, EditorTypes, Texts, Places
  <1>4. query \in QueryIds
    BY <1>1 DEF IsOpen, EditorInv, BufferInv, EditorTypes
  <1>5. OnlyOfSaved' /\ BufferFollows'
    <2>1. code \in Texts /\ Texts' = Texts
      BY <1>1 DEF EditorInv, BufferInv, EditorTypes, Texts
    <2>2. ASSUME NEW s \in saves' PROVE SaveFits(s)'
      <3>1. CASE s \in saves
        BY <1>1, <2>1, <3>1 DEF EditorInv, BufferInv, OnlyOfSaved, SaveFits
      <3>2. CASE s = [query |-> query, text |-> code]
        BY <1>1, <1>4, <2>1, <3>2 DEF EditorInv, BufferInv, OnlyOfSaved, SaveFits
      <3>. QED  BY <1>1, <3>1, <3>2
    <2>3. BufferFollows'
      BY <1>1 DEF EditorInv, BufferInv, BufferFollows
    <2>. QED  BY <1>1, <2>2, <2>3 DEF EditorInv, BufferInv, OnlyOfSaved
  <1>6. ASSUME ~raced', lastTyped' # NoText PROVE Keeps(lastTyped)'
    <2>1. Keeps(lastTyped) /\ BufferFollows /\ ~raced
      BY <1>1, <1>6 DEF EditorInv, BufferInv
    <2>2. Holds(query, lastTyped) <=> code = lastTyped
      BY <1>1, <1>4, <1>6, <2>1 DEF Keeps, Holds, BufferFollows, IsOpen
    <2>3. \A s \in saves' : Holds(s.query, lastTyped) <=> s.text = lastTyped
      BY <1>1, <2>1, <2>2 DEF Keeps
    <2>4. \A x : Holds(x, lastTyped)' <=> Holds(x, lastTyped)
      BY <1>1 DEF Holds
    <2>. QED  BY <1>1, <2>1, <2>3, <2>4 DEF Keeps
  <1>. QED  BY <1>2, <1>3, <1>5, <1>6 DEF EditorInv, BufferInv

LEMMA SaveFailsKeepsText == ASSUME EditorInv, SaveFails PROVE EditorInv'
  <1>1. /\ saves' \subseteq saves
        /\ UNCHANGED <<prod, confirmDml, texts, query, code, loadedFor, drafts, saved, list, lastTyped, raced, runVars, suggestVars>>
    BY DEF SaveFails
  <1>2. RunInv' /\ SuggestInv'
    BY <1>1, RunRest DEF EditorInv, SuggestInv, suggestVars
  <1>3. EditorTypes'
    BY <1>1 DEF EditorInv, BufferInv, EditorTypes, Texts, Places
  <1>4. OnlyOfSaved' /\ BufferFollows'
    BY <1>1 DEF EditorInv, BufferInv, OnlyOfSaved, BufferFollows, SaveFits, Texts
  <1>5. ASSUME ~raced', lastTyped' # NoText PROVE Keeps(lastTyped)'
    BY <1>1, <1>5 DEF EditorInv, BufferInv, Keeps, Holds
  <1>. QED  BY <1>2, <1>3, <1>4, <1>5 DEF EditorInv, BufferInv

\* What a save that succeeds does to the queries' texts.
SaveLands(s, i) ==
  /\ s \in saves /\ i \in SavedIds
  /\ IF s.query = NewQuery THEN saved[i] = NoText ELSE i = s.query
  /\ saves' = saves \ {s} /\ saved' = Put(saved, i, s.text)
  /\ drafts' = Put(drafts, s.query, NoText) /\ query' = i
  /\ IF query = i
     THEN /\ loadedFor' = IF s.query = i THEN "saved" ELSE loadedFor
          /\ UNCHANGED code
     ELSE /\ code' = IF drafts'[i] = NoText THEN 0 ELSE drafts'[i]
          /\ loadedFor' = IF drafts'[i] = NoText THEN "nothing" ELSE "draft"
  /\ UNCHANGED <<texts, list, lastTyped, raced>>

LEMMA LandedTexts ==
  ASSUME BufferInv, NEW s, NEW i, SaveLands(s, i)
  PROVE  /\ s.query \in QueryIds /\ s.text \in Texts /\ s.text # NoText
         /\ drafts'[s.query] = NoText /\ \A x \in QueryIds : x # s.query => drafts'[x] = drafts[x]
         /\ saved'[i] = s.text /\ \A x \in SavedIds : x # i => saved'[x] = saved[x]
         /\ drafts' \in [QueryIds -> Places] /\ saved' \in [SavedIds -> Places]
         /\ drafts'[i] = NoText \/ (query # i /\ s.query # i)
         /\ s.query = NewQuery => s.query # i /\ query # i /\ drafts[i] = NoText /\ \A z \in saves : z.query # i
         /\ s.query # NewQuery => s.query = i
  <1>1. /\ s \in saves /\ i \in SavedIds /\ i \in QueryIds
        /\ IF s.query = NewQuery THEN saved[i] = NoText ELSE i = s.query
        /\ saved' = Put(saved, i, s.text) /\ drafts' = Put(drafts, s.query, NoText)
    BY QueriesAre DEF SaveLands
  <1>2. SaveFits(s)
    BY <1>1 DEF BufferInv, OnlyOfSaved
  <1>3. s.query \in QueryIds /\ s.text \in Texts /\ s.text # NoText /\ NoText \in Places /\ s.text \in Places
    <2>1. texts \in Nat /\ texts <= MaxText /\ NoText = MaxText + 1 /\ MaxText \in Nat
      BY EditorAssumption DEF BufferInv, EditorTypes, NoText
    <2>. QED  BY <1>2, <2>1 DEF SaveFits, Texts, Places
  <1>4. drafts \in [QueryIds -> Places] /\ saved \in [SavedIds -> Places]
    BY DEF BufferInv, EditorTypes
  <1>5. /\ drafts'[s.query] = NoText /\ \A x \in QueryIds : x # s.query => drafts'[x] = drafts[x]
        /\ drafts' \in [QueryIds -> Places]
    BY <1>1, <1>3, <1>4 DEF Put
  <1>6. /\ saved'[i] = s.text /\ \A x \in SavedIds : x # i => saved'[x] = saved[x]
        /\ saved' \in [SavedIds -> Places]
    BY <1>1, <1>3, <1>4 DEF Put
  <1>7. s.query = NewQuery => s.query # i /\ query # i /\ drafts[i] = NoText /\ \A z \in saves : z.query # i
    <2> SUFFICES ASSUME s.query = NewQuery PROVE s.query # i /\ query # i /\ drafts[i] = NoText /\ \A z \in saves : z.query # i
      OBVIOUS
    <2>1. saved[i] = NoText
      BY <1>1
    <2>2. \A z \in saves : z.query # i
      BY <1>1, <2>1 DEF BufferInv, OnlyOfSaved, SaveFits
    <2>. QED  BY <1>1, <2>1, <2>2, QueriesAre DEF BufferInv, OnlyOfSaved
  <1>8. s.query # NewQuery => s.query = i
    BY <1>1
  <1>9. drafts'[i] = NoText \/ (query # i /\ s.query # i)
    BY <1>1, <1>5, <1>7, <1>8
  <1>. QED  BY <1>3, <1>5, <1>6, <1>7, <1>8, <1>9

LEMMA LandedKeeps ==
  ASSUME BufferInv, NEW s, NEW i, SaveLands(s, i), ~raced, lastTyped # NoText
  PROVE  Keeps(lastTyped)'
  <1> DEFINE t == lastTyped
  <1>0. /\ s \in saves /\ i \in SavedIds /\ i \in QueryIds /\ saves' = saves \ {s} /\ query' = i /\ lastTyped' = t
        /\ t # NoText /\ t # 0
    BY QueriesAre DEF SaveLands, BufferInv, EditorTypes
  <1>1. /\ s.query \in QueryIds /\ drafts'[s.query] = NoText /\ \A x \in QueryIds : x # s.query => drafts'[x] = drafts[x]
        /\ saved'[i] = s.text /\ \A x \in SavedIds : x # i => saved'[x] = saved[x]
        /\ s.query = NewQuery => s.query # i /\ query # i /\ drafts[i] = NoText /\ \A z \in saves : z.query # i
        /\ s.query # NewQuery => s.query = i
    BY LandedTexts
  <1>2. Keeps(t) /\ BufferFollows
    BY DEF BufferInv
  <1>3. Holds(s.query, t) <=> s.text = t
    BY <1>0, <1>2 DEF Keeps
  <1>4. \A x \in QueryIds : x # s.query /\ x # i => (Holds(x, t)' <=> Holds(x, t))
    BY <1>0, <1>1 DEF Holds
  <1>5. Holds(i, t)' <=> s.text = t \/ (s.query # i /\ drafts[i] = t)
    BY <1>0, <1>1 DEF Holds
  <1>6. ~Holds(NewQuery, t)' \/ s.query # NewQuery
    BY <1>0, <1>1, QueriesAre DEF Holds
  <1>7. \E x \in QueryIds : Holds(x, t)'
    <2>1. CASE s.text = t
      BY <1>0, <1>5, <2>1
    <2>2. CASE s.text # t
      <3>1. PICK x \in QueryIds : Holds(x, t)
        BY <1>2 DEF Keeps
      <3>2. x # s.query
        BY <1>3, <2>2, <3>1
      <3>3. x # i
        BY <1>0, <1>1, <1>3, <2>2, <3>1, <3>2, <1>2 DEF Holds, SaveLands
      <3>. QED  BY <1>4, <3>1, <3>2, <3>3
    <2>. QED  BY <2>1, <2>2
  <1>8. ASSUME NEW z \in saves' PROVE Holds(z.query, t)' <=> z.text = t
    <2>1. z \in saves /\ z # s /\ z.query \in QueryIds /\ (Holds(z.query, t) <=> z.text = t)
      BY <1>0, <1>2, <1>8 DEF Keeps, BufferInv, OnlyOfSaved, SaveFits
    <2>2. z.query = s.query /\ z.text = s.text => FALSE
      BY <1>0, <2>1 DEF BufferInv, OnlyOfSaved, SaveFits
    <2>3. CASE z.query # s.query
      BY <1>1, <1>4, <2>1, <2>3
    <2>4. CASE z.query = s.query /\ s.query = i
      BY <1>3, <1>5, <2>1, <2>4
    <2>5. CASE z.query = s.query /\ s.query = NewQuery
      BY <1>3, <1>6, <2>1, <2>2, <2>5
    <2>. QED  BY <1>1, <2>3, <2>4, <2>5
  <1>9. ASSUME NEW x \in SavedIds, saved'[x] = t PROVE drafts'[x] \in {NoText, t}
    <2>1. x \in QueryIds
      BY QueriesAre
    <2>2. CASE x = i
      BY <1>0, <1>1, <2>2
    <2>3. CASE x # i
      BY <1>1, <1>2, <1>9, <2>1, <2>3 DEF Keeps
    <2>. QED  BY <2>2, <2>3
  <1>10. IF query = i THEN code' = code ELSE code' = IF drafts'[i] = NoText THEN 0 ELSE drafts'[i]
    BY DEF SaveLands
  <1>11. saved'[i] = t => code' \in {0, t}
    <2>1. CASE query = i
      <3>1. s.query = i
        BY <1>1, <2>1
      <3>2. s.text = t => Holds(i, t)
        BY <1>3, <3>1
      <3>3. Holds(i, t) => code \in {0, t}
        BY <1>0, <1>2, <2>1, QueriesAre DEF Holds, Keeps, BufferFollows
      <3>. QED  BY <1>1, <1>10, <2>1, <3>2, <3>3
    <2>2. CASE query # i
      BY <1>0, <1>9, <1>10, <2>2
    <2>. QED  BY <2>1, <2>2
  <1>12. code' = t => Holds(i, t)'
    <2>1. CASE query = i
      <3>1. s.query = i
        BY <1>1, <2>1
      <3>2. code = t => Holds(i, t)
        BY <1>0, <1>2, <2>1, QueriesAre DEF Keeps
      <3>. QED  BY <1>3, <1>5, <1>10, <2>1, <3>1, <3>2
    <2>2. CASE query # i
      BY <1>0, <1>10, <2>2 DEF Holds
    <2>. QED  BY <2>1, <2>2
  <1>13. \A x : Holds(x, lastTyped)' <=> Holds(x, t)'
    BY <1>0 DEF Holds
  <1> QED  BY <1>0, <1>7, <1>8, <1>9, <1>11, <1>12 DEF Keeps

LEMMA LandedFits == ASSUME BufferInv, NEW s, NEW i, SaveLands(s, i) PROVE BufferInv'
  <1>0. /\ s \in saves /\ i \in SavedIds /\ i \in QueryIds /\ saves' = saves \ {s} /\ query' = i
        /\ UNCHANGED <<texts, list, lastTyped, raced>>
    BY QueriesAre DEF SaveLands
  <1>1. /\ s.query \in QueryIds /\ s.text \in Texts /\ s.text # NoText
        /\ drafts'[s.query] = NoText /\ \A x \in QueryIds : x # s.query => drafts'[x] = drafts[x]
        /\ saved'[i] = s.text /\ \A x \in SavedIds : x # i => saved'[x] = saved[x]
        /\ drafts' \in [QueryIds -> Places] /\ saved' \in [SavedIds -> Places]
        /\ drafts'[i] = NoText \/ (query # i /\ s.query # i)
        /\ s.query # NewQuery => s.query = i
    BY LandedTexts
  <1>2. Texts' = Texts /\ Places' = Places /\ 0 \in Texts
    BY <1>0 DEF Texts, Places, BufferInv, EditorTypes
  <1>3. IF query = i THEN code' = code ELSE code' = IF drafts'[i] = NoText THEN 0 ELSE drafts'[i]
    BY DEF SaveLands
  <1>4. code' \in Texts
    BY <1>0, <1>1, <1>2, <1>3 DEF BufferInv, EditorTypes, Places
  <1>5. EditorTypes'
    BY <1>0, <1>1, <1>2, <1>4 DEF BufferInv, EditorTypes
  <1>6. \A x \in SavedIds : saved[x] # NoText => saved'[x] # NoText
    BY <1>1
  <1>7. ASSUME NEW x \in SavedIds, drafts'[x] # NoText PROVE saved'[x] # NoText
    <2>1. x \in QueryIds /\ x # s.query
      BY <1>1, <1>7, QueriesAre
    <2>. QED  BY <1>1, <1>6, <1>7, <2>1 DEF BufferInv, OnlyOfSaved
  <1>8. \A z \in saves' : SaveFits(z)'
    BY <1>0, <1>2, <1>6 DEF BufferInv, OnlyOfSaved, SaveFits
  <1>9. OnlyOfSaved'
    BY <1>0, <1>1, <1>7, <1>8 DEF OnlyOfSaved
  <1>10. BufferFollows'
    BY <1>0, <1>1, <1>3 DEF BufferFollows, SaveLands
  <1>. QED  BY <1>0, <1>5, <1>9, <1>10, LandedKeeps DEF BufferInv

LEMMA SavedFits == ASSUME EditorInv, Saved PROVE EditorInv'
  <1>1. PICK s \in saves, i \in SavedIds :
          /\ IF s.query = NewQuery THEN saved[i] = NoText ELSE i = s.query
          /\ saves' = saves \ {s} /\ saved' = Put(saved, i, s.text) /\ refetch' = TRUE
          /\ drafts' = Put(drafts, s.query, NoText)
          /\ query' = i
          /\ IF query = i
             THEN /\ loadedFor' = IF s.query = i THEN "saved" ELSE loadedFor
                  /\ UNCHANGED <<code, runVars, suggestVars>>
             ELSE /\ code' = IF drafts'[i] = NoText THEN 0 ELSE drafts'[i]
                  /\ loadedFor' = IF drafts'[i] = NoText THEN "nothing" ELSE "draft"
                  /\ EditorMounted
          /\ UNCHANGED <<scene, prod, confirmDml, texts, list, lastTyped, raced>>
    BY DEF Saved
  <1>2. SaveLands(s, i)
    BY <1>1 DEF SaveLands
  <1>3. BufferInv'
    BY <1>2, LandedFits DEF EditorInv
  <1>4. CASE query = i
    <2>1. UNCHANGED <<prod, confirmDml, code, runVars, suggestVars>> /\ (loadedFor' = "saved" \/ loadedFor' = loadedFor)
      BY <1>1, <1>4
    <2>2. RunInv'
      BY <2>1, RunRest DEF EditorInv
    <2>3. SuggestInv'
      BY <2>1 DEF EditorInv, SuggestInv, suggestVars
    <2>. QED  BY <1>3, <2>2, <2>3 DEF EditorInv
  <1>5. CASE query # i
    <2>1. EditorMounted /\ UNCHANGED <<prod, confirmDml>>
      BY <1>1, <1>5
    <2>. QED  BY <1>3, <2>1, MountFits DEF EditorInv
  <1>. QED  BY <1>4, <1>5

\* Runs that are started: they are open, the last of them can be cancelled.
LEMMA ExecuteFits ==
  ASSUME RunInv, NEW n \in 1..2, NEW kind \in {"read", "write", "hidden"}, NEW confirmed \in BOOLEAN,
         Execute(n, kind, confirmed), kind = "write" /\ ~readOnly /\ confirmDml => confirmed,
         UNCHANGED <<prod, confirmDml, readOnly>>
  PROVE  RunInv'
  <1>1. PICK tick \in {Len(runs), Len(runs) + 1} :
          /\ tick > 0
          /\ runs' = runs \o [k \in 1..n |-> [id |-> tick, kind |-> kind, readOnly |-> readOnly,
                                              confirmed |-> confirmed, open |-> TRUE]]
          /\ runId' = tick
    BY DEF Execute
  <1> DEFINE new == [id |-> tick, kind |-> kind, readOnly |-> readOnly, confirmed |-> confirmed, open |-> TRUE]
             more == [k \in 1..n |-> new]
  <1>2. runs \in Seq(RunShapes) /\ Len(runs) \in Nat /\ tick \in Nat
    BY <1>1 DEF RunInv, RunTypes
  <1>3. new \in RunShapes
    BY <1>2 DEF RunShapes, RunInv, RunTypes
  <1>4. more \in Seq(RunShapes) /\ Len(more) = n
    <2> HIDE DEF new
    <2>. QED  BY <1>3
  <1>5. /\ runs' \in Seq(RunShapes) /\ Len(runs') = Len(runs) + n
        /\ \A k \in 1..Len(runs) : runs'[k] = runs[k]
        /\ \A k \in (Len(runs) + 1)..(Len(runs) + n) : runs'[k] = new
    <2>1. runs' = runs \o more
      BY <1>1
    <2>2. \A k \in 1..n : more[k] = new
      OBVIOUS
    <2> HIDE DEF new, more
    <2>3. /\ runs \o more \in Seq(RunShapes) /\ Len(runs \o more) = Len(runs) + Len(more)
          /\ \A k \in 1..(Len(runs) + Len(more)) :
                (runs \o more)[k] = IF k <= Len(runs) THEN runs[k] ELSE more[k - Len(runs)]
      BY <1>2, <1>4, ConcatProperties
    <2>4. ASSUME NEW k \in (Len(runs) + 1)..(Len(runs) + n) PROVE (runs \o more)[k] = new
      <3>1. k - Len(runs) \in 1..n /\ k \in 1..(Len(runs) + Len(more)) /\ ~(k <= Len(runs))
        BY <1>2, <1>4
      <3>. QED  BY <2>2, <2>3, <3>1
    <2>5. ASSUME NEW k \in 1..Len(runs) PROVE (runs \o more)[k] = runs[k]
      <3>1. k \in 1..(Len(runs) + Len(more)) /\ k <= Len(runs)
        BY <1>2, <1>4
      <3>. QED  BY <2>3, <3>1
    <2>. QED  BY <1>4, <2>1, <2>3, <2>4, <2>5
  <1>6. DOMAIN runs = 1..Len(runs) /\ DOMAIN runs' = 1..(Len(runs) + n)
    BY <1>2, <1>5
  <1>7. new.kind = kind /\ new.readOnly = readOnly /\ new.confirmed = confirmed /\ new.open = TRUE
    OBVIOUS
  <1> HIDE DEF new, more
  <1>8. WritesAreConfirmed'
    <2> SUFFICES ASSUME NEW k \in DOMAIN runs', runs'[k].kind = "write", ~runs'[k].readOnly, confirmDml
                 PROVE  runs'[k].confirmed
      BY DEF WritesAreConfirmed
    <2>1. CASE k \in 1..Len(runs)
      BY <1>5, <1>6, <2>1 DEF RunInv, WritesAreConfirmed
    <2>2. CASE k \in (Len(runs) + 1)..(Len(runs) + n)
      BY <1>5, <1>7, <2>2
    <2>. QED  BY <1>2, <1>6, <2>1, <2>2
  <1>9. RunningIsShown'
    <2>0. Len(runs) + 1 \in (Len(runs) + 1)..(Len(runs) + n) /\ Len(runs) + 1 \in 1..(Len(runs) + n)
      BY <1>2
    <2>1. Len(runs) + 1 \in DOMAIN runs' /\ runs'[Len(runs) + 1].open = TRUE
      <3>1. runs'[Len(runs) + 1] = new
        BY <1>5, <2>0
      <3>. QED  BY <1>6, <1>7, <2>0, <3>1
    <2>2. Inflight' # {}
      BY <2>1 DEF Inflight
    <2>3. runId' # 0
      BY <1>1, <1>2
    <2>. QED  BY <2>2, <2>3 DEF RunningIsShown
  <1>. QED  BY <1>5, <1>8, <1>9 DEF RunInv, RunTypes

\* What only concerns runs leaves buffer and suggestion alone.
LEMMA OnlyRuns ==
  ASSUME EditorInv, UNCHANGED <<bufferVars, suggestVars>>, RunInv' PROVE EditorInv'
  BY BufferRest DEF EditorInv, SuggestInv, bufferVars, suggestVars

LEMMA RunFits ==
  ASSUME EditorInv, NEW keys \in 1..2, NEW kind \in {"read", "write", "hidden"}, Run(keys, kind)
  PROVE  EditorInv'
  <1>1. UNCHANGED <<bufferVars, suggestVars>> /\ UNCHANGED <<prod, confirmDml, readOnly>>
    BY DEF Run
  <1>2. CASE UNCHANGED <<runs, runId>>
    BY <1>1, <1>2, OnlyRuns DEF EditorInv, RunInv, RunTypes, WritesAreConfirmed, RunningIsShown, Inflight
  <1>3. CASE ~(confirmDml /\ ~readOnly /\ RecognizedWrite(kind)) /\ Execute(keys, kind, FALSE)
    <2>1. ~(kind = "write" /\ ~readOnly /\ confirmDml)
      BY <1>3 DEF RecognizedWrite
    <2>2. RunInv'
      BY <1>1, <1>3, <2>1, ExecuteFits DEF EditorInv
    <2>. QED  BY <1>1, <2>2, OnlyRuns
  <1>. QED  BY <1>2, <1>3 DEF Run

LEMMA RunItFits == ASSUME EditorInv, RunIt PROVE EditorInv'
  <1>1. UNCHANGED <<bufferVars, suggestVars>> /\ UNCHANGED <<prod, confirmDml, readOnly>> /\ Execute(1, "write", TRUE)
    BY DEF RunIt
  <1>2. RunInv'
    <2>1. ASSUME NEW n \in 1..2, NEW kind \in {"read", "write", "hidden"}, NEW yes \in BOOLEAN,
                 n = 1, kind = "write", yes
          PROVE  Execute(n, kind, yes) => RunInv'
      BY <1>1, <2>1, ExecuteFits DEF EditorInv
    <2>2. 1 \in 1..2 /\ "write" \in {"read", "write", "hidden"} /\ TRUE \in BOOLEAN
      OBVIOUS
    <2>. QED  BY <1>1, <2>1, <2>2
  <1>. QED  BY <1>1, <1>2, OnlyRuns

LEMMA AnswerFits == ASSUME EditorInv, NEW n \in 1..MaxRuns, Answer(n) PROVE EditorInv'
  <1>1. /\ UNCHANGED <<bufferVars, suggestVars>> /\ UNCHANGED <<prod, confirmDml, readOnly>>
        /\ n \in Inflight /\ runs' = [runs EXCEPT ![n].open = FALSE] /\ runId' = 0
    BY DEF Answer
  <1>2. n \in DOMAIN runs /\ runs \in Seq(RunShapes) /\ runs[n] \in RunShapes
    BY <1>1 DEF Inflight, EditorInv, RunInv, RunTypes
  <1>3. /\ runs' \in Seq(RunShapes) /\ DOMAIN runs' = DOMAIN runs /\ Len(runs') = Len(runs)
        /\ runs'[n] = [runs[n] EXCEPT !.open = FALSE] /\ \A k \in DOMAIN runs : k # n => runs'[k] = runs[k]
    <2>1. [runs[n] EXCEPT !.open = FALSE] \in RunShapes
      BY <1>2 DEF RunShapes
    <2>2. runs' = [runs EXCEPT ![n] = [runs[n] EXCEPT !.open = FALSE]]
      BY <1>1
    <2> DEFINE answered == [runs[n] EXCEPT !.open = FALSE]
    <2> HIDE DEF answered
    <2>3. runs' = [runs EXCEPT ![n] = answered] /\ answered \in RunShapes
      BY <2>1, <2>2 DEF answered
    <2>4. runs' \in Seq(RunShapes) /\ DOMAIN runs' = DOMAIN runs /\ Len(runs') = Len(runs) /\ runs'[n] = answered
          /\ \A k \in DOMAIN runs : k # n => runs'[k] = runs[k]
      BY <1>2, <2>3
    <2>. QED  BY <2>4 DEF answered
  <1>4. runs'[n].kind = runs[n].kind /\ runs'[n].readOnly = runs[n].readOnly /\ runs'[n].confirmed = runs[n].confirmed
        /\ runs'[n].open = FALSE
    BY <1>2, <1>3 DEF RunShapes
  <1>5. WritesAreConfirmed'
    <2> SUFFICES ASSUME NEW k \in DOMAIN runs', runs'[k].kind = "write", ~runs'[k].readOnly, confirmDml
                 PROVE  runs'[k].confirmed
      BY <1>1 DEF WritesAreConfirmed
    <2>1. k \in DOMAIN runs /\ runs[k].kind = "write" /\ ~runs[k].readOnly /\ runs'[k].confirmed = runs[k].confirmed
      BY <1>3, <1>4
    <2>. QED  BY <2>1 DEF EditorInv, RunInv, WritesAreConfirmed
  <1>6. RunningIsShown'
    <2>1. n \in DOMAIN runs' /\ n \notin Inflight'
      BY <1>2, <1>3, <1>4 DEF Inflight
    <2>2. ASSUME NEW k \in Inflight' PROVE Len(runs') > 1
      <3>1. k \in 1..Len(runs) /\ n \in 1..Len(runs) /\ k # n /\ Len(runs) \in Nat
        BY <1>2, <1>3, <2>1 DEF Inflight
      <3>. QED  BY <1>3, <3>1
    <2>. QED  BY <1>1, <2>1, <2>2 DEF RunningIsShown
  <1>7. RunInv'
    BY <1>1, <1>3, <1>5, <1>6 DEF EditorInv, RunInv, RunTypes
  <1>. QED  BY <1>1, <1>7, OnlyRuns

LEMMA EditorStep == ASSUME EditorInv, EditorNext PROVE EditorInv'
  <1>1. CASE CancelDialogs
    BY <1>1, OnlyRuns DEF CancelDialogs, EditorInv, RunInv, RunTypes, WritesAreConfirmed, RunningIsShown, Inflight
  <1>2. ASSUME NEW next \in BOOLEAN, RequestReadOnly(next) PROVE EditorInv'
    <2>1. readOnly' \in BOOLEAN
      BY <1>2 DEF RequestReadOnly, EditorInv, RunInv, RunTypes
    <2>. QED  BY <1>2, <2>1, OnlyRuns
              DEF RequestReadOnly, EditorInv, RunInv, RunTypes, WritesAreConfirmed, RunningIsShown, Inflight
  <1>3. CASE ConfirmReadOnlyOff
    BY <1>3, OnlyRuns
       DEF ConfirmReadOnlyOff, EditorInv, RunInv, RunTypes, WritesAreConfirmed, RunningIsShown, Inflight
  <1>4. CASE SuggestionArrives
    <2>1. UNCHANGED <<prod, confirmDml, bufferVars, runVars, swapped>> /\ consulted' = {} /\ suggestion' \in consulted
      BY <1>4 DEF SuggestionArrives
    <2>2. SuggestInv'
      BY <2>1 DEF EditorInv, SuggestInv, bufferVars
    <2>. QED  BY <2>1, <2>2, BufferRest, RunRest DEF EditorInv
  <1>5. CASE DismissSuggestion
    <2>1. UNCHANGED <<prod, confirmDml, bufferVars, runVars, swapped, consulted>> /\ suggestion' = NoText
      BY <1>5 DEF DismissSuggestion
    <2>2. SuggestInv'
      BY <2>1 DEF EditorInv, SuggestInv, bufferVars
    <2>. QED  BY <2>1, <2>2, BufferRest, RunRest DEF EditorInv
  <1>. QED  BY <1>1, <1>2, <1>3, <1>4, <1>5, OpenFits, LeaveFits, LoadFits, ListArrivalFits, TypeFits, HistoryFits,
               SaveKeepsText, SaveFailsKeepsText, SavedFits, RunFits, RunItFits, AnswerFits
            DEF EditorNext, AcceptSuggestion

-----------------------------------------------------------------------------
(* TableView                                                               *)

PieceShape == [pad: Nat, word: {"1", "x", "true", "false"}]
ColumnNames == DOMAIN TableColumns \cup {""}
ConditionShape == [column: ColumnNames, op: {"eq", "in", "is_null"}, value: Seq(PieceShape)]
SortShape == [column: DOMAIN TableColumns, dir: {"asc", "desc"}]

IsComplete(d) == d.column # "" /\ (d.op = "is_null" \/ d.value # <<>>)

LEMMA CoerceFits ==
  ASSUME NEW x \in PieceShape, NEW type
  PROVE  /\ Coerce(x, type) \in PieceShape /\ Coerce(Coerce(x, type), type) = Coerce(x, type)
         /\ \A y \in PieceShape : y.word = x.word => Coerce(y, type).word = Coerce(x, type).word
  <1>1. CASE type = "bool"
    <2>1. \A y : Coerce(y, type) = [pad |-> 0, word |-> IF y.word \in {"true", "1"} THEN "true" ELSE "false"]
      BY <1>1 DEF Coerce
    <2>. QED  BY <2>1 DEF PieceShape
  <1>2. CASE type = "int"
    <2>1. \A y : Coerce(y, type) = IF y.word = "1" THEN [pad |-> 0, word |-> "1"] ELSE y
      BY <1>2 DEF Coerce
    <2>. QED  BY <2>1 DEF PieceShape
  <1>3. CASE type # "bool" /\ type # "int"
    <2>1. \A y : Coerce(y, type) = y
      BY <1>3 DEF Coerce
    <2>. QED  BY <2>1
  <1>. QED  BY <1>1, <1>2, <1>3

LEMMA CoerceWholeFits ==
  ASSUME NEW txt \in Seq(PieceShape), NEW type
  PROVE  /\ CoerceWhole(txt, type) \in Seq(PieceShape)
         /\ CoerceWhole(CoerceWhole(txt, type), type) = CoerceWhole(txt, type)
         /\ txt # <<>> => CoerceWhole(txt, type) # <<>>
  <1>1. CASE Len(txt) = 1
    <2>1. txt[1] \in PieceShape /\ txt # <<>>
      BY <1>1
    <2>2. CoerceWhole(txt, type) = <<Coerce(txt[1], type)>>
      BY <1>1 DEF CoerceWhole
    <2>3. PICK c : c = Coerce(txt[1], type)
      OBVIOUS
    <2>4. c \in PieceShape /\ Coerce(c, type) = c
      BY <2>1, <2>3, CoerceFits
    <2>5. CoerceWhole(<<c>>, type) = <<c>>
      BY <2>4 DEF CoerceWhole
    <2>. QED  BY <2>2, <2>3, <2>4, <2>5
  <1>2. CASE Len(txt) # 1 /\ type = "bool"
    <2> DEFINE c == [pad |-> 0, word |-> "false"]
    <2>1. CoerceWhole(txt, type) = <<c>>
      BY <1>2 DEF CoerceWhole
    <2>2. c \in PieceShape /\ Coerce(c, type) = c
      BY <1>2 DEF Coerce, PieceShape
    <2> HIDE DEF c
    <2>3. CoerceWhole(<<c>>, type) = <<c>>
      BY <2>2 DEF CoerceWhole
    <2>. QED  BY <2>1, <2>2, <2>3
  <1>3. CASE Len(txt) # 1 /\ type # "bool"
    BY <1>3 DEF CoerceWhole
  <1>. QED  BY <1>1, <1>2, <1>3

\* The values of a list, one by one.
CoerceAll(values, type) == [n \in DOMAIN values |-> Coerce(values[n], type)]

LEMMA CoerceAllFits ==
  ASSUME NEW values \in Seq(PieceShape), NEW type
  PROVE  /\ CoerceAll(values, type) \in Seq(PieceShape) /\ DOMAIN CoerceAll(values, type) = DOMAIN values
         /\ \A n \in DOMAIN values : CoerceAll(values, type)[n] = Coerce(values[n], type)
         /\ values # <<>> => CoerceAll(values, type) # <<>>
  <1>1. DOMAIN values = 1..Len(values) /\ \A n \in DOMAIN values : values[n] \in PieceShape
    OBVIOUS
  <1>2. \A n \in DOMAIN values : Coerce(values[n], type) \in PieceShape
    BY <1>1, CoerceFits
  <1>3. CoerceAll(values, type) \in [1..Len(values) -> PieceShape]
    BY <1>1, <1>2 DEF CoerceAll
  <1>4. CoerceAll(values, type) \in Seq(PieceShape) /\ DOMAIN CoerceAll(values, type) = 1..Len(values)
    BY <1>3
  <1>5. values # <<>> => 1 \in DOMAIN CoerceAll(values, type)
    BY <1>4
  <1>. QED  BY <1>1, <1>4, <1>5 DEF CoerceAll

LEMMA JoinedFits ==
  ASSUME NEW values \in Seq(PieceShape)
  PROVE  /\ Joined(values) \in Seq(PieceShape) /\ DOMAIN Joined(values) = DOMAIN values
         /\ \A n \in DOMAIN values : Joined(values)[n].word = values[n].word
         /\ values # <<>> => Joined(values) # <<>> /\ Joined(values)[1] = values[1]
  <1>1. DOMAIN values = 1..Len(values) /\ Len(values) \in Nat /\ \A n \in DOMAIN values : values[n] \in PieceShape
    OBVIOUS
  <1>2. ASSUME NEW n \in DOMAIN values
        PROVE  /\ [values[n] EXCEPT !.pad = @ + 1] \in PieceShape
               /\ [values[n] EXCEPT !.pad = @ + 1].word = values[n].word
    BY <1>1 DEF PieceShape
  <1>3. DOMAIN Joined(values) = DOMAIN values
        /\ \A n \in DOMAIN values : Joined(values)[n] = IF n = 1 THEN values[n] ELSE [values[n] EXCEPT !.pad = @ + 1]
    BY DEF Joined
  <1>4. \A n \in DOMAIN values : Joined(values)[n] \in PieceShape /\ Joined(values)[n].word = values[n].word
    BY <1>1, <1>2, <1>3
  <1>5. Joined(values) \in [1..Len(values) -> PieceShape]
    BY <1>1, <1>3, <1>4 DEF Joined
  <1>6. values # <<>> => 1 \in DOMAIN values
    BY <1>1
  <1>7. values # <<>> => Joined(values) # <<>> /\ Joined(values)[1] = values[1]
    BY <1>3, <1>5, <1>6
  <1>. QED  BY <1>3, <1>4, <1>5, <1>7

\* A filter and its values, by operator.
LEMMA FilterFits ==
  ASSUME NEW d \in ConditionShape
  PROVE  /\ FilterOf(d) \in ConditionShape /\ FilterOf(d).column = d.column /\ FilterOf(d).op = d.op
         /\ IsComplete(d) => IsComplete(FilterOf(d))
         /\ d.op = "is_null" => FilterOf(d).value = <<>>
         /\ d.op = "in" => FilterOf(d).value = CoerceAll(d.value, TypeOf(d.column))
         /\ d.op = "eq" => FilterOf(d).value = CoerceWhole(d.value, TypeOf(d.column))
  <1>1. d.column \in ColumnNames /\ d.op \in {"eq", "in", "is_null"} /\ d.value \in Seq(PieceShape)
    BY DEF ConditionShape
  <1>2. PICK v : v = CASE d.op = "is_null" -> <<>>
                       [] d.op = "in" -> [n \in DOMAIN d.value |-> Coerce(d.value[n], TypeOf(d.column))]
                       [] OTHER -> CoerceWhole(d.value, TypeOf(d.column))
    OBVIOUS
  <1>3. FilterOf(d) = [column |-> d.column, op |-> d.op, value |-> v]
    BY <1>2 DEF FilterOf
  <1>4. /\ d.op = "is_null" => v = <<>>
        /\ d.op = "in" => v = CoerceAll(d.value, TypeOf(d.column))
        /\ d.op = "eq" => v = CoerceWhole(d.value, TypeOf(d.column))
    BY <1>1, <1>2 DEF CoerceAll
  <1>5. v \in Seq(PieceShape) /\ (d.op # "is_null" /\ d.value # <<>> => v # <<>>)
    <2>1. <<>> \in Seq(PieceShape)
      OBVIOUS
    <2>. QED  BY <1>1, <1>4, <2>1, CoerceAllFits, CoerceWholeFits
  <1>6. FilterOf(d) \in ConditionShape
    BY <1>1, <1>3, <1>5 DEF ConditionShape
  <1>7. FilterOf(d).column = d.column /\ FilterOf(d).op = d.op /\ FilterOf(d).value = v
    BY <1>3
  <1>. QED  BY <1>1, <1>4, <1>5, <1>6, <1>7 DEF IsComplete

Seeded(f) == [f EXCEPT !.value = IF f.op = "in" THEN Joined(@) ELSE @]

LEMMA SeededFits ==
  ASSUME NEW f \in ConditionShape
  PROVE  /\ Seeded(f) \in ConditionShape /\ Seeded(f).column = f.column /\ Seeded(f).op = f.op
         /\ Seeded(f).value = IF f.op = "in" THEN Joined(f.value) ELSE f.value
         /\ IsComplete(f) => IsComplete(Seeded(f))
  <1>1. f.column \in ColumnNames /\ f.op \in {"eq", "in", "is_null"} /\ f.value \in Seq(PieceShape)
        /\ f = [column |-> f.column, op |-> f.op, value |-> f.value]
    BY DEF ConditionShape
  <1>2. PICK v : v = IF f.op = "in" THEN Joined(f.value) ELSE f.value
    OBVIOUS
  <1>3. v \in Seq(PieceShape) /\ (f.value # <<>> => v # <<>>)
    BY <1>1, <1>2, JoinedFits
  <1>4. Seeded(f) = [column |-> f.column, op |-> f.op, value |-> v]
    BY <1>1, <1>2 DEF Seeded
  <1>5. Seeded(f) \in ConditionShape
    BY <1>1, <1>3, <1>4 DEF ConditionShape
  <1>6. Seeded(f).column = f.column /\ Seeded(f).op = f.op /\ Seeded(f).value = v
    BY <1>4
  <1>. QED  BY <1>2, <1>3, <1>5, <1>6 DEF IsComplete

WordsOf(f) == [f EXCEPT !.value = [n \in DOMAIN @ |-> @[n].word]]

LEMMA WordsAre ==
  ASSUME NEW c, NEW o, NEW v
  PROVE  WordsOf([column |-> c, op |-> o, value |-> v]) =
           [column |-> c, op |-> o, value |-> [n \in DOMAIN v |-> v[n].word]]
  BY DEF WordsOf

LEMMA AgainIsTheSame ==
  ASSUME NEW d \in ConditionShape, IsComplete(d)
  PROVE  LET f == FilterOf(d)
             a == FilterOf(Seeded(f))
         IN \/ a = f
            \/ f.op = "in" /\ WordsOf(a) = WordsOf(f) /\ a.value[1] = f.value[1]
  <1>1. PICK f : f = FilterOf(d)
    OBVIOUS
  <1>2. /\ f \in ConditionShape /\ f.column = d.column /\ f.op = d.op /\ IsComplete(f)
        /\ d.op = "is_null" => f.value = <<>>
        /\ d.op = "in" => f.value = CoerceAll(d.value, TypeOf(d.column))
        /\ d.op = "eq" => f.value = CoerceWhole(d.value, TypeOf(d.column))
    BY <1>1, FilterFits
  <1>3. PICK g : g = Seeded(f)
    OBVIOUS
  <1>4. /\ g \in ConditionShape /\ g.column = f.column /\ g.op = f.op
        /\ g.value = IF f.op = "in" THEN Joined(f.value) ELSE f.value
    BY <1>2, <1>3, SeededFits
  <1>5. PICK a : a = FilterOf(g)
    OBVIOUS
  <1>6. /\ a \in ConditionShape /\ a.column = g.column /\ a.op = g.op
        /\ g.op = "is_null" => a.value = <<>>
        /\ g.op = "in" => a.value = CoerceAll(g.value, TypeOf(g.column))
        /\ g.op = "eq" => a.value = CoerceWhole(g.value, TypeOf(g.column))
    BY <1>4, <1>5, FilterFits
  <1>7. f.op \in {"eq", "in", "is_null"} /\ f.value \in Seq(PieceShape) /\ d.value \in Seq(PieceShape)
        /\ f = [column |-> f.column, op |-> f.op, value |-> f.value]
        /\ a = [column |-> a.column, op |-> a.op, value |-> a.value]
    BY <1>2, <1>6 DEF ConditionShape
  <1>8. CASE f.op # "in"
    <2>1. a.value = f.value
      BY <1>2, <1>4, <1>6, <1>7, <1>8, CoerceWholeFits
    <2>. QED  BY <1>1, <1>3, <1>4, <1>5, <1>6, <1>7, <2>1
  <1>9. CASE f.op = "in"
    <2> DEFINE type == TypeOf(d.column)
    <2>0. d.op = "in" /\ g.op = "in" /\ d.value # <<>>
      BY <1>2, <1>4, <1>9 DEF IsComplete
    <2>1. f.value = CoerceAll(d.value, type) /\ g.value = Joined(f.value) /\ a.value = CoerceAll(g.value, type)
      BY <1>2, <1>4, <1>6, <1>9, <2>0
    <2> HIDE DEF type
    <2>2. /\ DOMAIN f.value = DOMAIN d.value /\ f.value # <<>>
          /\ \A n \in DOMAIN d.value : d.value[n] \in PieceShape /\ f.value[n] = Coerce(d.value[n], type)
      <3>1. \A n \in DOMAIN d.value : d.value[n] \in PieceShape
        BY <1>7
      <3>. QED  BY <1>7, <2>0, <2>1, <3>1, CoerceAllFits
    <2>3. /\ g.value \in Seq(PieceShape) /\ DOMAIN g.value = DOMAIN f.value /\ g.value[1] = f.value[1]
          /\ \A n \in DOMAIN f.value : g.value[n].word = f.value[n].word
      BY <1>7, <2>1, <2>2, JoinedFits
    <2>4. DOMAIN a.value = DOMAIN g.value /\ \A n \in DOMAIN g.value : a.value[n] = Coerce(g.value[n], type) /\ g.value[n] \in PieceShape
      <3>1. \A n \in DOMAIN g.value : g.value[n] \in PieceShape
        BY <2>3
      <3>. QED  BY <2>1, <2>3, <3>1, CoerceAllFits
    <2>5. ASSUME NEW n \in DOMAIN f.value
          PROVE  a.value[n].word = f.value[n].word /\ (g.value[n] = f.value[n] => a.value[n] = f.value[n])
      <3>1. PICK x \in PieceShape : x = d.value[n] /\ f.value[n] = Coerce(x, type)
        BY <2>2, <2>5
      <3>2. Coerce(x, type) \in PieceShape /\ Coerce(Coerce(x, type), type) = Coerce(x, type)
        BY CoerceFits
      <3>3. g.value[n] \in PieceShape /\ g.value[n].word = Coerce(x, type).word /\ a.value[n] = Coerce(g.value[n], type)
        BY <2>3, <2>4, <2>5, <3>1
      <3>4. Coerce(g.value[n], type).word = Coerce(Coerce(x, type), type).word
        BY <3>2, <3>3, CoerceFits
      <3>. QED  BY <3>1, <3>2, <3>3, <3>4
    <2>6. 1 \in DOMAIN f.value
      BY <1>7, <2>2
    <2>7. a.value[1] = f.value[1]
      BY <2>3, <2>5, <2>6
    <2>8. [n \in DOMAIN a.value |-> a.value[n].word] = [n \in DOMAIN f.value |-> f.value[n].word]
      BY <2>3, <2>4, <2>5
    <2>9. WordsOf(f) = [column |-> f.column, op |-> f.op, value |-> [n \in DOMAIN f.value |-> f.value[n].word]]
      <3>1. \A c, o, v : f = [column |-> c, op |-> o, value |-> v] =>
                WordsOf(f) = [column |-> c, op |-> o, value |-> [n \in DOMAIN v |-> v[n].word]]
        BY WordsAre
      <3>. QED  BY <1>7, <3>1, Zenon
    <2>10. WordsOf(a) = [column |-> a.column, op |-> a.op, value |-> [n \in DOMAIN a.value |-> a.value[n].word]]
      <3>1. \A c, o, v : a = [column |-> c, op |-> o, value |-> v] =>
                WordsOf(a) = [column |-> c, op |-> o, value |-> [n \in DOMAIN v |-> v[n].word]]
        BY WordsAre
      <3>. QED  BY <1>7, <3>1, Zenon
    <2>11. WordsOf(a) = WordsOf(f)
      BY <1>4, <1>6, <2>8, <2>9, <2>10
    <2>. QED  BY <1>1, <1>3, <1>5, <1>9, <2>7, <2>11
  <1>. QED  BY <1>8, <1>9

Complete(filled) == {d \in Elements(filled) : IsComplete(d)}

\* The filters that are asked for: one for every complete condition.
LEMMA SpecsAre ==
  ASSUME NEW filled \in Seq(ConditionShape)
  PROVE  \E done \in Seq(ConditionShape) :
           /\ ToFilterSpecs(filled) = [n \in DOMAIN done |-> FilterOf(done[n])]
           /\ ToFilterSpecs(filled) \in Seq(ConditionShape) /\ DOMAIN ToFilterSpecs(filled) = DOMAIN done
           /\ \A n \in DOMAIN done : IsComplete(done[n])
           /\ (\A n \in DOMAIN filled : IsComplete(filled[n])) => done = filled
           /\ (\A n \in DOMAIN filled : ~IsComplete(filled[n])) => done = <<>>
  <1>1. PICK done : done = Kept(filled, Complete(filled))
    OBVIOUS
  <1>2. KeptOf(done, filled, Len(filled), Complete(filled), ConditionShape)
    BY <1>1, KeptResult
  <1>3. done \in Seq(ConditionShape) /\ DOMAIN done = 1..Len(done) /\ DOMAIN filled = 1..Len(filled) /\ Len(filled) \in Nat
    BY <1>2 DEF KeptOf
  <1>4. \A n \in DOMAIN done : IsComplete(done[n])
    BY <1>2, <1>3 DEF KeptOf, Complete
  <1>5. \A n \in DOMAIN filled : filled[n] \in Complete(filled) <=> IsComplete(filled[n])
    BY DEF Complete, Elements
  <1>6. ASSUME \A n \in DOMAIN filled : IsComplete(filled[n]) PROVE done = filled
    <2>1. \A n \in 1..Len(filled) : filled[n] \in Complete(filled)
      BY <1>3, <1>5, <1>6
    <2>2. Len(done) = Len(filled) /\ \A n \in 1..Len(filled) : done[n] = filled[n]
      BY <1>2, <2>1 DEF KeptOf
    <2>. QED  BY <1>3, <2>2
  <1>7. ASSUME \A n \in DOMAIN filled : ~IsComplete(filled[n]) PROVE done = <<>>
    <2>1. ASSUME NEW n \in DOMAIN done PROVE FALSE
      BY <1>2, <1>3, <1>5, <1>7 DEF KeptOf
    <2>2. Len(done) = 0
      <3>1. Len(done) \in Nat /\ (Len(done) # 0 => 1 \in DOMAIN done)
        BY <1>3
      <3>. QED  BY <2>1, <3>1
    <2>. QED  BY <1>3, <2>2
  <1>8. ToFilterSpecs(filled) = [n \in DOMAIN done |-> FilterOf(done[n])]
    BY <1>1 DEF ToFilterSpecs, Complete, IsComplete
  <1>9. \A n \in DOMAIN done : FilterOf(done[n]) \in ConditionShape
    BY <1>3, FilterFits
  <1>10. ToFilterSpecs(filled) \in [1..Len(done) -> ConditionShape]
    BY <1>3, <1>8, <1>9
  <1>11. ToFilterSpecs(filled) \in Seq(ConditionShape) /\ DOMAIN ToFilterSpecs(filled) = DOMAIN done
    BY <1>3, <1>10
  <1>. QED  BY <1>3, <1>4, <1>6, <1>7, <1>8, <1>11

LEMMA SeedFits ==
  ASSUME NEW specs \in Seq(ConditionShape)
  PROVE  /\ Seed(specs) \in Seq(ConditionShape)
         /\ specs # <<>> => Seed(specs) = [n \in DOMAIN specs |-> Seeded(specs[n])]
         /\ specs = <<>> => Seed(specs) = <<Blank>> /\ ~IsComplete(Blank)
  <1>1. FirstColumn \in ColumnNames
    BY DEF FirstColumn, Columns, ColumnNames
  <1>2. Blank \in ConditionShape /\ ~IsComplete(Blank)
    <2>1. <<>> \in Seq(PieceShape)
      OBVIOUS
    <2>. QED  BY <1>1, <2>1 DEF Blank, ConditionShape, IsComplete
  <1>3. specs = <<>> => Seed(specs) = <<Blank>>
    BY DEF Seed
  <1>4. specs # <<>> => Seed(specs) = [n \in DOMAIN specs |-> Seeded(specs[n])]
    BY DEF Seed, Seeded
  <1>5. [n \in DOMAIN specs |-> Seeded(specs[n])] \in Seq(ConditionShape)
    <2>1. \A n \in DOMAIN specs : Seeded(specs[n]) \in ConditionShape
      BY SeededFits
    <2>2. [n \in DOMAIN specs |-> Seeded(specs[n])] \in [1..Len(specs) -> ConditionShape]
      BY <2>1
    <2>. QED  BY <2>2
  <1>6. <<Blank>> \in Seq(ConditionShape)
    BY <1>2
  <1>. QED  BY <1>2, <1>3, <1>4, <1>5, <1>6

LEMMA ReapplyFits ==
  ASSUME conditions \in Seq(ConditionShape)
  PROVE  ReapplyKeepsFilters
  <1>1. PICK once : once = ToFilterSpecs(conditions)
    OBVIOUS
  <1>2. PICK done \in Seq(ConditionShape) :
          /\ once = [n \in DOMAIN done |-> FilterOf(done[n])]
          /\ once \in Seq(ConditionShape) /\ DOMAIN once = DOMAIN done
          /\ \A n \in DOMAIN done : IsComplete(done[n])
    BY <1>1, SpecsAre
  <1>3. PICK seed : seed = Seed(once)
    OBVIOUS
  <1>4. seed \in Seq(ConditionShape)
    BY <1>2, <1>3, SeedFits
  <1>5. PICK again : again = ToFilterSpecs(seed)
    OBVIOUS
  <1>6. PICK kept \in Seq(ConditionShape) :
          /\ again = [n \in DOMAIN kept |-> FilterOf(kept[n])]
          /\ (\A n \in DOMAIN seed : IsComplete(seed[n])) => kept = seed
          /\ (\A n \in DOMAIN seed : ~IsComplete(seed[n])) => kept = <<>>
    BY <1>4, <1>5, SpecsAre
  <1>7. /\ DOMAIN again = DOMAIN once
        /\ \A i \in DOMAIN once :
              again[i] = once[i] \/ (once[i].op = "in" /\ WordsOf(again[i]) = WordsOf(once[i])
                                    /\ again[i].value[1] = once[i].value[1])
    <2>1. CASE once = <<>>
      <3>1. seed = <<Blank>> /\ ~IsComplete(Blank)
        BY <1>2, <1>3, <2>1, SeedFits
      <3>2. \A n \in DOMAIN seed : ~IsComplete(seed[n])
        BY <3>1
      <3>3. kept = <<>>
        BY <1>6, <3>2
      <3>4. DOMAIN again = {} /\ DOMAIN once = {}
        BY <1>6, <2>1, <3>3
      <3>. QED  BY <3>4
    <2>2. CASE once # <<>>
      <3>1. seed = [n \in DOMAIN once |-> Seeded(once[n])]
        BY <1>2, <1>3, <2>2, SeedFits
      <3>2. \A n \in DOMAIN seed : IsComplete(seed[n])
        <4> SUFFICES ASSUME NEW n \in DOMAIN once PROVE IsComplete(Seeded(once[n]))
          BY <3>1
        <4>1. done[n] \in ConditionShape /\ IsComplete(done[n]) /\ once[n] = FilterOf(done[n]) /\ once[n] \in ConditionShape
          BY <1>2
        <4>2. IsComplete(once[n])
          BY <4>1, FilterFits
        <4>. QED  BY <4>1, <4>2, SeededFits
      <3>3. kept = seed
        BY <1>6, <3>2
      <3>4. DOMAIN again = DOMAIN once /\ \A n \in DOMAIN once : again[n] = FilterOf(Seeded(once[n]))
        BY <1>6, <3>1, <3>3
      <3>5. ASSUME NEW i \in DOMAIN once
            PROVE  again[i] = once[i] \/ (once[i].op = "in" /\ WordsOf(again[i]) = WordsOf(once[i])
                                          /\ again[i].value[1] = once[i].value[1])
        <4>1. done[i] \in ConditionShape /\ IsComplete(done[i]) /\ once[i] = FilterOf(done[i])
          BY <1>2
        <4>2. again[i] = FilterOf(Seeded(FilterOf(done[i])))
          BY <3>4, <4>1
        <4>. QED  BY <4>1, <4>2, AgainIsTheSame
      <3>. QED  BY <3>4, <3>5
    <2>. QED  BY <2>1, <2>2
  <1> DEFINE one == ToFilterSpecs(conditions)
             two == ToFilterSpecs(Seed(one))
  <1>8. one = once /\ two = again
    BY <1>1, <1>3, <1>5
  <1>9. /\ DOMAIN two = DOMAIN one
        /\ \A i \in DOMAIN one :
              two[i] = one[i] \/ (one[i].op = "in" /\ WordsOf(two[i]) = WordsOf(one[i]) /\ two[i].value[1] = one[i].value[1])
    <2> HIDE DEF one, two
    <2>. QED  BY <1>7, <1>8
  <1>10. ASSUME NEW i \in DOMAIN one
         PROVE  \/ two[i] = one[i]
                \/ /\ one[i].op = "in"
                   /\ [two[i] EXCEPT !.value = [n \in DOMAIN @ |-> @[n].word]]
                        = [one[i] EXCEPT !.value = [n \in DOMAIN @ |-> @[n].word]]
                   /\ two[i].value[1] = one[i].value[1]
    <2> HIDE DEF one, two
    <2>. QED  BY <1>9, <1>10 DEF WordsOf
  <1>. QED  BY <1>9, <1>10, Zenon DEF ReapplyKeepsFilters

OnePerColumn(s) == \A i, j \in DOMAIN s : s[i].column = s[j].column => i = j

\* Past the end of a list that at most one entry was added to is that entry.
LEMMA OneMore ==
  ASSUME NEW lo \in Nat, NEW more \in 0..1, NEW n \in 1..(lo + more), ~(n <= lo)
  PROVE  n = lo + 1 /\ n - lo = 1 /\ more = 1
  OBVIOUS

LEMMA SortFits ==
  ASSUME sort \in Seq(SortShape), OnePerColumn(sort), NEW column \in DOMAIN TableColumns, NEW additive \in BOOLEAN
  PROVE  NextSort(column, additive) \in Seq(SortShape) /\ OnePerColumn(NextSort(column, additive))
  <1> DEFINE its == {s \in Elements(sort) : s.column = column}
  <1>1. PICK now : now = Kept(sort, its)
    OBVIOUS
  <1>2. PICK next : next = IF now = <<>> THEN <<[column |-> column, dir |-> "asc"]>>
                           ELSE IF now[1].dir = "asc" THEN <<[column |-> column, dir |-> "desc"]>>
                           ELSE <<>>
    OBVIOUS
  <1>3. PICK others : others = Kept(sort, Elements(sort) \ its)
    OBVIOUS
  <1>4. NextSort(column, additive) = IF additive THEN others \o next ELSE next
    BY <1>1, <1>2, <1>3 DEF NextSort
  <1>5. KeptOf(others, sort, Len(sort), Elements(sort) \ its, SortShape)
    BY <1>3, KeptResult
  <1>6. next \in Seq(SortShape) /\ Len(next) \in {0, 1} /\ (Len(next) = 1 => next[1].column = column)
    <2>1. [column |-> column, dir |-> "asc"] \in SortShape /\ [column |-> column, dir |-> "desc"] \in SortShape
      BY DEF SortShape
    <2>2. PICK up, down \in SortShape : up = [column |-> column, dir |-> "asc"] /\ down = [column |-> column, dir |-> "desc"]
      BY <2>1
    <2>3. next = <<up>> \/ next = <<down>> \/ next = <<>>
      BY <1>2, <2>2
    <2>4. up.column = column /\ down.column = column
      BY <2>2
    <2>5. ASSUME NEW x \in SortShape, x.column = column, next = <<x>>
          PROVE  next \in Seq(SortShape) /\ Len(next) = 1 /\ next[1].column = column
      BY <2>5
    <2>6. CASE next = <<>>
      <3>1. next \in Seq(SortShape) /\ Len(next) = 0
        BY <2>6
      <3>. QED  BY <3>1
    <2>. QED  BY <2>3, <2>4, <2>5, <2>6
  <1>7. others \in Seq(SortShape) /\ DOMAIN sort = 1..Len(sort) /\ Len(sort) \in Nat
    BY <1>5 DEF KeptOf
  <1>8. \A a \in 1..Len(others) : others[a].column # column /\ \E x \in 1..Len(sort) : others[a] = sort[x]
    BY <1>5 DEF KeptOf
  <1>9. \A a, b \in 1..Len(others) : others[a] = others[b] => a = b
    <2>1. \A x, y \in 1..Len(sort) : sort[x] = sort[y] => x = y
      BY <1>7 DEF OnePerColumn
    <2>. QED  BY <1>5, <2>1 DEF KeptOf
  <1>10. \A a, b \in 1..Len(others) : others[a].column = others[b].column => a = b
    <2> SUFFICES ASSUME NEW a \in 1..Len(others), NEW b \in 1..Len(others), others[a].column = others[b].column
                 PROVE  others[a] = others[b]
      BY <1>9
    <2>1. PICK x \in 1..Len(sort) : others[a] = sort[x]
      BY <1>8
    <2>2. PICK y \in 1..Len(sort) : others[b] = sort[y]
      BY <1>8
    <2>. QED  BY <1>7, <2>1, <2>2 DEF OnePerColumn
  <1> HIDE DEF its
  <1>11. CASE ~additive
    <2>1. DOMAIN next = 1..Len(next)
      BY <1>6
    <2>. QED  BY <1>4, <1>6, <1>11, <2>1 DEF OnePerColumn
  <1>12. CASE additive
    <2>1. PICK all : all = others \o next
      OBVIOUS
    <2>2. /\ all \in Seq(SortShape) /\ Len(all) = Len(others) + Len(next) /\ DOMAIN all = 1..Len(all)
          /\ \A n \in 1..(Len(others) + Len(next)) : all[n] = IF n <= Len(others) THEN others[n] ELSE next[n - Len(others)]
      BY <1>6, <1>7, <2>1, ConcatProperties
    <2>3. ASSUME NEW n \in DOMAIN all
          PROVE  \/ n \in 1..Len(others) /\ all[n] = others[n]
                 \/ n = Len(others) + 1 /\ all[n].column = column
      <3>1. Len(others) \in Nat /\ n \in 1..(Len(others) + Len(next))
        BY <1>7, <2>2, <2>3
      <3>2. CASE n <= Len(others)
        BY <2>2, <3>1, <3>2
      <3>3. CASE ~(n <= Len(others))
        <4>0. Len(others) \in Nat /\ Len(next) \in 0..1
          BY <1>6, <1>7
        <4>1. n = Len(others) + 1 /\ n - Len(others) = 1 /\ Len(next) = 1
          BY <3>1, <3>3, <4>0, OneMore
        <4>2. all[n] = next[n - Len(others)]
          BY <2>2, <3>1, <3>3
        <4>. QED  BY <1>6, <4>1, <4>2
      <3>. QED  BY <3>2, <3>3
    <2>4. OnePerColumn(all)
      BY <1>8, <1>10, <2>3 DEF OnePerColumn
    <2>. QED  BY <1>4, <1>12, <2>1, <2>2, <2>4
  <1>. QED  BY <1>11, <1>12

PagingInv ==
  /\ pageSize \in Nat \ {0} /\ (\E n \in Nat : offset = n * pageSize)
  /\ sort \in Seq(SortShape) /\ OnePerColumn(sort)

FilterInv == viewFilters \in Seq(ConditionShape) /\ conditions \in Seq(ConditionShape)

\* The rows the grid reported are of one page; while it is mounted they are
\* selected, and its menu is of a selected row in sight.
PickedFrom(p) == \A r \in selectedRows : \E i \in 1..p.count : r = Row(p, i) /\ (Mounted => i \in selected)
SelectInv ==
  /\ \E p : PickedFrom(p)
  /\ menu # NoRow => Mounted /\ menu \in Visible /\ menu \in selected

ViewInv == PagingInv /\ FilterInv /\ SelectInv

LEMMA ViewKeeps == ViewInv => ActsOnWhatIsShown /\ PagingIsAligned /\ ReapplyKeepsFilters
  <1> SUFFICES ASSUME ViewInv PROVE ActsOnWhatIsShown /\ PagingIsAligned /\ ReapplyKeepsFilters
    OBVIOUS
  <1>1. ReapplyKeepsFilters
    BY ReapplyFits DEF ViewInv, FilterInv
  <1>2. PagingIsAligned
    <2>1. PICK n \in Nat : offset = n * pageSize
      BY DEF ViewInv, PagingInv
    <2>2. pageSize \in Nat \ {0}
      BY DEF ViewInv, PagingInv
    <2>3. (n * pageSize) % pageSize = 0
      BY <2>2
    <2>. QED  BY <2>1, <2>3 DEF ViewInv, PagingInv, PagingIsAligned, OnePerColumn
  <1>3. ActsOnWhatIsShown
    <2> SUFFICES ASSUME menu # NoRow
                 PROVE  /\ Row(Shown, menu) \in Targets(menu)
                        /\ Targets(menu) \subseteq {Row(Shown, i) : i \in selected \cap 1..Shown.count}
      BY DEF ActsOnWhatIsShown
    <2>1. Mounted /\ menu \in 1..Shown.count /\ menu \in selected
      BY DEF ViewInv, SelectInv, Visible
    <2>2. CASE Row(Shown, menu) \in selectedRows
      <3>1. PICK p : PickedFrom(p)
        BY DEF ViewInv, SelectInv
      <3>2. \A x, y, i, j : Row(x, i) = Row(y, j) => x = y
        BY DEF Row
      <3>3. p = Shown
        BY <2>2, <3>1, <3>2 DEF PickedFrom
      <3>4. ASSUME NEW r \in selectedRows PROVE \E i \in selected \cap 1..Shown.count : r = Row(Shown, i)
        BY <2>1, <3>1, <3>3 DEF PickedFrom
      <3>5. Targets(menu) = selectedRows
        BY <2>2 DEF Targets
      <3>. QED  BY <2>2, <3>4, <3>5
    <2>3. CASE Row(Shown, menu) \notin selectedRows
      <3>1. Targets(menu) = {Row(Shown, menu)}
        BY <2>3 DEF Targets
      <3>. QED  BY <2>1, <3>1
    <2>. QED  BY <2>2, <2>3
  <1>. QED  BY <1>1, <1>2, <1>3

LEMMA ViewStart == ViewInit => ViewInv
  <1> SUFFICES ASSUME ViewInit PROVE ViewInv
    OBVIOUS
  <1>1. pageSize \in Nat \ {0} /\ offset = 0 /\ offset = 0 * pageSize /\ sort = <<>>
    BY ViewAssumption DEF ViewInit
  <1>2. PagingInv
    <2>1. sort \in Seq(SortShape) /\ DOMAIN sort = {}
      BY <1>1
    <2>. QED  BY <1>1, <2>1 DEF PagingInv, OnePerColumn
  <1>3. FilterInv
    BY DEF ViewInit, FilterInv
  <1>4. SelectInv
    BY DEF ViewInit, SelectInv, PickedFrom
  <1>. QED  BY <1>2, <1>3, <1>4 DEF ViewInv

LEMMA ViewRest == ASSUME ViewInv, UNCHANGED viewVars PROVE ViewInv'
  <1>1. PagingInv' /\ FilterInv'
    BY DEF ViewInv, PagingInv, FilterInv, viewVars, OnePerColumn
  <1>2. SelectInv'
    BY DEF ViewInv, SelectInv, viewVars, PickedFrom, Mounted, Shown, Cached, Key, Visible
  <1>. QED  BY <1>1, <1>2 DEF ViewInv

\* A render keeps what is selected, unless other rows come on screen.
LEMMA RenderKeeps ==
  ASSUME SelectInv, Rendered, menu # NoRow => ResetKey' = ResetKey
  PROVE  SelectInv'
  <1>1. /\ menu' = IF Mounted' /\ menu \in Visible' THEN menu ELSE NoRow
        /\ \/ ~Mounted' /\ selected' = {} /\ UNCHANGED selectedRows
           \/ Mounted' /\ selectedRows' = {} /\ (~Mounted \/ ResetKey' # ResetKey)
           \/ Mounted' /\ Mounted /\ UNCHANGED <<selected, selectedRows>>
    BY DEF Rendered
  <1>2. PICK p : PickedFrom(p)
    BY DEF SelectInv
  <1>3. \E x : PickedFrom(x)'
    <2>1. PickedFrom(p)'
      BY <1>1, <1>2 DEF PickedFrom, Row
    <2>. QED  BY <2>1
  <1>4. ASSUME menu' # NoRow PROVE Mounted' /\ menu' \in Visible' /\ menu' \in selected'
    <2>1. menu # NoRow /\ menu' = menu /\ Mounted' /\ menu \in Visible'
      BY <1>1, <1>4
    <2>2. Mounted /\ menu \in selected /\ ResetKey' = ResetKey
      BY <2>1 DEF SelectInv
    <2>. QED  BY <1>1, <2>1, <2>2
  <1>5. \A x : PickedFrom(x)' <=> \A r \in selectedRows' : \E i \in 1..x.count : r = Row(x, i) /\ (Mounted' => i \in selected')
    BY DEF PickedFrom, Row
  <1>. QED  BY <1>3, <1>4 DEF SelectInv

\* What the screen shows follows from these variables.
LEMMA SameScreen ==
  ASSUME UNCHANGED <<view, q, sort, viewFilters, offset, pageSize, pages, prev, fetch>>
  PROVE  Mounted' = Mounted /\ Shown' = Shown /\ Visible' = Visible
  BY DEF Mounted, Shown, Cached, Key, Visible

\* The grid: a selection is of rows in sight.
LEMMA GridKeeps ==
  ASSUME ViewInv, Grid, NEW places, Select(places), menu' = NoRow \/ (menu' \in Visible /\ menu' \in places)
  PROVE  ViewInv'
  <1>1. UNCHANGED <<view, q, sort, viewFilters, offset, pageSize, pages, prev, fetch, conditions>> /\ Mounted
    BY DEF Grid
  <1>2. Mounted' = Mounted /\ Shown' = Shown /\ Visible' = Visible
    BY <1>1, SameScreen
  <1>3. PagingInv' /\ FilterInv'
    BY <1>1 DEF ViewInv, PagingInv, FilterInv, OnePerColumn
  <1>4. selected' = places /\ selectedRows' = {Row(Shown, i) : i \in places \cap Visible}
    BY DEF Select
  <1>5. PickedFrom(Shown)'
    BY <1>2, <1>4 DEF PickedFrom, Visible, Row
  <1>6. \E x : PickedFrom(x)'
    BY <1>5
  <1>7. menu' # NoRow => Mounted' /\ menu' \in Visible' /\ menu' \in selected'
    BY <1>1, <1>2, <1>4
  <1>. QED  BY <1>3, <1>6, <1>7 DEF ViewInv, SelectInv

LEMMA GridSteps ==
  ASSUME ViewInv, (\E i \in 1..3, shift \in BOOLEAN : ClickRow(i, shift)) \/ ToggleAll \/ CloseMenu \/ \E i \in 1..3 : OpenMenu(i)
  PROVE  ViewInv'
  <1>1. ASSUME NEW i \in 1..3, NEW shift \in BOOLEAN, ClickRow(i, shift) PROVE ViewInv'
    <2>1. PICK places : Select(places) /\ menu' = NoRow /\ Grid
      BY <1>1 DEF ClickRow
    <2>. QED  BY <2>1, GridKeeps
  <1>2. CASE ToggleAll
    <2>1. PICK places : Select(places) /\ menu' = NoRow /\ Grid
      BY <1>2 DEF ToggleAll
    <2>. QED  BY <2>1, GridKeeps
  <1>3. ASSUME Grid, UNCHANGED <<selected, selectedRows>>, menu' = NoRow \/ (menu' \in Visible /\ menu' \in selected)
        PROVE  ViewInv'
    <2>1. UNCHANGED <<view, q, sort, viewFilters, offset, pageSize, pages, prev, fetch, conditions>> /\ Mounted
      BY <1>3 DEF Grid
    <2>2. Mounted' = Mounted /\ Shown' = Shown /\ Visible' = Visible
      BY <2>1, SameScreen
    <2>3. PagingInv' /\ FilterInv'
      BY <2>1 DEF ViewInv, PagingInv, FilterInv, OnePerColumn
    <2>4. PICK p : PickedFrom(p)
      BY DEF ViewInv, SelectInv
    <2>5. PickedFrom(p)'
      BY <1>3, <2>2, <2>4 DEF PickedFrom, Row
    <2>6. \E x : PickedFrom(x)'
      BY <2>5
    <2>7. menu' # NoRow => Mounted' /\ menu' \in Visible' /\ menu' \in selected'
      BY <1>3, <2>1, <2>2
    <2>. QED  BY <2>3, <2>6, <2>7 DEF ViewInv, SelectInv
  <1>4. CASE CloseMenu
    BY <1>3, <1>4 DEF CloseMenu
  <1>5. ASSUME NEW i \in 1..3, OpenMenu(i) PROVE ViewInv'
    <2>1. CASE i \in selected
      BY <1>3, <1>5, <2>1 DEF OpenMenu
    <2>2. CASE i \notin selected
      BY <1>5, <2>2, GridKeeps DEF OpenMenu
    <2>. QED  BY <2>1, <2>2
  <1>. QED  BY <1>1, <1>2, <1>4, <1>5

\* A step of the toolbar, with what it leaves of paging and filters.
LEMMA ToolbarKeeps ==
  ASSUME ViewInv, Toolbar, PagingInv', FilterInv' PROVE ViewInv'
  <1>1. menu = NoRow /\ Rendered
    BY DEF Toolbar
  <1>2. SelectInv'
    BY <1>1, RenderKeeps DEF ViewInv
  <1>. QED  BY <1>2 DEF ViewInv

LEMMA PagesKeep ==
  ASSUME ViewInv,
         \/ \E c \in DOMAIN TableColumns, additive \in BOOLEAN : ToggleSort(c, additive)
         \/ PrevPage \/ NextPage \/ FilterPage \/ \E v \in {"data", "structure"} : SetView(v)
  PROVE  ViewInv'
  <1>0. PICK n \in Nat : offset = n * pageSize
    BY DEF ViewInv, PagingInv
  <1>1. pageSize \in Nat \ {0} /\ sort \in Seq(SortShape) /\ OnePerColumn(sort)
        /\ viewFilters \in Seq(ConditionShape) /\ conditions \in Seq(ConditionShape)
    BY DEF ViewInv, PagingInv, FilterInv
  <1>2. ASSUME NEW c \in DOMAIN TableColumns, NEW additive \in BOOLEAN, ToggleSort(c, additive) PROVE ViewInv'
    <2>1. sort' = NextSort(c, additive) /\ offset' = 0 /\ UNCHANGED <<viewFilters, pageSize, conditions>> /\ Toolbar
      BY <1>2 DEF ToggleSort, Closed
    <2>2. offset' = 0 * pageSize'
      BY <1>1, <2>1
    <2>3. sort' \in Seq(SortShape) /\ OnePerColumn(sort')
      BY <1>1, <2>1, SortFits
    <2>4. PagingInv'
      <3>1. OnePerColumn(sort)'
        BY <2>3 DEF OnePerColumn
      <3>. QED  BY <1>1, <2>1, <2>2, <2>3, <3>1 DEF PagingInv
    <2>5. FilterInv'
      BY <1>1, <2>1 DEF FilterInv
    <2>. QED  BY <2>1, <2>4, <2>5, ToolbarKeeps
  <1>3. ASSUME Toolbar, UNCHANGED <<sort, viewFilters, pageSize, conditions>>, NEW k \in Nat, offset' = k * pageSize PROVE ViewInv'
    <2>1. PagingInv'
      BY <1>1, <1>3 DEF PagingInv, OnePerColumn
    <2>2. FilterInv'
      BY <1>1, <1>3 DEF FilterInv
    <2>. QED  BY <1>3, <2>1, <2>2, ToolbarKeeps
  <1>4. CASE PrevPage
    <2>1. Toolbar /\ UNCHANGED <<sort, viewFilters, pageSize, conditions>>
          /\ offset' = IF offset > pageSize THEN offset - pageSize ELSE 0
      BY <1>4 DEF PrevPage, Closed
    <2>2. CASE offset > pageSize
      <3>1. n # 0 /\ n - 1 \in Nat
        BY <1>0, <1>1, <2>2
      <3>2. (n - 1) * pageSize = n * pageSize - pageSize
        BY <1>1, <3>1
      <3>. QED  BY <1>0, <1>3, <2>1, <2>2, <3>1, <3>2
    <2>3. CASE ~(offset > pageSize)
      <3>1. offset' = 0 * pageSize /\ 0 \in Nat
        BY <1>1, <2>1, <2>3
      <3>. QED  BY <1>3, <2>1, <3>1
    <2>. QED  BY <2>2, <2>3
  <1>5. CASE NextPage
    <2>1. Toolbar /\ UNCHANGED <<sort, viewFilters, pageSize, conditions>> /\ offset' = offset + pageSize
      BY <1>5 DEF NextPage, Closed
    <2>2. (n + 1) * pageSize = n * pageSize + pageSize /\ n + 1 \in Nat
      BY <1>1
    <2>. QED  BY <1>0, <1>3, <2>1, <2>2
  <1>6. CASE FilterPage
    BY <1>0, <1>3, <1>6 DEF FilterPage, Closed
  <1>7. ASSUME NEW v \in {"data", "structure"}, SetView(v) PROVE ViewInv'
    BY <1>0, <1>3, <1>7 DEF SetView, Closed
  <1>. QED  BY <1>2, <1>4, <1>5, <1>6, <1>7

\* The where builder: whatever is edited and applied is made of conditions.
LEMMA BlankFits == Blank \in ConditionShape
  <1>1. FirstColumn \in ColumnNames
    BY DEF FirstColumn, Columns, ColumnNames
  <1>2. <<>> \in Seq(PieceShape)
    OBVIOUS
  <1>. QED  BY <1>1, <1>2 DEF Blank, ConditionShape

LEMMA TypedFits == TypedTexts \subseteq Seq(PieceShape)
  <1>1. Piece(1, "1") \in PieceShape /\ Piece(0, "1") \in PieceShape /\ Piece(1, "x") \in PieceShape
    BY DEF Piece, PieceShape
  <1>. QED  BY <1>1 DEF TypedTexts

\* Conditions change while paging stays, or the filters they ask for are applied.
LEMMA BuilderKeeps ==
  ASSUME ViewInv, Toolbar, UNCHANGED <<sort, pageSize>>, offset' = offset \/ offset' = 0,
         viewFilters' \in Seq(ConditionShape), conditions' \in Seq(ConditionShape)
  PROVE  ViewInv'
  <1>0. PICK n \in Nat : offset = n * pageSize
    BY DEF ViewInv, PagingInv
  <1>1. pageSize \in Nat \ {0} /\ sort \in Seq(SortShape) /\ OnePerColumn(sort)
    BY DEF ViewInv, PagingInv
  <1>2. \E k \in Nat : offset' = k * pageSize'
    <2>1. 0 = 0 * pageSize /\ 0 \in Nat
      BY <1>1
    <2>. QED  BY <1>0, <2>1
  <1>3. PagingInv'
    BY <1>1, <1>2 DEF PagingInv, OnePerColumn
  <1>4. FilterInv'
    BY DEF FilterInv
  <1>. QED  BY <1>3, <1>4, ToolbarKeeps

LEMMA WhereKeeps ==
  ASSUME ViewInv,
         \/ OpenWhere \/ AddCondition \/ DismissWhere
         \/ \E i \in 1..2, c \in DOMAIN TableColumns, op \in {"eq", "in", "is_null"}, t \in TypedTexts : EditDraft(i, c, op, t)
         \/ \E i \in 1..2 : RemoveCondition(i)
         \/ ApplyFilters(ToFilterSpecs(conditions)) \/ ApplyFilters(<<>>)
  PROVE  ViewInv'
  <1>1. viewFilters \in Seq(ConditionShape) /\ conditions \in Seq(ConditionShape) /\ <<>> \in Seq(ConditionShape)
    BY DEF ViewInv, FilterInv
  <1>2. CASE OpenWhere
    <2>1. conditions' \in Seq(ConditionShape)
      BY <1>1, <1>2, SeedFits DEF OpenWhere
    <2>. QED  BY <1>1, <1>2, <2>1, BuilderKeeps DEF OpenWhere
  <1>3. CASE AddCondition
    <2>1. conditions' \in Seq(ConditionShape)
      BY <1>1, <1>3, BlankFits, AppendProperties DEF AddCondition
    <2>. QED  BY <1>1, <1>3, <2>1, BuilderKeeps DEF AddCondition
  <1>4. CASE DismissWhere
    BY <1>1, <1>4, BuilderKeeps DEF DismissWhere
  <1>5. ASSUME NEW i \in 1..2, NEW c \in DOMAIN TableColumns, NEW op \in {"eq", "in", "is_null"}, NEW t \in TypedTexts,
               EditDraft(i, c, op, t)
        PROVE  ViewInv'
    <2>1. PICK d : d = [column |-> c, op |-> op, value |-> t]
      OBVIOUS
    <2>2. d \in ConditionShape
      BY <2>1, TypedFits DEF ConditionShape, ColumnNames
    <2>3. conditions' = [conditions EXCEPT ![i] = d] /\ i \in DOMAIN conditions
      BY <1>5, <2>1 DEF EditDraft
    <2>4. conditions' \in Seq(ConditionShape)
      BY <1>1, <2>2, <2>3
    <2>. QED  BY <1>1, <1>5, <2>4, BuilderKeeps DEF EditDraft
  <1>6. ASSUME NEW i \in 1..2, RemoveCondition(i) PROVE ViewInv'
    <2>1. conditions' = [n \in 1..(Len(conditions) - 1) |-> conditions[IF n < i THEN n ELSE n + 1]] /\ i \in DOMAIN conditions
      BY <1>6 DEF RemoveCondition
    <2>2. Len(conditions) - 1 \in Nat /\ \A n \in 1..(Len(conditions) - 1) :
             conditions[IF n < i THEN n ELSE n + 1] \in ConditionShape
      BY <1>1, <2>1
    <2>3. conditions' \in [1..(Len(conditions) - 1) -> ConditionShape]
      BY <2>1, <2>2
    <2>4. conditions' \in Seq(ConditionShape)
      BY <2>2, <2>3
    <2>. QED  BY <1>1, <1>6, <2>4, BuilderKeeps DEF RemoveCondition
  <1>7. ASSUME NEW next \in Seq(ConditionShape), ApplyFilters(next) PROVE ViewInv'
    BY <1>1, <1>7, BuilderKeeps DEF ApplyFilters
  <1>8. ToFilterSpecs(conditions) \in Seq(ConditionShape)
    BY <1>1, SpecsAre
  <1>. QED  BY <1>1, <1>2, <1>3, <1>4, <1>5, <1>6, <1>7, <1>8

\* Answers, and a fetch of the same page: rows stay selected.
LEMMA AnswersKeep ==
  ASSUME ViewInv,
         \/ Refresh \/ DetailArrives \/ PageFails
         \/ \E total \in Totals, changed \in BOOLEAN : PageArrives(total, changed)
  PROVE  ViewInv'
  <1>1. Rendered /\ UNCHANGED <<sort, viewFilters, offset, pageSize, conditions>>
    BY DEF Refresh, DetailArrives, PageFails, PageArrives
  <1>2. ResetKey' = ResetKey
    BY <1>1 DEF ResetKey
  <1>3. SelectInv'
    BY <1>1, <1>2, RenderKeeps DEF ViewInv
  <1>4. PagingInv' /\ FilterInv'
    BY <1>1 DEF ViewInv, PagingInv, FilterInv, OnePerColumn
  <1>. QED  BY <1>3, <1>4 DEF ViewInv

LEMMA ReopenKeeps == ASSUME ViewInv, NEW n \in PageSizes, Reopen(n) PROVE ViewInv'
  <1>1. /\ pageSize' = n /\ n \in Nat \ {0} /\ offset' = 0 /\ sort' = <<>> /\ viewFilters' = <<>> /\ conditions' = <<>>
        /\ selectedRows' = {} /\ menu' = NoRow
    BY ViewAssumption DEF Reopen
  <1>2. 0 = 0 * n /\ 0 \in Nat
    BY <1>1
  <1>3. PagingInv'
    BY <1>1, <1>2 DEF PagingInv, OnePerColumn
  <1>4. FilterInv' /\ SelectInv'
    BY <1>1 DEF FilterInv, SelectInv, PickedFrom
  <1>. QED  BY <1>3, <1>4 DEF ViewInv

LEMMA ViewStep == ASSUME ViewInv, ViewNext PROVE ViewInv'
  BY GridSteps, PagesKeep, WhereKeeps, AnswersKeep, ReopenKeeps DEF ViewNext

-----------------------------------------------------------------------------
(* Workspace                                                               *)

\* What the workspaces are made of.
Titles == {"", "given", "default", "server"}
TabShape == {t \in [id : TabIds, title : Titles] : KindOf[t.id] = "table" => t.title = ""}
StripShape == [tabs : Seq(TabShape), active : TabIds \cup {Nothing}]
StripMaps == UNION {[D -> StripShape] : D \in SUBSET Connections}
AppShape == [connection : Connections \cup {Nothing}, tabsOf : Connections \cup {Nothing},
             tabs : Seq(TabShape), active : TabIds \cup {Nothing}, workspaces : StripMaps]
RoutePlaces == {Home} \cup [conn : Connections, leaf : TabIds \cup {"index"}]
MountShape == {Unmounted} \cup [conn : Connections, leaf : TabIds \cup {"index"}, title : Titles]

OnePerId(tabs) == \A i, j \in DOMAIN tabs : tabs[i].id = tabs[j].id => i = j

\* In a strip a tab appears once, and one of them is the active one.
Strip(tabs, active) ==
  /\ tabs \in Seq(TabShape) /\ OnePerId(tabs)
  /\ active \in Ids(tabs) \cup {Nothing} /\ (active = Nothing => tabs = <<>>)

StripsSaved(s) ==
  /\ s \in AppShape
  /\ \A c \in DOMAIN s.workspaces : Strip(s.workspaces[c].tabs, s.workspaces[c].active)

\* The strip shown is a strip, and the one saved for its connection.
Sound(s) ==
  /\ StripsSaved(s)
  /\ Strip(s.tabs, s.active)
  /\ s.tabsOf # Nothing => WorkspaceOf(s, s.tabsOf) = [tabs |-> s.tabs, active |-> s.active]
  /\ s.tabsOf = Nothing => s.tabs = <<>>

TabTypes ==
  /\ Sound(app)
  /\ sqlDrafts \subseteq Connections /\ connections \subseteq Connections
  /\ connectionList \subseteq Connections /\ titled \subseteq Connections
  /\ route \in RoutePlaces /\ going \in RoutePlaces \cup {Stay} /\ mounted \in MountShape
  /\ opening \subseteq Connections /\ closed \subseteq TabShape /\ late \subseteq Connections

\* The store follows the effects that ran.
FollowInv ==
  /\ app.connection = mounted.conn
  /\ app.connection # Nothing => app.tabsOf = app.connection
  /\ connections \subseteq connectionList \/ (connectionList = {} /\ mounted = Unmounted)

\* What is kept is of a connection there is, or that was entered late.
KeptInv ==
  /\ route.conn \in connections \cup late \cup {Nothing}
  /\ DOMAIN app.workspaces \subseteq connections \cup late
  /\ sqlDrafts \subseteq connections \cup late

\* The effects of the leaf the route is at ran; it renders mounted.title.
Here == InWorkspace /\ mounted.conn = route.conn /\ mounted.leaf = route.leaf
LeafHere == Here /\ route.leaf \in TabIds
Closing == {t \in closed : t.id = route.leaf}
HereInv ==
  /\ closed # {} => route.conn # Nothing /\ connections \subseteq connectionList /\ (InWorkspace => Here)
  /\ LeafHere /\ Closing = {} =>
       route.leaf \in Ids(app.tabs) /\ (app.active = route.leaf \/ going \notin {Stay, route})
  /\ LeafHere => \A t \in Closing : t.id \notin Ids(app.tabs) =>
       \/ mounted.title = t.title
       \/ mounted.title = "server" /\ KindOf[route.leaf] = "chat" /\ route.conn \in titled

TabInv == TabTypes /\ FollowInv /\ KeptInv /\ HereInv

\* The fields of a store.
LEMMA AppFields ==
  ASSUME NEW s \in AppShape
  PROVE  /\ s.connection \in Connections \cup {Nothing} /\ s.tabsOf \in Connections \cup {Nothing}
         /\ s.tabs \in Seq(TabShape) /\ s.active \in TabIds \cup {Nothing}
         /\ DOMAIN s.workspaces \in SUBSET Connections
         /\ s.workspaces \in [DOMAIN s.workspaces -> StripShape]
  <1>1. s.workspaces \in StripMaps
    BY DEF AppShape
  <1>2. PICK D \in SUBSET Connections : s.workspaces \in [D -> StripShape]
    BY <1>1 DEF StripMaps
  <1>. QED  BY <1>2 DEF AppShape

\* The ids in a list of tabs are ids of tabs.
LEMMA IdsTyped ==
  ASSUME NEW tabs \in Seq(TabShape)
  PROVE  Ids(tabs) \subseteq TabIds
  <1>1. \A t \in TabShape : t.id \in TabIds
    BY DEF TabShape
  <1>. QED  BY <1>1 DEF Ids

\* A function on some connections is a map of workspaces.
LEMMA MapsFit ==
  ASSUME NEW D \in SUBSET Connections, NEW w \in [D -> StripShape]
  PROVE  w \in StripMaps
  BY DEF StripMaps

\* A workspace is a strip, a saved one or the empty one.
LEMMA WorkspaceFits ==
  ASSUME NEW s, StripsSaved(s), NEW c
  PROVE  Strip(WorkspaceOf(s, c).tabs, WorkspaceOf(s, c).active) /\ WorkspaceOf(s, c) \in StripShape
  <1>1. CASE c \in DOMAIN s.workspaces
    BY <1>1, AppFields DEF WorkspaceOf, StripsSaved
  <1>2. CASE c \notin DOMAIN s.workspaces
    <2>1. WorkspaceOf(s, c) = EmptyWorkspace
      BY <1>2 DEF WorkspaceOf
    <2>2. EmptyWorkspace.tabs = <<>> /\ EmptyWorkspace.active = Nothing
      BY DEF EmptyWorkspace
    <2>3. <<>> \in Seq(TabShape) /\ OnePerId(<<>>)
      BY DEF OnePerId
    <2>4. EmptyWorkspace \in StripShape
      BY <2>3 DEF EmptyWorkspace, StripShape
    <2>. QED  BY <2>1, <2>2, <2>3, <2>4 DEF Strip
  <1>. QED  BY <1>1, <1>2

\* Projecting tabs and an active one saves them for the connection they are of.
LEMMA ProjectFits ==
  ASSUME NEW s, StripsSaved(s), s.tabsOf \in Connections, NEW tabs, NEW active, Strip(tabs, active)
  PROVE  /\ Sound(Project(s, tabs, active))
         /\ Project(s, tabs, active).connection = s.connection
         /\ Project(s, tabs, active).tabsOf = s.tabsOf
         /\ Project(s, tabs, active).tabs = tabs /\ Project(s, tabs, active).active = active
         /\ DOMAIN Project(s, tabs, active).workspaces = DOMAIN s.workspaces \cup {s.tabsOf}
  <1> DEFINE D == DOMAIN s.workspaces \cup {s.tabsOf}
  <1>1. PICK e : e = [tabs |-> tabs, active |-> active]
    OBVIOUS
  <1>2. e \in StripShape /\ e.tabs = tabs /\ e.active = active
    <2>1. tabs \in Seq(TabShape) /\ active \in TabIds \cup {Nothing}
      <3>1. \A t \in TabShape : t.id \in TabIds
        BY DEF TabShape
      <3>2. Ids(tabs) \subseteq TabIds
        BY <3>1 DEF Strip, Ids
      <3>. QED  BY <3>2 DEF Strip
    <2>. QED  BY <1>1, <2>1 DEF StripShape
  <1>3. PICK w : w = [c \in D |-> IF c = s.tabsOf THEN e ELSE s.workspaces[c]]
    OBVIOUS
  <1>4. s \in AppShape /\ s.tabsOf # Nothing
    BY TabAssumption DEF StripsSaved
  <1>5. D \in SUBSET Connections /\ w \in [D -> StripShape]
    BY <1>2, <1>3, <1>4, AppFields
  <1>6. w \in StripMaps
    BY <1>5, MapsFit
  <1>7. PICK r : r = [s EXCEPT !.tabs = tabs, !.active = active, !.workspaces = w]
    OBVIOUS
  <1>8. Project(s, tabs, active) = r
    BY <1>1, <1>3, <1>4, <1>7 DEF Project
  <1>9. /\ r \in AppShape /\ r.connection = s.connection /\ r.tabsOf = s.tabsOf
        /\ r.tabs = tabs /\ r.active = active /\ r.workspaces = w
    <2>1. tabs \in Seq(TabShape) /\ active \in TabIds \cup {Nothing}
      BY <1>2 DEF StripShape
    <2>. QED  BY <1>4, <1>6, <1>7, <2>1 DEF AppShape
  <1>10. DOMAIN w = D /\ w[s.tabsOf] = e
    BY <1>3
  <1>11. \A c \in D : Strip(w[c].tabs, w[c].active)
    BY <1>2, <1>3 DEF StripsSaved
  <1>12. WorkspaceOf(r, r.tabsOf) = e
    BY <1>9, <1>10 DEF WorkspaceOf
  <1>. QED  BY <1>1, <1>4, <1>8, <1>9, <1>10, <1>11, <1>12 DEF Sound, StripsSaved

\* Opening a tab puts it in its connection's strip and activates it.
LEMMA OpenTabFits ==
  ASSUME NEW s, Sound(s), NEW t \in TabShape, NEW c \in Connections
  PROVE  /\ Sound(OpenTab(s, t, c))
         /\ OpenTab(s, t, c).connection = s.connection /\ OpenTab(s, t, c).tabsOf = c
         /\ OpenTab(s, t, c).active = t.id /\ t.id \in Ids(OpenTab(s, t, c).tabs)
         /\ DOMAIN OpenTab(s, t, c).workspaces = DOMAIN s.workspaces \cup {c}
         /\ s.tabsOf = c => /\ Ids(s.tabs) \subseteq Ids(OpenTab(s, t, c).tabs)
                            /\ Elements(OpenTab(s, t, c).tabs) \subseteq Elements(s.tabs) \cup {t}
  <1>1. PICK tabs : tabs = IF s.tabsOf = c THEN s.tabs ELSE WorkspaceOf(s, c).tabs
    OBVIOUS
  <1>2. PICK next : next = IF t.id \in Ids(tabs) THEN [i \in DOMAIN tabs |-> IF tabs[i].id = t.id THEN t ELSE tabs[i]]
                           ELSE Append(tabs, t)
    OBVIOUS
  <1>3. PICK m : m = [s EXCEPT !.tabsOf = c]
    OBVIOUS
  <1>4. OpenTab(s, t, c) = Project(m, next, t.id)
    BY <1>1, <1>2, <1>3 DEF OpenTab
  <1>5. s \in AppShape /\ StripsSaved(s)
    BY DEF Sound, StripsSaved
  <1>6. /\ m \in AppShape /\ m.connection = s.connection /\ m.tabsOf = c
        /\ m.workspaces = s.workspaces
    BY <1>3, <1>5 DEF AppShape
  <1>7. StripsSaved(m)
    BY <1>5, <1>6 DEF StripsSaved
  <1>8. tabs \in Seq(TabShape) /\ OnePerId(tabs)
    BY <1>1, <1>5, WorkspaceFits DEF Sound, Strip
  <1>9. DOMAIN tabs = 1..Len(tabs) /\ Len(tabs) \in Nat /\ \A i \in 1..Len(tabs) : tabs[i] \in TabShape
    BY <1>8
  <1>10. t.id \in TabIds /\ t.id # Nothing
    BY TabAssumption DEF TabShape
  <1>11. /\ next \in Seq(TabShape) /\ OnePerId(next) /\ t.id \in Ids(next)
         /\ Ids(tabs) \subseteq Ids(next) /\ Elements(next) \subseteq Elements(tabs) \cup {t}
    <2>1. CASE t.id \in Ids(tabs)
      <3>1. next = [i \in 1..Len(tabs) |-> IF tabs[i].id = t.id THEN t ELSE tabs[i]]
        BY <1>2, <1>9, <2>1
      <3>2. next \in Seq(TabShape) /\ DOMAIN next = 1..Len(tabs)
        BY <1>9, <3>1
      <3>3. \A i \in 1..Len(tabs) : next[i].id = tabs[i].id /\ next[i] \in {t, tabs[i]}
        BY <3>1
      <3>. QED  BY <1>8, <1>9, <2>1, <3>2, <3>3 DEF OnePerId, Ids, Elements
    <2>2. CASE t.id \notin Ids(tabs)
      <3>1. next = Append(tabs, t)
        BY <1>2, <2>2
      <3>2. /\ next \in Seq(TabShape) /\ DOMAIN next = 1..(Len(tabs) + 1) /\ next[Len(tabs) + 1] = t
            /\ \A i \in 1..Len(tabs) : next[i] = tabs[i]
        BY <1>8, <3>1, AppendProperties
      <3>3. /\ \A i \in 1..(Len(tabs) + 1) : i = Len(tabs) + 1 \/ i \in 1..Len(tabs)
            /\ Len(tabs) + 1 \in 1..(Len(tabs) + 1) /\ \A i \in 1..Len(tabs) : i \in 1..(Len(tabs) + 1)
        BY <1>9
      <3>4. OnePerId(next)
        BY <1>8, <1>9, <2>2, <3>2, <3>3 DEF OnePerId, Ids
      <3>5. t.id \in Ids(next) /\ Ids(tabs) \subseteq Ids(next)
        BY <1>9, <3>2, <3>3 DEF Ids
      <3>6. Elements(next) \subseteq Elements(tabs) \cup {t}
        BY <1>9, <3>2, <3>3 DEF Elements
      <3>. QED  BY <3>2, <3>4, <3>5, <3>6
    <2>. QED  BY <2>1, <2>2
  <1>12. Strip(next, t.id)
    BY <1>10, <1>11 DEF Strip
  <1>. QED  BY <1>1, <1>4, <1>6, <1>7, <1>11, <1>12, ProjectFits

\* Renaming a tab leaves the strip its tabs.
LEMMA RenameFits ==
  ASSUME NEW s, Sound(s), NEW id \in TabIds, NEW title \in Titles
  PROVE  /\ Sound(RenameTab(s, id, title))
         /\ RenameTab(s, id, title).connection = s.connection /\ RenameTab(s, id, title).tabsOf = s.tabsOf
         /\ RenameTab(s, id, title).active = s.active
         /\ Ids(RenameTab(s, id, title).tabs) = Ids(s.tabs)
         /\ Elements(RenameTab(s, id, title).tabs) \subseteq Elements(s.tabs) \cup {Tab(id, title)}
         /\ DOMAIN RenameTab(s, id, title).workspaces \subseteq DOMAIN s.workspaces \cup ({s.tabsOf} \ {Nothing})
  <1>1. CASE id \notin Ids(s.tabs) \/ KindOf[id] = "table" \/ s.tabsOf = Nothing
    <2>1. RenameTab(s, id, title) = s
      BY <1>1 DEF RenameTab
    <2>. QED  BY <2>1
  <1>2. CASE ~(id \notin Ids(s.tabs) \/ KindOf[id] = "table" \/ s.tabsOf = Nothing)
    <2>1. PICK next : next = [i \in DOMAIN s.tabs |-> IF s.tabs[i].id = id THEN Tab(id, title) ELSE s.tabs[i]]
      OBVIOUS
    <2>2. RenameTab(s, id, title) = Project(s, next, s.active)
      BY <1>2, <2>1 DEF RenameTab
    <2>3. s \in AppShape /\ StripsSaved(s) /\ s.tabsOf \in Connections
      BY <1>2, AppFields DEF Sound, StripsSaved
    <2>4. s.tabs \in Seq(TabShape) /\ OnePerId(s.tabs) /\ DOMAIN s.tabs = 1..Len(s.tabs) /\ Len(s.tabs) \in Nat
          /\ \A i \in 1..Len(s.tabs) : s.tabs[i] \in TabShape
      BY DEF Sound, Strip
    <2>5. PICK e : e = Tab(id, title)
      OBVIOUS
    <2>6. e \in TabShape /\ e.id = id
      BY <1>2, <2>5 DEF Tab, TabShape
    <2>7. next = [i \in 1..Len(s.tabs) |-> IF s.tabs[i].id = id THEN e ELSE s.tabs[i]]
      BY <2>1, <2>4, <2>5
    <2>8. next \in Seq(TabShape) /\ DOMAIN next = 1..Len(s.tabs) /\ Len(next) = Len(s.tabs)
      BY <2>4, <2>6, <2>7
    <2>9. \A i \in 1..Len(s.tabs) : next[i].id = s.tabs[i].id
      BY <2>6, <2>7
    <2>10. OnePerId(next) /\ Ids(next) = Ids(s.tabs)
      BY <2>4, <2>8, <2>9 DEF OnePerId, Ids
    <2>11. s.active = Nothing => next = <<>>
      <3>1. SUFFICES ASSUME s.active = Nothing PROVE next = <<>>
        OBVIOUS
      <3>2. Len(s.tabs) = 0
        BY <3>1 DEF Sound, Strip
      <3>. QED  BY <2>8, <3>2, EmptySeq
    <2>12. Strip(next, s.active)
      BY <2>8, <2>10, <2>11 DEF Sound, Strip
    <2>14. Elements(next) \subseteq Elements(s.tabs) \cup {e}
      BY <2>4, <2>7, <2>8 DEF Elements
    <2>13. s.tabsOf # Nothing
      BY <1>2
    <2>. QED  BY <2>2, <2>3, <2>10, <2>12, <2>13, <2>5, <2>14, ProjectFits
  <1>. QED  BY <1>1, <1>2

\* The strip without one of its tabs.
LEMMA WithoutFits ==
  ASSUME NEW s, Sound(s), NEW id \in Ids(s.tabs)
  PROVE  /\ Without(s, id) \in Seq(TabShape) /\ OnePerId(Without(s, id))
         /\ Ids(Without(s, id)) = Ids(s.tabs) \ {id}
         /\ Len(Without(s, id)) >= Len(s.tabs) - 1
  <1> DEFINE S == {t \in Elements(s.tabs) : t.id # id}
  <1>1. PICK k : k = Without(s, id)
    OBVIOUS
  <1>2. /\ s.tabs \in Seq(TabShape) /\ OnePerId(s.tabs) /\ Len(s.tabs) \in Nat
        /\ DOMAIN s.tabs = 1..Len(s.tabs)
    BY DEF Sound, Strip
  <1>3. KeptOf(k, s.tabs, Len(s.tabs), S, TabShape)
    BY <1>1, <1>2, KeptResult DEF Without
  <1>4. \A x \in 1..Len(s.tabs) : s.tabs[x] \in S <=> s.tabs[x].id # id
    BY <1>2 DEF Elements
  <1> HIDE DEF S
  <1>5. k \in Seq(TabShape) /\ DOMAIN k = 1..Len(k)
    BY <1>3 DEF KeptOf
  <1>6. \A a \in 1..Len(k) : \E x \in 1..Len(s.tabs) : k[a] = s.tabs[x] /\ s.tabs[x].id # id
    BY <1>3, <1>4 DEF KeptOf
  <1>7. \A x \in 1..Len(s.tabs) : s.tabs[x].id # id => \E a \in 1..Len(k) : k[a] = s.tabs[x]
    BY <1>3, <1>4 DEF KeptOf
  <1>8. \A a, b \in 1..Len(k) : k[a] = k[b] => a = b
    <2>1. \A x, y \in 1..Len(s.tabs) : s.tabs[x] = s.tabs[y] => x = y
      BY <1>2 DEF OnePerId
    <2>. QED  BY <1>3, <2>1 DEF KeptOf
  <1>9. OnePerId(k)
    <2> SUFFICES ASSUME NEW a \in 1..Len(k), NEW b \in 1..Len(k), k[a].id = k[b].id PROVE k[a] = k[b]
      BY <1>5, <1>8 DEF OnePerId
    <2>. QED  BY <1>2, <1>6 DEF OnePerId
  <1>10. Ids(k) = Ids(s.tabs) \ {id}
    <2>1. Ids(k) = {k[a].id : a \in 1..Len(k)} /\ Ids(s.tabs) = {s.tabs[x].id : x \in 1..Len(s.tabs)}
      BY <1>2, <1>5 DEF Ids
    <2>2. ASSUME NEW a \in 1..Len(k) PROVE k[a].id \in Ids(s.tabs) \ {id}
      BY <1>6, <2>1
    <2>3. ASSUME NEW x \in 1..Len(s.tabs), s.tabs[x].id # id PROVE s.tabs[x].id \in Ids(k)
      BY <1>7, <2>1, <2>3
    <2>. QED  BY <2>1, <2>2, <2>3
  <1>11. \A x, y \in 1..Len(s.tabs) : s.tabs[x] \notin S /\ s.tabs[y] \notin S => x = y
    BY <1>2, <1>4 DEF OnePerId
  <1>12. Len(k) >= Len(s.tabs) - 1
    BY <1>3, <1>11 DEF KeptOf
  <1>. QED  BY <1>1, <1>5, <1>9, <1>10, <1>12

\* The tab that is active once one is closed is one of those left.
LEMMA AfterCloseFits ==
  ASSUME NEW s, Sound(s), NEW id \in Ids(s.tabs)
  PROVE  /\ AfterClose(s, id) \in Ids(Without(s, id)) \cup {Nothing}
         /\ AfterClose(s, id) = Nothing => Without(s, id) = <<>>
         /\ s.active # id => AfterClose(s, id) = s.active
  <1>0. Nothing \notin TabIds /\ Ids(s.tabs) \subseteq TabIds
    BY TabAssumption, IdsTyped DEF Sound, Strip
  <1>1. PICK rest : rest = Without(s, id)
    OBVIOUS
  <1>2. rest \in Seq(TabShape) /\ Ids(rest) = Ids(s.tabs) \ {id} /\ Len(rest) >= Len(s.tabs) - 1
    BY <1>1, WithoutFits
  <1>3. CASE s.active # id
    <2>1. AfterClose(s, id) = s.active
      BY <1>3 DEF AfterClose
    <2>2. s.active \in Ids(s.tabs)
      BY DEF Sound, Strip, Ids
    <2>. QED  BY <1>0, <1>1, <1>2, <1>3, <2>1, <2>2
  <1>4. CASE s.active = id /\ rest = <<>>
    <2>1. AfterClose(s, id) = Nothing
      BY <1>1, <1>4 DEF AfterClose
    <2>. QED  BY <1>1, <1>4, <2>1
  <1>5. CASE s.active = id /\ rest # <<>>
    <2>1. PICK place : place = CHOOSE i \in DOMAIN s.tabs : s.tabs[i].id = id
      OBVIOUS
    <2>2. place \in 1..Len(s.tabs) /\ Len(s.tabs) \in Nat /\ Len(rest) \in Nat /\ Len(rest) > 0
      <3>1. DOMAIN s.tabs = 1..Len(s.tabs) /\ Len(s.tabs) \in Nat
        BY DEF Sound, Strip
      <3>2. \E i \in DOMAIN s.tabs : s.tabs[i].id = id
        BY DEF Ids
      <3>. QED  BY <1>2, <1>5, <2>1, <3>1, <3>2, EmptySeq
    <2>3. PICK n : n = IF place > 1 THEN place - 1 ELSE 1
      OBVIOUS
    <2>4. n \in 1..Len(rest)
      <3>1. CASE place > 1
        BY <1>2, <2>2, <2>3, <3>1
      <3>2. CASE ~(place > 1)
        BY <2>2, <2>3, <3>2
      <3>. QED  BY <3>1, <3>2
    <2>5. AfterClose(s, id) = rest[n].id
      BY <1>1, <1>5, <2>1, <2>3 DEF AfterClose
    <2>6. rest[n].id \in Ids(rest)
      BY <1>2, <2>4 DEF Ids
    <2>. QED  BY <1>0, <1>1, <1>2, <1>5, <2>5, <2>6
  <1>. QED  BY <1>3, <1>4, <1>5

\* Closing a tab of the strip shown.
LEMMA CloseFits ==
  ASSUME NEW s, Sound(s), s.tabsOf \in Connections, NEW id \in Ids(s.tabs)
  PROVE  /\ Sound(CloseTab(s, id))
         /\ CloseTab(s, id).connection = s.connection /\ CloseTab(s, id).tabsOf = s.tabsOf
         /\ CloseTab(s, id).active = AfterClose(s, id)
         /\ Ids(CloseTab(s, id).tabs) = Ids(s.tabs) \ {id}
         /\ DOMAIN CloseTab(s, id).workspaces = DOMAIN s.workspaces \cup {s.tabsOf}
  <1>1. StripsSaved(s)
    BY DEF Sound
  <1>2. Strip(Without(s, id), AfterClose(s, id))
    BY WithoutFits, AfterCloseFits DEF Strip
  <1>. QED  BY <1>1, <1>2, WithoutFits, ProjectFits DEF CloseTab

\* Entering a connection shows the strip saved for it.
LEMMA SetFits ==
  ASSUME NEW s, Sound(s), NEW c \in Connections \cup {Nothing}
  PROVE  /\ Sound(SetConnection(s, c)) /\ SetConnection(s, c).connection = c
         /\ SetConnection(s, c).workspaces = s.workspaces
         /\ c # Nothing => SetConnection(s, c).tabsOf = c
         /\ c = Nothing \/ s.tabsOf = c => /\ SetConnection(s, c).tabsOf = s.tabsOf
                                           /\ SetConnection(s, c).tabs = s.tabs
                                           /\ SetConnection(s, c).active = s.active
  <1>1. s \in AppShape /\ StripsSaved(s)
    BY DEF Sound, StripsSaved
  <1>2. CASE c = Nothing
    <2>1. PICK r : r = [s EXCEPT !.connection = Nothing]
      OBVIOUS
    <2>2. SetConnection(s, c) = r
      BY <1>2, <2>1 DEF SetConnection
    <2>3. /\ r \in AppShape /\ r.connection = c /\ r.workspaces = s.workspaces /\ r.tabsOf = s.tabsOf
          /\ r.tabs = s.tabs /\ r.active = s.active
      BY <1>1, <1>2, <2>1 DEF AppShape
    <2>4. WorkspaceOf(r, r.tabsOf) = WorkspaceOf(s, s.tabsOf)
      BY <2>3 DEF WorkspaceOf
    <2>5. Sound(r)
      BY <2>3, <2>4 DEF Sound, StripsSaved
    <2>. QED  BY <1>2, <2>2, <2>3, <2>5
  <1>3. CASE c \in Connections
    <2>0. c # Nothing
      BY <1>3, TabAssumption
    <2>1. PICK w : w = WorkspaceOf(s, c)
      OBVIOUS
    <2>2. w \in StripShape /\ Strip(w.tabs, w.active)
      BY <1>1, <2>1, WorkspaceFits
    <2>3. PICK r : r = [s EXCEPT !.connection = c, !.tabsOf = c, !.tabs = w.tabs, !.active = w.active]
      OBVIOUS
    <2>4. SetConnection(s, c) = r
      BY <2>0, <2>1, <2>3 DEF SetConnection
    <2>5. w.tabs \in Seq(TabShape) /\ w.active \in TabIds \cup {Nothing} /\ w = [tabs |-> w.tabs, active |-> w.active]
      BY <2>2 DEF StripShape
    <2>6. /\ r \in AppShape /\ r.connection = c /\ r.workspaces = s.workspaces /\ r.tabsOf = c
          /\ r.tabs = w.tabs /\ r.active = w.active
      BY <1>1, <1>3, <2>3, <2>5 DEF AppShape
    <2>7. WorkspaceOf(r, c) = w
      BY <2>1, <2>6 DEF WorkspaceOf
    <2>8. Sound(r)
      <3>1. StripsSaved(r)
        BY <1>1, <2>6 DEF StripsSaved
      <3>2. WorkspaceOf(r, r.tabsOf) = [tabs |-> r.tabs, active |-> r.active]
        BY <2>5, <2>6, <2>7
      <3>. QED  BY <2>0, <2>2, <2>6, <3>1, <3>2 DEF Sound
    <2>9. s.tabsOf = c => w.tabs = s.tabs /\ w.active = s.active
      BY <2>0, <2>1 DEF Sound
    <2>. QED  BY <2>0, <2>4, <2>6, <2>8, <2>9
  <1>. QED  BY <1>2, <1>3

\* Forgetting a workspace.
LEMMA RemoveFits ==
  ASSUME NEW s, Sound(s), NEW c \in Connections
  PROVE  /\ Sound(RemoveConnectionWorkspace(s, c))
         /\ RemoveConnectionWorkspace(s, c).connection = s.connection
         /\ DOMAIN RemoveConnectionWorkspace(s, c).workspaces = DOMAIN s.workspaces \ {c}
  <1>1. s \in AppShape /\ StripsSaved(s)
    BY DEF Sound, StripsSaved
  <1>2. PICK left : left = [d \in DOMAIN s.workspaces \ {c} |-> s.workspaces[d]]
    OBVIOUS
  <1>3. /\ DOMAIN left = DOMAIN s.workspaces \ {c} /\ left \in StripMaps
        /\ \A d \in DOMAIN left : left[d] = s.workspaces[d]
    <2>1. DOMAIN s.workspaces \ {c} \in SUBSET Connections
      BY <1>1, AppFields
    <2>2. left \in [DOMAIN s.workspaces \ {c} -> StripShape]
      BY <1>1, <1>2, AppFields
    <2>. QED  BY <1>2, <2>1, <2>2, MapsFit
  <1>4. CASE s.tabsOf # c
    <2>1. PICK r : r = [s EXCEPT !.workspaces = left]
      OBVIOUS
    <2>2. RemoveConnectionWorkspace(s, c) = r
      BY <1>2, <1>4, <2>1 DEF RemoveConnectionWorkspace
    <2>3. /\ r \in AppShape /\ r.connection = s.connection /\ r.workspaces = left /\ r.tabsOf = s.tabsOf
          /\ r.tabs = s.tabs /\ r.active = s.active
      BY <1>1, <1>3, <2>1 DEF AppShape
    <2>4. WorkspaceOf(r, r.tabsOf) = WorkspaceOf(s, s.tabsOf)
      BY <1>3, <1>4, <2>3 DEF WorkspaceOf
    <2>5. StripsSaved(r)
      BY <1>1, <1>3, <2>3 DEF StripsSaved
    <2>. QED  BY <1>3, <2>2, <2>3, <2>4, <2>5 DEF Sound
  <1>5. CASE s.tabsOf = c
    <2>1. PICK r : r = [s EXCEPT !.workspaces = left, !.tabsOf = Nothing, !.tabs = <<>>, !.active = Nothing]
      OBVIOUS
    <2>2. RemoveConnectionWorkspace(s, c) = r
      BY <1>2, <1>5, <2>1 DEF RemoveConnectionWorkspace
    <2>3. /\ r \in AppShape /\ r.connection = s.connection /\ r.workspaces = left /\ r.tabsOf = Nothing
          /\ r.tabs = <<>> /\ r.active = Nothing
      <3>0. <<>> \in Seq(TabShape)
        OBVIOUS
      <3>1. PICK none \in Seq(TabShape) : none = <<>>
        BY <3>0
      <3>2. r = [s EXCEPT !.workspaces = left, !.tabsOf = Nothing, !.tabs = none, !.active = Nothing]
        BY <2>1, <3>1
      <3>. QED  BY <1>1, <1>3, <3>1, <3>2 DEF AppShape
    <2>4. StripsSaved(r)
      BY <1>1, <1>3, <2>3 DEF StripsSaved
    <2>5. Strip(<<>>, Nothing)
      BY DEF Strip, OnePerId
    <2>. QED  BY <1>3, <2>2, <2>3, <2>4, <2>5 DEF Sound
  <1>. QED  BY <1>4, <1>5

\* Where a connection is entered: at the active tab of its strip, or at home.
LEMMA RestorableFits ==
  ASSUME NEW s, Sound(s), NEW c \in Connections
  PROVE  /\ RestorableTab(s, c) \in TabIds
         /\ s.tabsOf = c /\ s.tabs # <<>> => RestorableTab(s, c) = s.active
  <1>1. PICK w : w = WorkspaceOf(s, c)
    OBVIOUS
  <1>2. Strip(w.tabs, w.active)
    BY <1>1, WorkspaceFits DEF Sound
  <1>3. w.tabs # <<>> => w.active \in Ids(w.tabs)
    BY <1>2 DEF Strip
  <1>4. Ids(w.tabs) \subseteq TabIds
    BY <1>2, IdsTyped DEF Strip
  <1>5. RestorableTab(s, c) = IF w.tabs = <<>> THEN "home" ELSE w.active
    BY <1>1, <1>3 DEF RestorableTab
  <1>6. s.tabsOf = c => w.tabs = s.tabs /\ w.active = s.active
    BY <1>1, TabAssumption DEF Sound
  <1>. QED  BY <1>3, <1>4, <1>5, <1>6, TabAssumption

\* The title a leaf renders.
LEMMA LeafTitleFits ==
  ASSUME NEW s, Sound(s), NEW c, NEW id \in TabIds
  PROVE  /\ LeafTitle(s, c, id) \in Titles
         /\ KindOf[id] = "table" => LeafTitle(s, c, id) = ""
         /\ KindOf[id] = "chat" /\ c \in titled => LeafTitle(s, c, id) = "server"
         /\ ~(KindOf[id] = "chat" /\ c \in titled) =>
              \A t \in Elements(s.tabs) : t.id = id => LeafTitle(s, c, id) = t.title
  <1>1. s.tabs \in Seq(TabShape) /\ OnePerId(s.tabs)
    BY DEF Sound, Strip
  <1>2. \A t \in TabShape : t.title \in Titles /\ (KindOf[t.id] = "table" => t.title = "")
    BY DEF TabShape
  <1>3. Elements(s.tabs) \subseteq TabShape
    BY <1>1 DEF Elements
  <1>4. \A t, u \in Elements(s.tabs) : t.id = u.id => t = u
    BY DEF Elements, OnePerId, Sound, Strip
  <1>5. id \in Ids(s.tabs) <=> \E t \in Elements(s.tabs) : t.id = id
    BY DEF Ids, Elements
  <1>6. PICK u : u = CHOOSE t \in Elements(s.tabs) : t.id = id
    OBVIOUS
  <1>7. id \in Ids(s.tabs) => u \in Elements(s.tabs) /\ u.id = id
    BY <1>5, <1>6
  <1>8. LeafTitle(s, c, id) = IF KindOf[id] = "table" THEN ""
                              ELSE IF KindOf[id] = "chat" /\ c \in titled THEN "server"
                              ELSE IF id \in Ids(s.tabs) THEN u.title ELSE "default"
    BY <1>6 DEF LeafTitle
  <1>9. {"", "server", "default"} \subseteq Titles
    BY DEF Titles
  <1>10. id \in Ids(s.tabs) => u.title \in Titles
    BY <1>2, <1>3, <1>7
  <1>11. LeafTitle(s, c, id) \in Titles
    BY <1>8, <1>9, <1>10
  <1>12. KindOf[id] = "table" => LeafTitle(s, c, id) = ""
    BY <1>8
  <1>13. KindOf[id] = "chat" /\ c \in titled => LeafTitle(s, c, id) = "server"
    BY <1>8
  <1>14. ASSUME ~(KindOf[id] = "chat" /\ c \in titled), NEW t \in Elements(s.tabs), t.id = id
         PROVE  LeafTitle(s, c, id) = t.title
    <2>1. id \in Ids(s.tabs) /\ u = t
      BY <1>4, <1>5, <1>7, <1>14
    <2>2. KindOf[id] = "table" => t.title = ""
      BY <1>2, <1>3, <1>14
    <2>. QED  BY <1>8, <1>14, <2>1, <2>2
  <1>. QED  BY <1>11, <1>12, <1>13, <1>14

\* Where the route is, and what it renders.
LEMMA RouteFits ==
  ASSUME TabTypes
  PROVE  /\ route.conn \in Connections \cup {Nothing} /\ route.leaf \in TabIds \cup {"index"}
         /\ route.conn = Nothing => route = Home
         /\ InWorkspace => route.conn \in Connections /\ route.conn # Nothing
  <1>1. CASE route = Home
    BY <1>1, TabAssumption DEF TabTypes, Home, InWorkspace
  <1>2. CASE route \in [conn : Connections, leaf : TabIds \cup {"index"}]
    BY <1>2, TabAssumption
  <1>. QED  BY <1>1, <1>2 DEF TabTypes, RoutePlaces

LEMMA RenderFits ==
  ASSUME TabTypes
  PROVE  /\ RouteRendered \in MountShape /\ RouteRendered.conn = RouteConnection
         /\ ~InWorkspace => RouteRendered = Unmounted /\ RouteConnection = Nothing
         /\ InWorkspace => /\ RouteConnection = route.conn /\ RouteRendered.leaf = route.leaf
                           /\ route.leaf \in TabIds =>
                                RouteRendered.title = LeafTitle(app, route.conn, route.leaf)
         /\ InWorkspace => \A m \in MountShape :
              m.conn = route.conn /\ m.leaf = route.leaf /\ m.title = RouteRendered.title => m = RouteRendered
  <1>1. CASE ~InWorkspace
    <2>1. RouteRendered = Unmounted /\ RouteConnection = Nothing
      BY <1>1 DEF RouteRendered, RouteConnection
    <2>2. Unmounted.conn = Nothing
      BY DEF Unmounted
    <2>. QED  BY <1>1, <2>1, <2>2 DEF MountShape
  <1>2. CASE InWorkspace
    <2>1. route.conn \in Connections /\ route.leaf \in TabIds \cup {"index"} /\ RouteConnection = route.conn
      BY <1>2, RouteFits DEF RouteConnection
    <2>2. PICK title : title = IF route.leaf = "index" THEN "" ELSE LeafTitle(app, route.conn, route.leaf)
      OBVIOUS
    <2>3. title \in Titles
      <3>1. "" \in Titles
        BY DEF Titles
      <3>2. route.leaf # "index" => LeafTitle(app, route.conn, route.leaf) \in Titles
        BY <2>1, LeafTitleFits DEF TabTypes
      <3>. QED  BY <2>2, <3>1, <3>2
    <2>4. PICK m : m = [conn |-> route.conn, leaf |-> route.leaf, title |-> title]
      OBVIOUS
    <2>5. RouteRendered = m
      BY <1>2, <2>2, <2>4 DEF RouteRendered
    <2>6. m \in MountShape /\ m.conn = route.conn /\ m.leaf = route.leaf /\ m.title = title
      BY <2>1, <2>3, <2>4 DEF MountShape
    <2>7. route.leaf \in TabIds => title = LeafTitle(app, route.conn, route.leaf)
      BY <2>2, TabAssumption
    <2>8. ASSUME NEW k \in MountShape, k.conn = route.conn, k.leaf = route.leaf, k.title = title
          PROVE  k = m
      <3>1. k # Unmounted
        BY <2>1, <2>8, TabAssumption DEF Unmounted
      <3>2. k \in [conn : Connections, leaf : TabIds \cup {"index"}, title : Titles]
        BY <3>1 DEF MountShape
      <3>3. k = [conn |-> k.conn, leaf |-> k.leaf, title |-> k.title]
        BY <3>2
      <3>. QED  BY <2>4, <2>8, <3>3
    <2>. QED  BY <1>2, <2>1, <2>5, <2>6, <2>7, <2>8
  <1>. QED  BY <1>1, <1>2

\* Once the effects have run, the store is at the route.
LEMMA SettledFits ==
  ASSUME TabTypes, FollowInv
  PROVE  /\ Settled <=> mounted = RouteRendered
         /\ Settled /\ InWorkspace => Here /\ app.tabsOf = route.conn
         /\ Settled /\ InWorkspace /\ route.leaf \in TabIds =>
              mounted.title = LeafTitle(app, route.conn, route.leaf)
         /\ mounted.conn = route.conn /\ InWorkspace => app.tabsOf = route.conn
  <1>1. mounted = RouteRendered => app.connection = RouteConnection
    BY RenderFits DEF FollowInv
  <1>2. Settled <=> mounted = RouteRendered
    BY <1>1 DEF Settled
  <1>3. mounted.conn = route.conn /\ InWorkspace => app.tabsOf = route.conn
    BY RouteFits DEF FollowInv
  <1>4. Settled /\ InWorkspace => Here
    BY <1>2, RenderFits DEF Here
  <1>5. Settled /\ InWorkspace /\ route.leaf \in TabIds => mounted.title = LeafTitle(app, route.conn, route.leaf)
    BY <1>2, RenderFits
  <1>. QED  BY <1>2, <1>3, <1>4, <1>5 DEF Here

\* What the effects of a render do to the store.
LEMMA CommitFits ==
  ASSUME TabInv, Commit
  PROVE  /\ Sound(app') /\ app'.connection = RouteConnection
         /\ RouteConnection # Nothing => app'.tabsOf = RouteConnection
         /\ DOMAIN app'.workspaces \subseteq DOMAIN app.workspaces \cup ({RouteConnection} \ {Nothing})
         /\ InWorkspace /\ route.leaf \in TabIds =>
              app'.active = route.leaf /\ route.leaf \in Ids(app'.tabs)
         /\ \A t \in closed : t.id \notin Ids(app.tabs) => t \notin Elements(app'.tabs)
  <1>0. TabTypes /\ FollowInv /\ Sound(app)
    BY DEF TabInv, TabTypes
  <1>1. mounted # RouteRendered
    BY <1>0, SettledFits DEF Commit
  <1>2. PICK registered : registered =
          IF RouteRendered # mounted /\ RouteRendered.leaf \in TabIds
            THEN OpenTab(app, Tab(RouteRendered.leaf, RouteRendered.title), RouteRendered.conn) ELSE app
    OBVIOUS
  <1>3. PICK entered : entered =
          IF registered.connection = RouteConnection THEN registered ELSE SetConnection(registered, RouteConnection)
    OBVIOUS
  <1>4. app' = IF RouteConnection \in titled THEN RenameTab(entered, "home", "server") ELSE entered
    BY <1>2, <1>3 DEF Commit
  <1>5. RouteConnection \in Connections \cup {Nothing} /\ Nothing \notin titled
    BY <1>0, RouteFits, RenderFits, TabAssumption DEF TabTypes
  <1>6. CASE InWorkspace /\ route.leaf \in TabIds
    <2>1. PICK t : t = Tab(RouteRendered.leaf, RouteRendered.title)
      OBVIOUS
    <2>2. /\ RouteRendered.leaf = route.leaf /\ RouteRendered.conn = route.conn /\ RouteConnection = route.conn
          /\ route.conn \in Connections /\ route.conn # Nothing
          /\ RouteRendered.title = LeafTitle(app, route.conn, route.leaf)
      BY <1>0, <1>6, RenderFits, RouteFits
    <2>3. t \in TabShape /\ t.id = route.leaf /\ t.title = LeafTitle(app, route.conn, route.leaf)
      <3>1. /\ LeafTitle(app, route.conn, route.leaf) \in Titles
            /\ KindOf[route.leaf] = "table" => LeafTitle(app, route.conn, route.leaf) = ""
        BY <1>0, <1>6, LeafTitleFits
      <3>. QED  BY <1>6, <2>1, <2>2, <3>1 DEF Tab, TabShape
    <2>4. registered = OpenTab(app, t, route.conn)
      BY <1>1, <1>2, <1>6, <2>1, <2>2
    <2>5. /\ Sound(registered) /\ registered.connection = app.connection /\ registered.tabsOf = route.conn
          /\ registered.active = route.leaf /\ route.leaf \in Ids(registered.tabs)
          /\ DOMAIN registered.workspaces = DOMAIN app.workspaces \cup {route.conn}
          /\ app.tabsOf = route.conn => Elements(registered.tabs) \subseteq Elements(app.tabs) \cup {t}
      BY <1>0, <2>2, <2>3, <2>4, OpenTabFits
    <2>6. /\ Sound(entered) /\ entered.connection = RouteConnection /\ entered.tabsOf = route.conn
          /\ entered.active = route.leaf /\ entered.tabs = registered.tabs
          /\ entered.workspaces = registered.workspaces
      BY <1>3, <1>5, <2>2, <2>5, SetFits
    <2>7. /\ Sound(app') /\ app'.connection = entered.connection /\ app'.tabsOf = entered.tabsOf
          /\ app'.active = entered.active /\ Ids(app'.tabs) = Ids(entered.tabs)
          /\ DOMAIN app'.workspaces \subseteq DOMAIN entered.workspaces \cup {route.conn}
          /\ app' = entered \/ app' = RenameTab(entered, "home", "server")
      <3>1. "home" \in TabIds /\ "server" \in Titles
        BY TabAssumption DEF Titles
      <3>. QED  BY <1>4, <2>6, <3>1, RenameFits
    <2>9. KindOf[route.leaf] = "chat" /\ route.conn \in titled => t.title = "server"
      <3>1. KindOf[route.leaf] = "chat" /\ route.conn \in titled => LeafTitle(app, route.conn, route.leaf) = "server"
        <4>1. PICK leaf \in TabIds : leaf = route.leaf
          BY <1>6
        <4>2. KindOf[leaf] = "chat" /\ route.conn \in titled => LeafTitle(app, route.conn, leaf) = "server"
          BY <1>0, LeafTitleFits
        <4>. QED  BY <4>1, <4>2
      <3>. QED  BY <2>3, <3>1
    <2>8. ASSUME NEW u \in closed, u.id \notin Ids(app.tabs) PROVE u \notin Elements(app'.tabs)
      <3>1. Here
        BY <1>6, <2>8 DEF TabInv, HereInv
      <3>2. app.tabsOf = route.conn
        BY <1>0, <1>6, <3>1, SettledFits DEF Here
      <3>3. SUFFICES ASSUME u \in Elements(app'.tabs) PROVE FALSE
        OBVIOUS
      <3>4. u.id \in Ids(registered.tabs)
        BY <2>6, <2>7, <3>3 DEF Ids, Elements
      <3>5. u.id = t.id
        BY <2>5, <2>8, <3>2, <3>4 DEF Ids, Elements
      <3>6. u \in Closing
        BY <2>3, <3>5 DEF Closing
      <3>7. \/ mounted.title = u.title
            \/ mounted.title = "server" /\ KindOf[route.leaf] = "chat" /\ route.conn \in titled
        BY <1>6, <2>8, <3>1, <3>6 DEF TabInv, HereInv, LeafHere
      <3>8. mounted.title # t.title
        BY <1>0, <1>1, <1>6, <2>2, <2>3, <3>1, RenderFits DEF Here, TabTypes
      <3>9. u.title # t.title
        BY <2>9, <3>7, <3>8
      <3>10. u \in Elements(registered.tabs) \/ (u = Tab("home", "server") /\ route.conn \in titled)
        <4>1. CASE route.conn \notin titled
          BY <1>4, <2>2, <2>6, <3>3, <4>1
        <4>2. CASE route.conn \in titled
          <5>1. "home" \in TabIds /\ "server" \in Titles
            BY TabAssumption DEF Titles
          <5>2. Elements(RenameTab(entered, "home", "server").tabs) \subseteq Elements(entered.tabs) \cup {Tab("home", "server")}
            BY <2>6, <5>1, RenameFits
          <5>. QED  BY <1>4, <2>2, <2>6, <3>3, <4>2, <5>2
        <4>. QED  BY <4>1, <4>2
      <3>11. CASE u \in Elements(registered.tabs)
        <4>1. u \in Elements(app.tabs) => u.id \in Ids(app.tabs)
          BY DEF Ids, Elements
        <4>. QED  BY <2>5, <2>8, <3>2, <3>9, <3>11, <4>1
      <3>12. CASE u = Tab("home", "server") /\ route.conn \in titled
        <4>1. u.id = "home" /\ u.title = "server"
          BY <3>12 DEF Tab
        <4>2. route.leaf = "home" /\ KindOf[route.leaf] = "chat"
          BY <2>3, <3>5, <4>1, TabAssumption
        <4>3. t.title = "server"
          BY <2>9, <3>12, <4>2
        <4>. QED  BY <3>9, <4>1, <4>3
      <3>. QED  BY <3>10, <3>11, <3>12
    <2>. QED  BY <1>5, <1>6, <2>2, <2>5, <2>6, <2>7, <2>8
  <1>7. CASE ~(InWorkspace /\ route.leaf \in TabIds)
    <2>1. registered = app
      <3>1. CASE InWorkspace
        BY <1>0, <1>2, <1>7, <3>1, RenderFits
      <3>2. CASE ~InWorkspace
        <4>1. RouteRendered.leaf = Nothing
          BY <1>0, <3>2, RenderFits DEF Unmounted
        <4>. QED  BY <1>2, <4>1, TabAssumption
      <3>. QED  BY <3>1, <3>2
    <2>2. /\ Sound(entered) /\ entered.connection = RouteConnection /\ entered.workspaces = app.workspaces
          /\ RouteConnection # Nothing => entered.tabsOf = RouteConnection
          /\ RouteConnection = Nothing \/ app.connection = RouteConnection => entered.tabs = app.tabs
      BY <1>0, <1>3, <1>5, <2>1, SetFits DEF FollowInv
    <2>3. CASE RouteConnection \notin titled
      <3>1. app' = entered
        BY <1>4, <2>3
      <3>2. ASSUME NEW u \in closed, u.id \notin Ids(app.tabs) PROVE u \notin Elements(app'.tabs)
        <4>1. entered.tabs = app.tabs
          BY <1>0, <2>2, <3>2, RenderFits DEF TabInv, HereInv, Here, FollowInv
        <4>. QED  BY <3>1, <3>2, <4>1 DEF Ids, Elements
      <3>. QED  BY <1>7, <2>2, <3>1, <3>2
    <2>4. CASE RouteConnection \in titled
      <3>1. app' = RenameTab(entered, "home", "server") /\ RouteConnection # Nothing
        BY <1>4, <1>5, <2>4
      <3>2. "home" \in TabIds /\ "server" \in Titles
        BY TabAssumption DEF Titles
      <3>3. /\ Sound(app') /\ app'.connection = entered.connection /\ app'.tabsOf = entered.tabsOf
            /\ Ids(app'.tabs) = Ids(entered.tabs)
            /\ DOMAIN app'.workspaces \subseteq DOMAIN entered.workspaces \cup ({entered.tabsOf} \ {Nothing})
        BY <2>2, <3>1, <3>2, RenameFits
      <3>4. ASSUME NEW u \in closed, u.id \notin Ids(app.tabs) PROVE u \notin Elements(app'.tabs)
        <4>1. entered.tabs = app.tabs
          BY <1>0, <2>2, <3>4, RenderFits DEF TabInv, HereInv, Here, FollowInv
        <4>2. Elements(app'.tabs) = {x \in Elements(app'.tabs) : x.id \in Ids(app.tabs)}
          BY <3>3, <4>1 DEF Ids, Elements
        <4>. QED  BY <3>4, <4>2
      <3>. QED  BY <1>7, <2>2, <3>1, <3>3, <3>4
    <2>. QED  BY <2>3, <2>4
  <1>. QED  BY <1>6, <1>7

LEMMA CommitKeeps == ASSUME TabInv, Commit PROVE TabInv'
  <1>0. TabTypes /\ FollowInv /\ KeptInv /\ HereInv
    BY DEF TabInv
  <1>1. /\ mounted' = RouteRendered
        /\ UNCHANGED <<sqlDrafts, connections, connectionList, titled, route, going, opening, closed, late>>
    BY DEF Commit
  <1>2. TabTypes'
    BY <1>0, <1>1, RenderFits, CommitFits DEF TabTypes
  <1>3. FollowInv'
    <2>1. connections \subseteq connectionList \/ (connectionList = {} /\ RouteRendered = Unmounted)
      <3>1. connectionList = {} => ~InWorkspace
        BY DEF InWorkspace
      <3>. QED  BY <1>0, <3>1, RenderFits DEF FollowInv
    <2>. QED  BY <1>0, <1>1, <2>1, RenderFits, CommitFits DEF FollowInv
  <1>4. KeptInv'
    <2>1. RouteConnection \in connections \cup late \cup {Nothing}
      BY <1>0 DEF KeptInv, RouteConnection
    <2>. QED  BY <1>0, <1>1, <2>1, CommitFits DEF KeptInv
  <1>5. InWorkspace' = InWorkspace /\ Closing' = Closing
    BY <1>1 DEF InWorkspace, Closing
  <1>6. InWorkspace => Here'
    BY <1>0, <1>1, <1>5, RenderFits DEF Here
  <1>7. LeafHere' => app'.active = route'.leaf /\ route'.leaf \in Ids(app'.tabs)
    BY <1>1, <1>5, CommitFits DEF LeafHere, Here
  <1>8. \A t \in Closing' : t.id = route'.leaf
    BY DEF Closing
  <1>9. HereInv'
    BY <1>0, <1>1, <1>5, <1>6, <1>7, <1>8 DEF HereInv
  <1>. QED  BY <1>2, <1>3, <1>4, <1>9 DEF TabInv

LEMMA NavigatedKeeps == ASSUME TabInv, Navigated PROVE TabInv'
  <1>0. TabTypes /\ FollowInv /\ KeptInv /\ HereInv
    BY DEF TabInv
  <1>1. /\ going \in RoutePlaces /\ route' = going /\ going' = Stay
        /\ mounted.conn = RouteRendered.conn /\ mounted.leaf = RouteRendered.leaf
        /\ late' = IF going.conn \in connections \cup {Nothing} THEN late ELSE late \cup {going.conn}
        /\ closed' = IF going = route THEN closed ELSE {}
        /\ UNCHANGED <<app, sqlDrafts, connections, connectionList, titled, mounted, opening>>
    BY <1>0 DEF Navigated, TabTypes
  <1>2. going.conn \in Connections \cup {Nothing}
    BY <1>1 DEF RoutePlaces, Home
  <1>3. TabTypes'
    BY <1>0, <1>1, <1>2 DEF TabTypes
  <1>4. FollowInv'
    BY <1>0, <1>1 DEF FollowInv
  <1>5. KeptInv'
    BY <1>0, <1>1 DEF KeptInv
  <1>6. CASE going = route
    <2>1. UNCHANGED <<route, mounted, connectionList, closed, app, titled, connections>>
      BY <1>1, <1>6
    <2>2. InWorkspace' = InWorkspace /\ Here' = Here /\ LeafHere' = LeafHere /\ Closing' = Closing
      BY <2>1 DEF InWorkspace, Here, LeafHere, Closing
    <2>3. going \in {Stay, route}
      BY <1>6
    <2>4. LeafHere /\ Closing = {} => route.leaf \in Ids(app.tabs) /\ app.active = route.leaf
      BY <1>0, <2>3 DEF HereInv
    <2>. QED  BY <1>0, <1>3, <1>4, <1>5, <2>1, <2>2, <2>4 DEF TabInv, HereInv
  <1>7. CASE going # route
    <2>1. closed' = {} /\ Closing' = {}
      BY <1>1, <1>7 DEF Closing
    <2>2. ~Here'
      <3>1. SUFFICES ASSUME Here' PROVE FALSE
        OBVIOUS
      <3>2. mounted.conn = going.conn /\ mounted.leaf = going.leaf /\ going.conn \in connectionList
        BY <1>1, <3>1 DEF Here, InWorkspace
      <3>3. going.conn # Nothing
        BY <1>0, <3>2, TabAssumption DEF TabTypes
      <3>4. InWorkspace
        BY <1>0, <1>1, <3>2, <3>3, RenderFits DEF Unmounted
      <3>5. going.conn = route.conn /\ going.leaf = route.leaf
        BY <1>0, <1>1, <3>2, <3>4, RenderFits
      <3>6. ASSUME NEW p \in RoutePlaces, p.conn # Nothing PROVE p = [conn |-> p.conn, leaf |-> p.leaf]
        BY <3>6 DEF RoutePlaces, Home
      <3>7. route \in RoutePlaces /\ route.conn # Nothing
        BY <1>0, <3>3, <3>5 DEF TabTypes
      <3>8. going = [conn |-> going.conn, leaf |-> going.leaf] /\ route = [conn |-> route.conn, leaf |-> route.leaf]
        BY <1>1, <3>3, <3>6, <3>7
      <3>. QED  BY <1>7, <3>5, <3>8
    <2>3. HereInv'
      BY <2>1, <2>2 DEF HereInv, LeafHere
    <2>. QED  BY <1>3, <1>4, <1>5, <2>3 DEF TabInv
  <1>. QED  BY <1>6, <1>7

\* In a strip: the store is at the route, whose effects ran.
LEMMA InStripFits ==
  ASSUME TabInv, InStrip
  PROVE  /\ Settled /\ InWorkspace /\ Here /\ app.tabsOf = route.conn /\ app.connection = route.conn
         /\ route.conn \in Connections /\ route.conn # Nothing /\ connections \subseteq connectionList
         /\ route.leaf \in TabIds => mounted.title = LeafTitle(app, route.conn, route.leaf)
         /\ UNCHANGED <<sqlDrafts, connections, connectionList, titled, route, mounted, opening, late>>
         /\ InWorkspace' = InWorkspace /\ Here' = Here /\ LeafHere' = LeafHere
  <1>1. TabTypes /\ FollowInv
    BY DEF TabInv
  <1>2. Settled /\ InWorkspace /\ UNCHANGED <<sqlDrafts, connections, connectionList, titled, route, mounted, opening, late>>
    BY DEF InStrip, User
  <1>3. Here /\ app.tabsOf = route.conn /\ (route.leaf \in TabIds => mounted.title = LeafTitle(app, route.conn, route.leaf))
    BY <1>1, <1>2, SettledFits
  <1>4. route.conn \in Connections /\ route.conn # Nothing
    BY <1>1, <1>2, RouteFits
  <1>5. app.connection = route.conn
    BY <1>1, <1>3 DEF FollowInv, Here
  <1>6. connections \subseteq connectionList
    BY <1>1, <1>2 DEF FollowInv, InWorkspace
  <1>7. InWorkspace' = InWorkspace /\ Here' = Here /\ LeafHere' = LeafHere
    BY <1>2 DEF InWorkspace, Here, LeafHere
  <1>. QED  BY <1>2, <1>3, <1>4, <1>5, <1>6, <1>7

\* A place in a workspace.
LEMMA PlaceFits ==
  ASSUME NEW c \in Connections, NEW leaf \in TabIds \cup {"index"}
  PROVE  RouteAt(c, leaf) \in RoutePlaces /\ RouteAt(c, leaf).leaf = leaf /\ RouteAt(c, leaf).conn = c /\ RouteAt(c, leaf) # Stay
  <1>1. c # Nothing
    BY TabAssumption
  <1>2. PICK p : p = RouteAt(c, leaf)
    OBVIOUS
  <1>3. p \in [conn : Connections, leaf : TabIds \cup {"index"}] /\ p.conn = c /\ p.leaf = leaf
    BY <1>2 DEF RouteAt
  <1>4. Stay.conn = Nothing
    BY DEF Stay
  <1>. QED  BY <1>1, <1>2, <1>3, <1>4 DEF RoutePlaces

\* Opening and activating.
LEMMA OpeningKeeps ==
  ASSUME TabInv, NEW t \in TabShape, InStrip, app' = OpenTab(app, t, route.conn),
         going' = RouteAt(route.conn, t.id), closed' = closed
  PROVE  TabInv'
  <1>0. TabTypes /\ FollowInv /\ KeptInv /\ HereInv /\ Sound(app)
    BY DEF TabInv, TabTypes
  <1>1. t.id \in TabIds
    BY DEF TabShape
  <1>2. /\ Sound(app') /\ app'.connection = app.connection /\ app'.tabsOf = route.conn
        /\ app'.active = t.id /\ t.id \in Ids(app'.tabs) /\ Ids(app.tabs) \subseteq Ids(app'.tabs)
        /\ DOMAIN app'.workspaces = DOMAIN app.workspaces \cup {route.conn}
    BY <1>0, InStripFits, OpenTabFits
  <1>3. going' \in RoutePlaces /\ going' # Stay /\ going'.leaf = t.id
    BY <1>1, InStripFits, PlaceFits
  <1>4. TabTypes'
    BY <1>0, <1>2, <1>3, InStripFits DEF TabTypes
  <1>5. FollowInv'
    BY <1>0, <1>2, InStripFits DEF FollowInv
  <1>6. KeptInv'
    BY <1>0, <1>2, InStripFits DEF KeptInv
  <1>7. HereInv'
    <2>1. Closing' = Closing
      BY InStripFits DEF Closing
    <2>2. LeafHere /\ Closing = {} => route.leaf \in Ids(app'.tabs) /\ (app'.active = route.leaf \/ going' \notin {Stay, route})
      BY <1>0, <1>2, <1>3 DEF HereInv
    <2>3. LeafHere => \A u \in Closing : u.id \notin Ids(app'.tabs) =>
             \/ mounted.title = u.title
             \/ mounted.title = "server" /\ KindOf[route.leaf] = "chat" /\ route.conn \in titled
      BY <1>0, <1>2 DEF HereInv
    <2>. QED  BY <1>0, <2>1, <2>2, <2>3, InStripFits DEF HereInv
  <1>. QED  BY <1>4, <1>5, <1>6, <1>7 DEF TabInv

LEMMA OpenFromUiKeeps ==
  ASSUME TabInv, NEW id \in TabIds, OpenFromUi(id, IF KindOf[id] = "table" THEN "" ELSE "given")
  PROVE  TabInv'
  <1>1. PICK t : t = Tab(id, IF KindOf[id] = "table" THEN "" ELSE "given")
    OBVIOUS
  <1>2. t \in TabShape /\ t.id = id
    BY <1>1 DEF Tab, TabShape, Titles
  <1>. QED  BY <1>1, <1>2, OpeningKeeps DEF OpenFromUi

LEMMA ActivateTabKeeps ==
  ASSUME TabInv, NEW i, ActivateTab(i)
  PROVE  TabInv'
  <1>1. app.tabs[i] \in TabShape
    BY DEF ActivateTab, TabInv, TabTypes, Sound, Strip
  <1>. QED  BY <1>1, OpeningKeeps DEF ActivateTab

LEMMA CloseFromUiKeeps == ASSUME TabInv, NEW id, CloseFromUi(id) PROVE TabInv'
  <1>0. TabTypes /\ FollowInv /\ KeptInv /\ HereInv /\ Sound(app)
    BY DEF TabInv, TabTypes
  <1>1. /\ InStrip /\ id \in Ids(app.tabs) /\ app' = CloseTab(app, id)
        /\ going' = IF app.active # id THEN going
                    ELSE RouteAt(route.conn, IF AfterClose(app, id) = Nothing THEN "index" ELSE AfterClose(app, id))
        /\ closed' = {t \in closed : t.id # id} \cup {t \in Elements(app.tabs) : t.id = id}
    BY DEF CloseFromUi
  <1>2. /\ Sound(app') /\ app'.connection = app.connection /\ app'.tabsOf = route.conn
        /\ app'.active = AfterClose(app, id) /\ Ids(app'.tabs) = Ids(app.tabs) \ {id}
        /\ DOMAIN app'.workspaces = DOMAIN app.workspaces \cup {route.conn}
    BY <1>0, <1>1, InStripFits, CloseFits
  <1>3. app.tabs \in Seq(TabShape) /\ Elements(app.tabs) \subseteq TabShape /\ Ids(app.tabs) \subseteq TabIds
    BY <1>0, IdsTyped DEF Sound, Strip, Elements
  <1>4. AfterClose(app, id) \in (Ids(app.tabs) \ {id}) \cup {Nothing}
    BY <1>0, <1>1, AfterCloseFits, WithoutFits
  <1>5. PICK leaf \in TabIds \cup {"index"} : leaf = IF AfterClose(app, id) = Nothing THEN "index" ELSE AfterClose(app, id)
    BY <1>3, <1>4
  <1>6. app.active = id => going' = RouteAt(route.conn, leaf)
    BY <1>1, <1>5
  <1>7. going' \in RoutePlaces \cup {Stay}
    BY <1>0, <1>1, <1>6, InStripFits, PlaceFits DEF TabTypes
  <1>8. TabTypes'
    BY <1>0, <1>1, <1>2, <1>3, <1>7, InStripFits DEF TabTypes
  <1>9. FollowInv'
    BY <1>0, <1>1, <1>2, InStripFits DEF FollowInv
  <1>10. KeptInv'
    BY <1>0, <1>1, <1>2, InStripFits DEF KeptInv
  <1>11. Closing' = {t \in closed' : t.id = route.leaf}
    BY <1>1, InStripFits DEF Closing
  <1>12. LeafHere /\ Closing' = {} => route.leaf \in Ids(app'.tabs) /\ (app'.active = route.leaf \/ going' \notin {Stay, route})
    <2> SUFFICES ASSUME LeafHere, Closing' = {}
                 PROVE  route.leaf \in Ids(app'.tabs) /\ (app'.active = route.leaf \/ going' \notin {Stay, route})
      OBVIOUS
    <2>1. route.leaf # id
      <3>1. \E t \in Elements(app.tabs) : t.id = id
        BY <1>1 DEF Ids, Elements
      <3>. QED  BY <1>1, <1>11, <3>1
    <2>2. Closing = {}
      BY <1>1, <1>11, <2>1 DEF Closing
    <2>3. route.leaf \in Ids(app.tabs) /\ (app.active = route.leaf \/ going \notin {Stay, route})
      BY <1>0, <2>2 DEF HereInv
    <2>4. CASE app.active # id
      BY <1>0, <1>1, <1>2, <2>1, <2>3, <2>4, AfterCloseFits
    <2>5. CASE app.active = id
      <3>1. going' # Stay /\ going'.leaf = leaf
        BY <1>1, <1>6, <2>5, InStripFits, PlaceFits
      <3>2. going' = route => app'.active = route.leaf
        BY <1>2, <1>5, <3>1, TabAssumption DEF LeafHere
      <3>. QED  BY <1>2, <2>1, <2>3, <3>1, <3>2
    <2>. QED  BY <2>4, <2>5
  <1>13. LeafHere => \A t \in Closing' : t.id \notin Ids(app'.tabs) =>
             \/ mounted.title = t.title
             \/ mounted.title = "server" /\ KindOf[route.leaf] = "chat" /\ route.conn \in titled
    <2> SUFFICES ASSUME LeafHere, NEW t \in Closing', t.id \notin Ids(app'.tabs)
                 PROVE  \/ mounted.title = t.title
                        \/ mounted.title = "server" /\ KindOf[route.leaf] = "chat" /\ route.conn \in titled
      OBVIOUS
    <2>1. t.id = route.leaf
      BY <1>11
    <2>2. CASE t.id # id
      <3>1. t \in Closing /\ t.id \notin Ids(app.tabs)
        BY <1>1, <1>2, <1>11, <2>2 DEF Closing
      <3>. QED  BY <1>0, <3>1 DEF HereInv
    <2>3. CASE t.id = id
      <3>1. t \in Elements(app.tabs)
        BY <1>1, <1>11, <2>3
      <3>2. PICK k \in TabIds : k = route.leaf
        BY DEF LeafHere
      <3>3. mounted.title = LeafTitle(app, route.conn, k)
        BY <1>1, <3>2, InStripFits
      <3>4. CASE KindOf[k] = "chat" /\ route.conn \in titled
        <4>1. LeafTitle(app, route.conn, k) = "server"
          BY <1>0, <3>4, LeafTitleFits
        <4>. QED  BY <3>2, <3>3, <3>4, <4>1
      <3>5. CASE ~(KindOf[k] = "chat" /\ route.conn \in titled)
        <4>1. \A u \in Elements(app.tabs) : u.id = k => LeafTitle(app, route.conn, k) = u.title
          BY <1>0, <3>5, LeafTitleFits
        <4>. QED  BY <2>1, <3>1, <3>2, <3>3, <4>1
      <3>. QED  BY <3>4, <3>5
    <2>. QED  BY <2>2, <2>3
  <1>14. HereInv'
    BY <1>1, <1>12, <1>13, InStripFits DEF HereInv
  <1>. QED  BY <1>8, <1>9, <1>10, <1>14 DEF TabInv

\* Nothing of the store, the route and the lists changes, nor do the effects.
LEMMA QuietFits ==
  ASSUME TabInv, UNCHANGED <<app, connections, connectionList, titled, route, mounted, closed, late>>,
         sqlDrafts' \subseteq sqlDrafts \cup ({route.conn} \ {Nothing}), opening' \subseteq Connections,
         going' \in RoutePlaces \cup {Stay},
         LeafHere /\ Closing = {} => app.active = route.leaf \/ going' \notin {Stay, route}
  PROVE  TabInv'
  <1>0. TabTypes /\ FollowInv /\ KeptInv /\ HereInv
    BY DEF TabInv
  <1>1. InWorkspace' = InWorkspace /\ Here' = Here /\ LeafHere' = LeafHere /\ Closing' = Closing
    BY DEF InWorkspace, Here, LeafHere, Closing
  <1>2. TabTypes'
    BY <1>0, RouteFits DEF TabTypes
  <1>3. FollowInv' /\ KeptInv'
    BY <1>0 DEF FollowInv, KeptInv
  <1>4. HereInv'
    BY <1>0, <1>1 DEF HereInv
  <1>. QED  BY <1>2, <1>3, <1>4 DEF TabInv

LEMMA TypeSqlKeeps == ASSUME TabInv, TypeSql PROVE TabInv'
  <1>1. route.conn # Nothing
    BY RouteFits DEF TypeSql, TabInv
  <1>. QED  BY <1>1, QuietFits DEF TypeSql, TabInv, TabTypes, HereInv

LEMMA NavigateKeeps ==
  ASSUME TabInv, NEW place, place \in {Home} \cup {RouteAt(c, "home") : c \in Connections}, Navigate(place)
  PROVE  TabInv'
  <1>1. place \in RoutePlaces /\ place # Stay
    <2>1. Home \in RoutePlaces /\ Home # Stay
      BY DEF RoutePlaces, Home, Stay, Nothing
    <2>. QED  BY <2>1, PlaceFits, TabAssumption
  <1>. QED  BY <1>1, QuietFits DEF Navigate, TabInv, TabTypes

LEMMA ConnectKeeps == ASSUME TabInv, NEW c \in Connections, Connect(c) PROVE TabInv'
  BY QuietFits DEF Connect, OnHome, TabInv, TabTypes, HereInv

LEMMA ConnectFailsKeeps == ASSUME TabInv, NEW c \in Connections, ConnectFails(c) PROVE TabInv'
  BY QuietFits DEF ConnectFails, TabInv, TabTypes, HereInv

LEMMA ConnectSucceedsKeeps == ASSUME TabInv, NEW c \in Connections, ConnectSucceeds(c) PROVE TabInv'
  <1>0. TabTypes /\ FollowInv /\ HereInv /\ Sound(app)
    BY DEF TabInv, TabTypes
  <1>1. PICK leaf \in TabIds : leaf = RestorableTab(app, c)
    BY <1>0, RestorableFits
  <1>2. going' = RouteAt(c, leaf)
    BY <1>1 DEF ConnectSucceeds
  <1>3. going' \in RoutePlaces /\ going' # Stay /\ going'.leaf = leaf /\ going'.conn = c
    BY <1>2, PlaceFits
  <1>4. LeafHere /\ Closing = {} => app.active = route.leaf \/ going' \notin {Stay, route}
    <2> SUFFICES ASSUME LeafHere, Closing = {}, going' = route PROVE app.active = route.leaf
      BY <1>3
    <2>1. app.tabsOf = c
      BY <1>0, <1>3, SettledFits DEF LeafHere, Here
    <2>2. app.tabs # <<>>
      BY <1>0 DEF HereInv, Ids
    <2>. QED  BY <1>0, <1>1, <1>3, <2>1, <2>2, RestorableFits
  <1>. QED  BY <1>0, <1>3, <1>4, QuietFits DEF ConnectSucceeds, TabTypes

LEMMA ThreadsArriveKeeps == ASSUME TabInv, NEW c \in Connections, ThreadsArrive(c) PROVE TabInv'
  <1>0. TabTypes /\ FollowInv /\ KeptInv /\ HereInv /\ Sound(app)
    BY DEF TabInv, TabTypes
  <1>1. /\ InWorkspace /\ route.conn = c /\ titled' = titled \cup {c}
        /\ app' = IF mounted.conn = c THEN RenameTab(app, "home", "server") ELSE app
        /\ UNCHANGED <<sqlDrafts, connections, connectionList, route, going, mounted, opening, closed, late>>
    BY DEF ThreadsArrive
  <1>2. "home" \in TabIds /\ "server" \in Titles /\ c # Nothing
    BY TabAssumption DEF Titles
  <1>3. /\ Sound(app') /\ app'.connection = app.connection /\ app'.tabsOf = app.tabsOf
        /\ app'.active = app.active /\ Ids(app'.tabs) = Ids(app.tabs)
        /\ DOMAIN app'.workspaces \subseteq DOMAIN app.workspaces \cup {c}
    <2>1. CASE mounted.conn = c
      <3>1. app.tabsOf = c
        BY <1>0, <1>1, <2>1, SettledFits
      <3>. QED  BY <1>0, <1>1, <1>2, <2>1, <3>1, RenameFits
    <2>2. CASE mounted.conn # c
      BY <1>0, <1>1, <2>2
    <2>. QED  BY <2>1, <2>2
  <1>4. TabTypes'
    BY <1>0, <1>1, <1>3 DEF TabTypes
  <1>5. FollowInv'
    BY <1>0, <1>1, <1>3 DEF FollowInv
  <1>6. KeptInv'
    BY <1>0, <1>1, <1>2, <1>3 DEF KeptInv
  <1>7. InWorkspace' = InWorkspace /\ Here' = Here /\ LeafHere' = LeafHere /\ Closing' = Closing
    BY <1>1 DEF InWorkspace, Here, LeafHere, Closing
  <1>8. HereInv'
    BY <1>0, <1>1, <1>3, <1>7 DEF HereInv
  <1>. QED  BY <1>4, <1>5, <1>6, <1>8 DEF TabInv

\* On the connections screen nothing is rendered of a workspace.
LEMMA AwayFits ==
  ASSUME TabInv, route = Home
  PROVE  route.conn = Nothing /\ ~InWorkspace /\ closed = {}
  <1>1. route.conn = Nothing
    BY DEF Home
  <1>. QED  BY <1>1, TabAssumption DEF InWorkspace, TabInv, TabTypes, HereInv

LEMMA CreateKeeps == ASSUME TabInv, NEW c \in Connections, Create(c) PROVE TabInv'
  <1>0. TabTypes /\ FollowInv /\ KeptInv /\ HereInv
    BY DEF TabInv
  <1>1. /\ route = Home /\ connections' = connections \cup {c} /\ connectionList' = connections'
        /\ opening' = opening \cup {c}
        /\ UNCHANGED <<app, sqlDrafts, titled, route, going, mounted, closed, late>>
    BY DEF Create, OnHome
  <1>2. TabTypes'
    BY <1>0, <1>1 DEF TabTypes
  <1>3. FollowInv' /\ KeptInv'
    BY <1>0, <1>1 DEF FollowInv, KeptInv
  <1>4. route.conn = Nothing /\ closed = {}
    BY <1>1, AwayFits
  <1>5. ~InWorkspace'
    BY <1>1, <1>2, <1>4, TabAssumption DEF InWorkspace, TabTypes
  <1>6. HereInv'
    BY <1>1, <1>4, <1>5 DEF HereInv, LeafHere, Here
  <1>. QED  BY <1>2, <1>3, <1>6 DEF TabInv

LEMMA DeleteKeeps == ASSUME TabInv, NEW c \in Connections, Delete(c) PROVE TabInv'
  <1>0. TabTypes /\ FollowInv /\ KeptInv /\ HereInv /\ Sound(app)
    BY DEF TabInv, TabTypes
  <1>1. /\ Settled /\ route = Home /\ c \in connections /\ connections' = connections \ {c}
        /\ app' = RemoveConnectionWorkspace(app, c) /\ sqlDrafts' = sqlDrafts \ {c}
        /\ UNCHANGED <<connectionList, titled, route, going, mounted, opening, closed, late>>
    BY DEF Delete, User
  <1>2. /\ Sound(app') /\ app'.connection = app.connection
        /\ DOMAIN app'.workspaces = DOMAIN app.workspaces \ {c}
    BY <1>0, <1>1, RemoveFits
  <1>3. route.conn = Nothing /\ closed = {} /\ ~InWorkspace
    BY <1>1, AwayFits
  <1>4. app.connection = Nothing
    BY <1>0, <1>1, <1>3, RenderFits DEF Settled
  <1>5. TabTypes'
    BY <1>0, <1>1, <1>2 DEF TabTypes
  <1>6. FollowInv'
    BY <1>0, <1>1, <1>2, <1>4 DEF FollowInv
  <1>7. KeptInv'
    BY <1>0, <1>1, <1>2, <1>3 DEF KeptInv
  <1>8. HereInv'
    BY <1>1, <1>3 DEF HereInv, LeafHere, Here, InWorkspace
  <1>. QED  BY <1>5, <1>6, <1>7, <1>8 DEF TabInv

LEMMA ListArrivesKeeps == ASSUME TabInv, ListArrives PROVE TabInv'
  <1>0. TabTypes /\ FollowInv /\ KeptInv /\ HereInv
    BY DEF TabInv
  <1>1. /\ connectionList' = connections
        /\ UNCHANGED <<app, sqlDrafts, connections, titled, route, going, mounted, opening, closed, late>>
    BY DEF ListArrives
  <1>2. TabTypes' /\ FollowInv' /\ KeptInv'
    BY <1>0, <1>1 DEF TabTypes, FollowInv, KeptInv
  <1>3. Here' => Here
    <2>1. SUFFICES ASSUME Here' PROVE Here
      OBVIOUS
    <2>2. route.conn \in connections /\ mounted.conn = route.conn /\ mounted.leaf = route.leaf
      BY <1>1, <2>1 DEF Here, InWorkspace
    <2>3. route.conn # Nothing
      BY <1>0, <2>2, TabAssumption DEF TabTypes
    <2>4. mounted # Unmounted
      BY <2>2, <2>3 DEF Unmounted
    <2>. QED  BY <1>0, <2>2, <2>4 DEF FollowInv, Here, InWorkspace
  <1>4. closed # {} /\ InWorkspace' => Here'
    BY <1>0, <1>1 DEF HereInv, Here, InWorkspace
  <1>5. Closing' = Closing /\ (LeafHere' => LeafHere)
    BY <1>1, <1>3 DEF Closing, LeafHere
  <1>6. HereInv'
    BY <1>0, <1>1, <1>4, <1>5 DEF HereInv
  <1>. QED  BY <1>2, <1>6 DEF TabInv

LEMMA ReloadKeeps == ASSUME TabInv, Reload PROVE TabInv'
  <1>0. TabTypes /\ FollowInv /\ KeptInv /\ StripsSaved(app) /\ app \in AppShape
    BY DEF TabInv, TabTypes, Sound, StripsSaved
  <1>1. PICK none \in Seq(TabShape) : none = <<>>
    <2>1. <<>> \in Seq(TabShape)
      OBVIOUS
    <2>. QED  BY <2>1
  <1>2. /\ app' = [app EXCEPT !.connection = Nothing, !.tabsOf = Nothing, !.tabs = none, !.active = Nothing]
        /\ connectionList' = {} /\ titled' = {} /\ mounted' = Unmounted /\ opening' = {} /\ going' = Stay /\ closed' = {}
        /\ UNCHANGED <<sqlDrafts, connections, route, late>>
    BY <1>1 DEF Reload
  <1>3. /\ app' \in AppShape /\ app'.connection = Nothing /\ app'.tabsOf = Nothing /\ app'.tabs = none
        /\ app'.active = Nothing /\ app'.workspaces = app.workspaces
    BY <1>0, <1>2 DEF AppShape
  <1>4. Sound(app')
    BY <1>0, <1>1, <1>3 DEF Sound, StripsSaved, Strip, OnePerId
  <1>5. TabTypes'
    BY <1>0, <1>2, <1>4 DEF TabTypes, MountShape
  <1>6. FollowInv'
    <2>1. Unmounted.conn = Nothing
      BY DEF Unmounted
    <2>. QED  BY <1>2, <1>3, <2>1 DEF FollowInv
  <1>7. KeptInv'
    BY <1>0, <1>2, <1>3 DEF KeptInv
  <1>8. HereInv'
    BY <1>2 DEF HereInv, LeafHere, Here, InWorkspace
  <1>. QED  BY <1>5, <1>6, <1>7, <1>8 DEF TabInv

LEMMA TabStart == TabInit => TabInv
  <1> SUFFICES ASSUME TabInit PROVE TabInv
    OBVIOUS
  <1>1. PICK none \in Seq(TabShape) : none = <<>>
    <2>1. <<>> \in Seq(TabShape)
      OBVIOUS
    <2>. QED  BY <2>1
  <1>2. PICK maps \in StripMaps : maps = [c \in {} |-> EmptyWorkspace]
    <2>1. [c \in {} |-> EmptyWorkspace] \in [{} -> StripShape] /\ {} \in SUBSET Connections
      OBVIOUS
    <2>. QED  BY <2>1 DEF StripMaps
  <1>3. app = [connection |-> Nothing, tabsOf |-> Nothing, tabs |-> none, active |-> Nothing, workspaces |-> maps]
    BY <1>1, <1>2 DEF TabInit
  <1>4. /\ app \in AppShape /\ app.connection = Nothing /\ app.tabsOf = Nothing /\ app.tabs = none
        /\ app.active = Nothing /\ app.workspaces = maps
    BY <1>3 DEF AppShape
  <1>5. DOMAIN maps = {}
    BY <1>2
  <1>6. Sound(app)
    BY <1>1, <1>4, <1>5 DEF Sound, StripsSaved, Strip, OnePerId
  <1>7. /\ sqlDrafts = {} /\ connectionList = connections /\ titled = {} /\ route = Home /\ going = Stay
        /\ mounted = Unmounted /\ opening = {} /\ closed = {} /\ late = {} /\ connections \subseteq Connections
    BY TabAssumption DEF TabInit
  <1>8. TabTypes
    BY <1>6, <1>7 DEF TabTypes, RoutePlaces, MountShape
  <1>9. Home.conn = Nothing /\ Unmounted.conn = Nothing
    BY DEF Home, Unmounted
  <1>10. FollowInv /\ KeptInv
    BY <1>4, <1>5, <1>7, <1>9 DEF FollowInv, KeptInv
  <1>11. ~InWorkspace
    BY <1>7, <1>9, TabAssumption DEF InWorkspace
  <1>12. HereInv
    BY <1>7, <1>11 DEF HereInv, LeafHere, Here
  <1>. QED  BY <1>8, <1>10, <1>12 DEF TabInv

LEMMA TabStep == TabInv /\ TabNext => TabInv'
  <1> SUFFICES ASSUME TabInv, TabNext PROVE TabInv'
    OBVIOUS
  <1>1. CASE \E c \in Connections : Navigate(RouteAt(c, "home"))
    BY <1>1, NavigateKeeps
  <1>2. CASE Navigate(Home)
    BY <1>2, NavigateKeeps
  <1>3. CASE \E id \in TabIds : OpenFromUi(id, IF KindOf[id] = "table" THEN "" ELSE "given")
    BY <1>3, OpenFromUiKeeps
  <1>4. CASE \E c \in Connections : ThreadsArrive(c) \/ Connect(c) \/ Create(c) \/ ConnectSucceeds(c) \/ ConnectFails(c) \/ Delete(c)
    BY <1>4, ThreadsArriveKeeps, ConnectKeeps, CreateKeeps, ConnectSucceedsKeeps, ConnectFailsKeeps, DeleteKeeps
  <1>5. CASE (\E i \in 1..Cardinality(TabIds) : ActivateTab(i)) \/ (\E id \in TabIds : CloseFromUi(id))
    BY <1>5, ActivateTabKeeps, CloseFromUiKeeps
  <1>6. CASE Commit \/ Navigated \/ TypeSql \/ ListArrives \/ Reload
    BY <1>6, CommitKeeps, NavigatedKeeps, TypeSqlKeeps, ListArrivesKeeps, ReloadKeeps
  <1>. QED  BY <1>1, <1>2, <1>3, <1>4, <1>5, <1>6 DEF TabNext

LEMMA TabRest == TabInv /\ UNCHANGED tabVars => TabInv'
  <1> SUFFICES ASSUME TabInv, UNCHANGED tabVars PROVE TabInv'
    OBVIOUS
  <1>. QED  BY QuietFits DEF tabVars, TabInv, TabTypes, HereInv

\* What the invariant says of the strips.
LEMMA StripIds ==
  ASSUME NEW tabs, NEW active, Strip(tabs, active)
  PROVE  Cardinality(Ids(tabs)) = Len(tabs)
  <1>1. tabs \in Seq(TabShape) /\ OnePerId(tabs) /\ DOMAIN tabs = 1..Len(tabs) /\ Len(tabs) \in Nat
    BY DEF Strip
  <1>2. PICK f : f = [i \in 1..Len(tabs) |-> tabs[i].id]
    OBVIOUS
  <1>3. f \in Bijection(1..Len(tabs), Ids(tabs))
    BY <1>1, <1>2 DEF Bijection, Injection, Surjection, IsInjective, OnePerId, Ids
  <1>4. IsFiniteSet(1..Len(tabs)) /\ Cardinality(1..Len(tabs)) = Len(tabs)
    BY <1>1, FS_Interval
  <1>. QED  BY <1>3, <1>4, FS_Bijection DEF ExistsBijection

LEMMA TabKeeps == TabInv => StripsAreSound /\ NothingOfTheDeleted
  <1> SUFFICES ASSUME TabInv PROVE StripsAreSound /\ NothingOfTheDeleted
    OBVIOUS
  <1>0. TabTypes /\ FollowInv /\ KeptInv /\ HereInv /\ Sound(app)
    BY DEF TabInv, TabTypes
  <1>1. NothingOfTheDeleted
    BY <1>0 DEF KeptInv, NothingOfTheDeleted
  <1>2. app.tabsOf # Nothing => WorkspaceOf(app, app.tabsOf) = [tabs |-> app.tabs, active |-> app.active]
    BY <1>0 DEF Sound
  <1>3. ASSUME NEW c \in DOMAIN app.workspaces
        PROVE  /\ Cardinality(Ids(app.workspaces[c].tabs)) = Len(app.workspaces[c].tabs)
               /\ app.workspaces[c].active \in Ids(app.workspaces[c].tabs) \cup {Nothing}
    <2>1. Strip(app.workspaces[c].tabs, app.workspaces[c].active)
      BY <1>0 DEF Sound, StripsSaved
    <2>. QED  BY <2>1, StripIds DEF Strip
  <1>4. ASSUME Settled, going = Stay, InWorkspace
        PROVE  /\ app.tabsOf = route.conn
               /\ (route.leaf \in TabIds /\ \A t \in closed : t.id # route.leaf) => app.active = route.leaf
    <2>1. Here /\ app.tabsOf = route.conn
      BY <1>0, <1>4, SettledFits
    <2>2. (\A t \in closed : t.id # route.leaf) => Closing = {}
      BY DEF Closing
    <2>. QED  BY <1>0, <1>4, <2>1, <2>2 DEF HereInv, LeafHere
  <1>. QED  BY <1>1, <1>2, <1>3, <1>4 DEF StripsAreSound

\* A step is the user's, and counted, or it is one of the app's own.
LEMMA WhoseStep ==
  TabNext => \/ tabOps' = tabOps + 1
             \/ tabOps' = tabOps /\ (Commit \/ (\E c \in Connections : ThreadsArrive(c)) \/ UNCHANGED app)
  <1> SUFFICES ASSUME TabNext
               PROVE  \/ tabOps' = tabOps + 1
                      \/ tabOps' = tabOps /\ (Commit \/ (\E c \in Connections : ThreadsArrive(c)) \/ UNCHANGED app)
    OBVIOUS
  <1>1. ASSUME Commit PROVE tabOps' = tabOps
    BY <1>1 DEF Commit
  <1>2. ASSUME Navigated \/ ListArrives PROVE UNCHANGED <<tabOps, app>>
    BY <1>2 DEF Navigated, ListArrives
  <1>3. ASSUME TypeSql \/ Reload PROVE tabOps' = tabOps + 1
    BY <1>3 DEF TypeSql, Reload, User
  <1>4. ASSUME NEW id, NEW title, OpenFromUi(id, title) PROVE tabOps' = tabOps + 1
    BY <1>4 DEF OpenFromUi, InStrip, User
  <1>5. ASSUME NEW i, ActivateTab(i) \/ CloseFromUi(i) PROVE tabOps' = tabOps + 1
    BY <1>5 DEF ActivateTab, CloseFromUi, InStrip, User
  <1>6. ASSUME NEW place, Navigate(place) PROVE tabOps' = tabOps + 1
    BY <1>6 DEF Navigate, User
  <1>7. ASSUME NEW c, Connect(c) \/ Create(c) \/ Delete(c) PROVE tabOps' = tabOps + 1
    BY <1>7 DEF Connect, Create, Delete, OnHome, User
  <1>8. ASSUME NEW c, ConnectSucceeds(c) \/ ConnectFails(c) PROVE UNCHANGED <<tabOps, app>>
    BY <1>8 DEF ConnectSucceeds, ConnectFails
  <1>9. ASSUME NEW c, ThreadsArrive(c) PROVE tabOps' = tabOps
    BY <1>9 DEF ThreadsArrive
  <1>. QED  BY <1>1, <1>2, <1>3, <1>4, <1>5, <1>6, <1>7, <1>8, <1>9, Zenon DEF TabNext

WorkspaceInv == TabInv /\ tabOps \in Nat

LEMMA WorkspaceStart == TabInit => WorkspaceInv
  BY TabStart DEF TabInit, WorkspaceInv

LEMMA WorkspaceStep == WorkspaceInv /\ TabNext => WorkspaceInv'
  BY TabStep, WhoseStep DEF WorkspaceInv

LEMMA WorkspaceRest == WorkspaceInv /\ UNCHANGED tabVars => WorkspaceInv'
  BY TabRest DEF WorkspaceInv, tabVars

\* The steps the user does not take bring no closed tab back.
ClosedStep == tabOps' = tabOps => \A t \in closed : t.id \notin Ids(app.tabs) => t \notin Elements(app'.tabs)
LEMMA ClosedStays == WorkspaceInv /\ (TabNext \/ UNCHANGED tabVars) => ClosedStep
  <1> SUFFICES ASSUME WorkspaceInv, TabNext \/ UNCHANGED tabVars, tabOps' = tabOps,
                      NEW t \in closed, t.id \notin Ids(app.tabs), t \in Elements(app'.tabs)
               PROVE  FALSE
    BY DEF ClosedStep
  <1>0. t \notin Elements(app.tabs) /\ TabInv
    BY DEF Ids, Elements, WorkspaceInv
  <1>1. CASE Commit
    BY <1>0, <1>1, CommitFits
  <1>2. CASE \E c \in Connections : ThreadsArrive(c)
    <2>1. PICK c \in Connections : ThreadsArrive(c)
      BY <1>2
    <2>2. "home" \in TabIds /\ "server" \in Titles
      BY TabAssumption DEF Titles
    <2>3. Ids(app'.tabs) = Ids(app.tabs)
      BY <1>0, <2>1, <2>2, RenameFits DEF ThreadsArrive, TabInv, TabTypes
    <2>. QED  BY <2>3 DEF Ids, Elements
  <1>3. CASE UNCHANGED app
    BY <1>0, <1>3
  <1>4. CASE tabOps' = tabOps + 1
    BY <1>4 DEF WorkspaceInv
  <1>. QED  BY <1>1, <1>2, <1>3, <1>4, WhoseStep DEF tabVars
-----------------------------------------------------------------------------
(* SqlText                                                                 *)

\* The quotes of all lexers, and the states a lexer can be in.
AllQuotes == {"sq", "dq", "bt"}
LexerShape == [hash: BOOLEAN, nested: BOOLEAN, dollar: BOOLEAN, quotes: SUBSET AllQuotes, escapes: SUBSET AllQuotes]
ModeShape == {m \in [in: {"code", "--", "#", "$$", "/*"} \cup AllQuotes, depth: Int, escaped: BOOLEAN] :
                m.escaped => m.in \in AllQuotes}

LEMMA LexersAre ==
  ASSUME NEW d
  PROVE  /\ ClassifyLexer(d) \in LexerShape /\ ScrubLexer(d) \in LexerShape
         /\ GuardLexer \in LexerShape /\ EditorLexer \in LexerShape /\ CommentLexer \in LexerShape
  <1>1. ClassifyLexer(d) \in LexerShape
    BY DEF ClassifyLexer, LexerShape, AllQuotes
  <1>2. ScrubLexer(d) \in LexerShape
    BY <1>1 DEF ScrubLexer, LexerShape, AllQuotes
  <1>3. GuardLexer \in LexerShape /\ EditorLexer \in LexerShape
    BY DEF GuardLexer, EditorLexer, LexerShape, AllQuotes
  <1>4. CommentLexer \in LexerShape
    BY <1>3 DEF CommentLexer, LexerShape
  <1>. QED  BY <1>1, <1>2, <1>3, <1>4

LEMMA CodeIs == Code = [in |-> "code", depth |-> 0, escaped |-> FALSE] /\ Code \in ModeShape /\ Code.in = "code"
  BY DEF Code, ModeShape, AllQuotes

LEMMA WithinIs ==
  ASSUME NEW t \in {"--", "#", "$$", "/*"} \cup AllQuotes
  PROVE  Within(t) = [in |-> t, depth |-> 1, escaped |-> FALSE] /\ Within(t) \in ModeShape
  <1>1. Within(t) \in [in: {t}, depth: {1}, escaped: {FALSE}]
    BY DEF Within, Code
  <1>2. Within(t) = [in |-> t, depth |-> 1, escaped |-> FALSE]
    BY <1>1
  <1>. QED  BY <1>2 DEF ModeShape

LEMMA ModeMoves ==
  ASSUME NEW m \in ModeShape
  PROVE  /\ \A n \in Int : [m EXCEPT !.depth = n] = [in |-> m.in, depth |-> n, escaped |-> m.escaped]
         /\ \A b \in BOOLEAN : [m EXCEPT !.escaped = b] = [in |-> m.in, depth |-> m.depth, escaped |-> b]
  <1>1. m \in [in: {"code", "--", "#", "$$", "/*"} \cup AllQuotes, depth: Int, escaped: BOOLEAN]
    BY DEF ModeShape
  <1>. QED  BY <1>1

LEMMA OpensAre ==
  ASSUME NEW L \in LexerShape
  PROVE  Opens(L) \subseteq {"--", "#", "$$", "/*"} \cup AllQuotes /\ "--" \in Opens(L) /\ "/*" \in Opens(L)
  BY DEF Opens, LexerShape

\* What a lexer does at one token, by the kind of text it is in.
LEMMA AfterCode ==
  ASSUME NEW L, NEW t
  PROVE  After(L, Code, t) = IF t \in Opens(L) THEN Within(t) ELSE Code
  BY CodeIs DEF After

LEMMA AfterLine ==
  ASSUME NEW L, NEW t, NEW m \in ModeShape, m.in \in {"--", "#"}
  PROVE  After(L, m, t) = IF t = "nl" THEN Code ELSE m
  <1>1. ~m.escaped
    BY DEF ModeShape, AllQuotes
  <1>2. CASE m.in = "--"
    BY <1>1, <1>2 DEF After
  <1>3. CASE m.in = "#"
    BY <1>1, <1>3 DEF After
  <1>. QED  BY <1>2, <1>3

LEMMA AfterDollar ==
  ASSUME NEW L, NEW t, NEW m \in ModeShape, m.in = "$$"
  PROVE  After(L, m, t) = IF t = "$$" THEN Code ELSE m
  <1>1. ~m.escaped
    BY DEF ModeShape, AllQuotes
  <1>. QED  BY <1>1 DEF After

LEMMA AfterBlock ==
  ASSUME NEW L, NEW t, NEW m \in ModeShape, m.in = "/*"
  PROVE  After(L, m, t) = IF t = "*/" THEN IF m.depth = 1 THEN Code ELSE [m EXCEPT !.depth = @ - 1]
                          ELSE IF L.nested /\ t = "/*" THEN [m EXCEPT !.depth = @ + 1] ELSE m
  <1>1. ~m.escaped
    BY DEF ModeShape, AllQuotes
  <1>2. CASE t = "*/"
    BY <1>1, <1>2 DEF After
  <1>3. CASE t # "*/"
    BY <1>1, <1>3 DEF After
  <1>. QED  BY <1>2, <1>3

LEMMA AfterQuote ==
  ASSUME NEW L, NEW t, NEW m \in ModeShape, m.in \in AllQuotes
  PROVE  After(L, m, t) = IF m.escaped THEN [m EXCEPT !.escaped = FALSE]
                          ELSE IF t = m.in THEN Code
                          ELSE [m EXCEPT !.escaped = t = "bs" /\ m.in \in L.escapes]
  <1>1. CASE m.escaped
    BY <1>1 DEF After, AllQuotes
  <1>2. CASE ~m.escaped
    BY <1>2 DEF After, AllQuotes
  <1>. QED  BY <1>1, <1>2

LEMMA ModeKinds ==
  ASSUME NEW m \in ModeShape
  PROVE  m.in = "code" \/ m.in \in {"--", "#"} \/ m.in = "$$" \/ m.in = "/*" \/ m.in \in AllQuotes
  BY DEF ModeShape

LEMMA AfterIs ==
  ASSUME NEW L \in LexerShape, NEW m \in ModeShape, NEW t, m.in = "code" => m = Code
  PROVE  /\ After(L, m, t) \in ModeShape
         /\ After(L, m, t).in = "code" => After(L, m, t) = Code
  <1>1. CASE m.in = "code"
    <2>1. CASE t \in Opens(L)
      <3>1. t \in {"--", "#", "$$", "/*"} \cup AllQuotes
        BY <2>1, OpensAre
      <3>2. After(L, m, t) = Within(t)
        BY <1>1, <2>1, AfterCode
      <3>. QED  BY <3>1, <3>2, WithinIs DEF AllQuotes
    <2>2. CASE t \notin Opens(L)
      BY <1>1, <2>2, AfterCode, CodeIs
    <2>. QED  BY <2>1, <2>2
  <1>2. CASE m.in \in {"--", "#"}
    BY <1>2, AfterLine, CodeIs
  <1>3. CASE m.in = "$$"
    BY <1>3, AfterDollar, CodeIs
  <1>4. CASE m.in = "/*"
    <2>1. ASSUME NEW n \in Int PROVE [m EXCEPT !.depth = n] \in ModeShape /\ [m EXCEPT !.depth = n].in = "/*"
      <3>1. [m EXCEPT !.depth = n] = [in |-> m.in, depth |-> n, escaped |-> m.escaped]
        BY ModeMoves
      <3>. QED  BY <1>4, <3>1 DEF ModeShape
    <2>2. m.depth - 1 \in Int /\ m.depth + 1 \in Int /\ After(L, m, t) \in
            {Code, m, [m EXCEPT !.depth = m.depth - 1], [m EXCEPT !.depth = m.depth + 1]}
      BY <1>4, AfterBlock DEF ModeShape
    <2>3. [m EXCEPT !.depth = m.depth - 1] \in ModeShape /\ [m EXCEPT !.depth = m.depth - 1].in = "/*"
      BY <2>1, <2>2
    <2>4. [m EXCEPT !.depth = m.depth + 1] \in ModeShape /\ [m EXCEPT !.depth = m.depth + 1].in = "/*"
      BY <2>1, <2>2
    <2> HIDE DEF ModeShape
    <2>. QED  BY <1>4, <2>2, <2>3, <2>4, CodeIs
  <1>5. CASE m.in \in AllQuotes
    <2>1. ASSUME NEW b \in BOOLEAN PROVE [m EXCEPT !.escaped = b] \in ModeShape /\ [m EXCEPT !.escaped = b].in = m.in
      <3>1. [m EXCEPT !.escaped = b] = [in |-> m.in, depth |-> m.depth, escaped |-> b]
        BY ModeMoves
      <3>. QED  BY <1>5, <3>1 DEF ModeShape
    <2>2. PICK b \in BOOLEAN : After(L, m, t) \in {Code, [m EXCEPT !.escaped = b]}
      <3> DEFINE x == t = "bs" /\ m.in \in L.escapes
                 Moved(b) == [m EXCEPT !.escaped = b]
      <3>1. x \in BOOLEAN
        OBVIOUS
      <3>2. After(L, m, t) = IF m.escaped THEN Moved(FALSE) ELSE IF t = m.in THEN Code ELSE Moved(x)
        BY <1>5, AfterQuote
      <3> HIDE DEF x, Moved
      <3>3. After(L, m, t) \in {Code, Moved(FALSE)} \/ After(L, m, t) \in {Code, Moved(x)}
        BY <3>2
      <3>4. \E b \in BOOLEAN : After(L, m, t) \in {Code, Moved(b)}
        BY <3>1, <3>3
      <3>. QED  BY <3>4 DEF Moved
    <2>3. m.in # "code"
      BY <1>5 DEF AllQuotes
    <2>. QED  BY <2>1, <2>2, <2>3, CodeIs
  <1>. QED  BY <1>1, <1>2, <1>3, <1>4, <1>5, ModeKinds

\* How Modes is built.
ModeSteps(g, L, s) ==
  /\ g \in [0..Len(s) -> ModeShape]
  /\ g[0] = Code
  /\ \A i \in 1..Len(s) : g[i] = After(L, g[i-1], s[i])
  /\ \A i \in 0..Len(s) : g[i].in = "code" => g[i] = Code

LEMMA ModesAre ==
  ASSUME NEW L \in LexerShape, NEW s, Len(s) \in Nat
  PROVE  ModeSteps(Modes(L, s), L, s)
  <1> DEFINE n == Len(s)
             ModeSet == {m \in ModeShape : m.in = "code" => m = Code}
             Steps(g) == [i \in 0..Len(s) |-> IF i = 0 THEN Code ELSE After(L, g[i-1], s[i])]
             mode == CHOOSE g : g = Steps(g)
             f == [i \in 1..n |-> [m \in ModeSet |-> After(L, m, s[i])]]
  <1>1. f \in [1..n -> [ModeSet -> ModeSet]]
    <2>1. ASSUME NEW i \in 1..n, NEW m \in ModeSet PROVE After(L, m, s[i]) \in ModeSet
      BY AfterIs
    <2> HIDE DEF ModeSet
    <2>. QED  BY <2>1
  <1>2. Code \in ModeSet
    BY CodeIs
  <1> HIDE DEF ModeSet
  <1>3. PICK g : TakesSteps(g, n, ModeSet, Code, f)
    <2> HIDE DEF f
    <2>. QED  BY <1>1, <1>2, StepFunction
  <1>4. g \in [0..n -> ModeSet] /\ g[0] = Code /\ \A i \in 1..n : g[i] = f[i][g[i-1]]
    BY <1>3 DEF TakesSteps
  <1>5. ASSUME NEW i \in 1..n PROVE g[i] = After(L, g[i-1], s[i])
    <2>1. i - 1 \in 0..n /\ g[i-1] \in ModeSet
      <3> HIDE DEF f
      <3>. QED  BY <1>4
    <2>. QED  BY <1>4, <2>1
  <1>6. g = Steps(g)
    <2>1. ASSUME NEW i \in 0..n PROVE g[i] = IF i = 0 THEN Code ELSE After(L, g[i-1], s[i])
      <3>1. CASE i = 0
        BY <1>4, <3>1
      <3>2. CASE i # 0
        <4>1. i \in 1..n
          BY <3>2
        <4>. QED  BY <1>5, <4>1, <3>2
      <3>. QED  BY <3>1, <3>2
    <2> HIDE DEF f
    <2>. QED  BY <1>4, <2>1
  <1>7. mode = Steps(mode)
    <2> HIDE DEF Steps
    <2>. QED  BY <1>6
  <1>8. Modes(L, s) = mode
    BY DEF Modes
  <1> HIDE DEF mode, f
  <1>9. mode = [i \in 0..n |-> mode[i]]
    BY <1>7
  <1>10. mode[0] = Code
    BY <1>7
  <1>11. ASSUME NEW i \in 1..n PROVE mode[i] = After(L, mode[i-1], s[i])
    <2>1. i \in 0..n /\ i # 0
      OBVIOUS
    <2>. QED  BY <1>7, <2>1
  <1>12. ASSUME NEW i \in 0..n PROVE mode[i] \in ModeSet
    <2> DEFINE S == {k \in 0..n : mode[k] \in ModeSet}
    <2>1. 0 \in S
      BY <1>2, <1>10
    <2>2. ASSUME NEW k \in 0..(n-1), k \in S PROVE k + 1 \in S
      <3>1. k + 1 \in 1..n /\ (k + 1) - 1 = k /\ k + 1 \in 0..n
        OBVIOUS
      <3>2. mode[k+1] = After(L, mode[k], s[k+1])
        BY <1>11, <3>1
      <3>3. mode[k] \in ModeSet
        BY <2>2
      <3>4. After(L, mode[k], s[k+1]) \in ModeSet
        BY <3>3, AfterIs DEF ModeSet
      <3>. QED  BY <3>1, <3>2, <3>4
    <2>3. \A k \in 0..n : k \in S
      <3> HIDE DEF S, n
      <3>1. n \in Nat
        BY DEF n
      <3>. QED  BY <2>1, <2>2, <3>1, IntervalInduction
    <2>. QED  BY <2>3
  <1>. QED  BY <1>8, <1>9, <1>10, <1>11, <1>12 DEF ModeSteps, ModeSet

LEMMA CodeOfIs ==
  ASSUME NEW L, NEW s
  PROVE  CodeOf(L, s) = {i \in DOMAIN s : Modes(L, s)[i-1] = Code /\ Modes(L, s)[i] = Code}
  BY DEF CodeOf

\* The semicolons between the statements.
Breaks(L, s) == {i \in CodeOf(L, s) : s[i] = ";"}

\* The pieces of a text of n tokens between these.
PiecesAt(B, s, n) ==
  LET ends == B \cup {n + 1}
      From(e) == 1 + Cardinality({i \in 1..(e-1) : \E f \in ends : i <= f /\ f < e})
      piece(e) == [from |-> From(e), to |-> e - 1]
  IN {piece(e) : e \in {e \in ends : \E i \in From(e)..(e-1) : s[i] # "nl"}}

LEMMA PiecesAre ==
  ASSUME NEW L, NEW s
  PROVE  Pieces(L, s) = PiecesAt(Breaks(L, s), s, Len(s))
  BY DEF Pieces, PiecesAt, Breaks

\* Two lexers that go on alike from where they are read a text alike.
LEMMA SameReading ==
  ASSUME NEW L \in LexerShape, NEW M \in LexerShape, NEW s, Len(s) \in Nat, DOMAIN s = 1..Len(s),
         \A i \in 1..Len(s) : After(L, Modes(L, s)[i-1], s[i]) = After(M, Modes(L, s)[i-1], s[i])
  PROVE  /\ \A i \in 0..Len(s) : Modes(L, s)[i] = Modes(M, s)[i]
         /\ CodeOf(L, s) = CodeOf(M, s)
         /\ Pieces(L, s) = Pieces(M, s)
  <1> DEFINE n == Len(s)
             g == Modes(L, s)
             h == Modes(M, s)
  <1>1. /\ g[0] = Code /\ \A i \in 1..n : g[i] = After(L, g[i-1], s[i])
        /\ h[0] = Code /\ \A i \in 1..n : h[i] = After(M, h[i-1], s[i])
    BY ModesAre DEF ModeSteps
  <1>2. \A i \in 1..n : g[i-1] = h[i-1] => g[i] = h[i]
    <2> SUFFICES ASSUME NEW i \in 1..n, g[i-1] = h[i-1] PROVE g[i] = h[i]
      OBVIOUS
    <2>1. g[i] = After(L, g[i-1], s[i]) /\ h[i] = After(M, g[i-1], s[i])
      BY <1>1
    <2>. QED  BY <2>1
  <1>3. \A i \in 0..n : g[i] = h[i]
    <2>1. n \in Nat /\ g[0] = h[0]
      BY <1>1
    <2> HIDE DEF n, g, h
    <2> DEFINE S == {i \in 0..n : g[i] = h[i]}
    <2>2. 0 \in S
      BY <2>1
    <2>3. ASSUME NEW i \in 0..(n-1), i \in S PROVE i + 1 \in S
      <3>1. i + 1 \in 1..n /\ (i + 1) - 1 = i /\ i + 1 \in 0..n
        BY <2>1
      <3>. QED  BY <1>2, <2>3, <3>1
    <2>4. \A i \in 0..n : i \in S
      <3> HIDE DEF S
      <3>. QED  BY <2>1, <2>2, <2>3, IntervalInduction
    <2>. QED  BY <2>4
  <1>4. CodeOf(L, s) = CodeOf(M, s)
    <2>1. \A i \in DOMAIN s : i \in 0..n /\ i - 1 \in 0..n
      OBVIOUS
    <2> HIDE DEF g, h
    <2>2. CodeOf(L, s) = {i \in DOMAIN s : g[i-1] = Code /\ g[i] = Code}
      BY CodeOfIs DEF g
    <2>3. CodeOf(M, s) = {i \in DOMAIN s : h[i-1] = Code /\ h[i] = Code}
      BY CodeOfIs DEF h
    <2>. QED  BY <1>3, <2>1, <2>2, <2>3
  <1>. QED  BY <1>3, <1>4, PiecesAre DEF Breaks

\* What is cut out of a text at a place that is code is read as in the text.
LEMMA SubReading ==
  ASSUME NEW L \in LexerShape, NEW T, NEW s \in Seq(T), NEW a \in 1..(Len(s) + 1), NEW b \in (a - 1)..Len(s),
         Modes(L, s)[a-1] = Code, NEW u, u = SubSeq(s, a, b)
  PROVE  /\ u \in Seq(T) /\ Len(u) = b - a + 1
         /\ \A k \in 1..Len(u) : u[k] = s[a + k - 1]
         /\ \A k \in 1..Len(u) : k \in CodeOf(L, u) <=> a + k - 1 \in CodeOf(L, s)
  <1> DEFINE n == Len(u)
             g == Modes(L, u)
             f == Modes(L, s)
             h == [k \in 0..n |-> f[a-1+k]]
  <1>1. a \in Nat /\ b \in Nat /\ Len(s) \in Nat /\ \A i \in a..b : s[i] \in T
    BY ElementOfSeq
  <1>2. u \in Seq(T) /\ Len(u) = b - a + 1 /\ \A k \in 1..Len(u) : u[k] = s[a + k - 1]
    BY <1>1, SubSeqProperties
  <1>3. n \in Nat /\ a - 1 + n = b
    <2>1. b \in Int /\ a - 1 <= b
      BY <1>1
    <2> HIDE DEF f, g, h
    <2>2. n = b - a + 1
      BY <1>2
    <2> HIDE DEF n
    <2>. QED  BY <1>1, <2>1, <2>2
  <1>4. /\ g[0] = Code /\ \A i \in 1..n : g[i] = After(L, g[i-1], u[i])
        /\ \A i \in 1..Len(s) : f[i] = After(L, f[i-1], s[i])
    BY <1>1, <1>3, ModesAre DEF ModeSteps
  <1>5. f[a-1] = Code
    OBVIOUS
  <1> HIDE DEF n, g, f
  <1>6. g[0] = h[0]
    BY <1>1, <1>3, <1>4, <1>5
  <1>7. ASSUME NEW i \in 1..n, g[i-1] = h[i-1] PROVE g[i] = h[i]
    <2>1. a - 1 + i \in 1..Len(s) /\ (a - 1 + i) - 1 = a - 1 + (i - 1) /\ i \in 0..n /\ i - 1 \in 0..n
          /\ a - 1 + i = a + i - 1
      BY <1>1, <1>3
    <2>2. h[i] = f[a-1+i] /\ h[i-1] = f[(a-1+i) - 1]
      BY <2>1
    <2>3. u[i] = s[a-1+i]
      BY <1>2, <2>1 DEF n
    <2>. QED  BY <1>4, <1>7, <2>1, <2>2, <2>3
  <1>8. \A k \in 0..n : g[k] = h[k]
    <2> HIDE DEF h
    <2>2. ASSUME NEW gg, gg = g, NEW hh, hh = h, NEW nn \in Nat, nn = n PROVE \A i \in 0..nn : gg[i] = hh[i]
      <3>1. gg[0] = hh[0] /\ \A i \in 1..nn : gg[i-1] = hh[i-1] => gg[i] = hh[i]
        BY <1>6, <1>7, <2>2
      <3>. QED  BY <3>1, SameSteps, ZenonT(60)
    <2>. QED  BY <1>3, <2>2
  <1>9. ASSUME NEW k \in 1..Len(u) PROVE k \in CodeOf(L, u) <=> a + k - 1 \in CodeOf(L, s)
    <2>1. k \in 0..n /\ k - 1 \in 0..n /\ a - 1 + (k - 1) = (a + k - 1) - 1 /\ a - 1 + k = a + k - 1
          /\ k \in DOMAIN u /\ a + k - 1 \in DOMAIN s
      BY <1>1, <1>2, <1>3 DEF n
    <2>2. g[k] = f[a + k - 1] /\ g[k-1] = f[(a + k - 1) - 1]
      BY <1>8, <2>1
    <2>3. k \in CodeOf(L, u) <=> g[k-1] = Code /\ g[k] = Code
      BY <2>1, CodeOfIs DEF g
    <2>4. a + k - 1 \in CodeOf(L, s) <=> f[(a + k - 1) - 1] = Code /\ f[a + k - 1] = Code
      BY <2>1, CodeOfIs DEF f
    <2>. QED  BY <2>2, <2>3, <2>4
  <1>. QED  BY <1>2, <1>9

\* The number of the last end below e counts the tokens up to it.
LEMMA EndBelow ==
  ASSUME NEW E \in SUBSET (Nat \ {0}), NEW e \in Nat \ {0},
         NEW c, c = 1 + Cardinality({i \in 1..(e-1) : \E f \in E : i <= f /\ f < e})
  PROVE  /\ c \in 1..e
         /\ c = 1 \/ c - 1 \in E
         /\ \A f \in E : f < e => f < c
  <1> DEFINE B == {f \in E : f < e} \cup {0}
             D == {e - f : f \in B}
  <1>1. D \in SUBSET Nat /\ D # {}
    <2>1. \A f \in B : f \in Nat /\ f < e
      OBVIOUS
    <2>2. 0 \in B
      OBVIOUS
    <2> HIDE DEF B
    <2>. QED  BY <2>1, <2>2
  <1>2. PICK x \in D : \A y \in D : x <= y
    <2> HIDE DEF D
    <2>. QED  BY <1>1, LeastElement
  <1>3. PICK k \in B : x = e - k
    OBVIOUS
  <1>4. k \in Nat /\ k < e /\ \A f \in B : f \in Nat /\ f <= k
    <2>1. \A f \in B : f \in Nat /\ f < e /\ e - f \in D
      OBVIOUS
    <2>2. \A f \in B : e - k <= e - f
      <3> HIDE DEF B, D
      <3>. QED  BY <1>2, <1>3, <2>1
    <2> HIDE DEF B, D
    <2>. QED  BY <2>1, <2>2
  <1>5. {i \in 1..(e-1) : \E f \in E : i <= f /\ f < e} = 1..k
    <2>1. ASSUME NEW i \in 1..(e-1), NEW f \in E, i <= f, f < e PROVE i \in 1..k
      <3>1. f \in B
        BY <2>1
      <3> HIDE DEF B
      <3>. QED  BY <1>4, <2>1, <3>1
    <2>2. ASSUME NEW i \in 1..k PROVE i \in 1..(e-1) /\ \E f \in E : i <= f /\ f < e
      <3>1. k # 0 /\ i \in 1..(e-1) /\ i <= k
        BY <1>4
      <3>2. k \in E
        BY <1>3, <3>1
      <3>. QED  BY <1>4, <3>1, <3>2
    <2>. QED  BY <2>1, <2>2
  <1>6. c = 1 + k
    <2>1. Cardinality(1..k) = k
      BY <1>4, FS_Interval
    <2>. QED  BY <1>5, <2>1
  <1>7. \A f \in E : f < e => f <= k
    BY <1>4
  <1>8. k = 0 \/ k \in E
    BY <1>3
  <1> HIDE DEF B, D
  <1>. QED  BY <1>4, <1>6, <1>7, <1>8

\* What a piece is: it begins at the beginning or behind a break, and holds none.

IsPiece(p, B, n) ==
  /\ p.from \in 1..n /\ p.to \in 1..n /\ p.from <= p.to
  /\ p.from = 1 \/ p.from - 1 \in B
  /\ \A i \in p.from..p.to : i \notin B

LEMMA PieceIs ==
  ASSUME NEW s, NEW n \in Nat, NEW B \in SUBSET (1..n), NEW p \in PiecesAt(B, s, n)
  PROVE  IsPiece(p, B, n)
  <1> DEFINE E == B \cup {n + 1}
             From(e) == 1 + Cardinality({i \in 1..(e-1) : \E f \in E : i <= f /\ f < e})
  <1>1. PICK e \in E : p = [from |-> From(e), to |-> e - 1] /\ \E i \in From(e)..(e-1) : s[i] # "nl"
    BY DEF PiecesAt
  <1>2. E \in SUBSET (Nat \ {0}) /\ e \in Nat \ {0} /\ e <= n + 1
    OBVIOUS
  <1>3. /\ From(e) \in 1..e
        /\ From(e) = 1 \/ From(e) - 1 \in E
        /\ \A f \in E : f < e => f < From(e)
    <2> HIDE DEF E
    <2>. QED  BY <1>2, EndBelow
  <1> HIDE DEF From
  <1>4. From(e) <= e - 1
    BY <1>1, <1>2, <1>3
  <1>5. p.from = From(e) /\ p.to = e - 1
    BY <1>1
  <1>6. p.from = 1 \/ p.from - 1 \in B
    <2>1. p.from - 1 # n + 1
      BY <1>2, <1>3, <1>4, <1>5
    <2>. QED  BY <1>3, <1>5, <2>1
  <1>7. ASSUME NEW i \in p.from..p.to, i \in B PROVE FALSE
    <2>1. i \in E /\ i < e /\ ~(i < From(e))
      BY <1>2, <1>3, <1>5, <1>7
    <2>. QED  BY <1>3, <2>1
  <1>. QED  BY <1>2, <1>3, <1>4, <1>5, <1>6, <1>7 DEF IsPiece

\* Whatever is neither a semicolon nor blank is in a piece.
LEMMA PieceAround ==
  ASSUME NEW s, NEW n \in Nat, NEW B \in SUBSET (1..n), NEW i \in 1..n, i \notin B, s[i] # "nl"
  PROVE  \E p \in PiecesAt(B, s, n) : i \in p.from..p.to
  <1> DEFINE E == B \cup {n + 1}
             From(e) == 1 + Cardinality({j \in 1..(e-1) : \E f \in E : j <= f /\ f < e})
             A == {f \in E : f > i}
  <1>1. A \in SUBSET Nat /\ A # {}
    <2>1. n + 1 \in A
      OBVIOUS
    <2>2. \A f \in A : f \in Nat
      OBVIOUS
    <2> HIDE DEF A
    <2>. QED  BY <2>1, <2>2
  <1>2. PICK e \in A : \A f \in A : e <= f
    <2> HIDE DEF A
    <2>. QED  BY <1>1, LeastElement
  <1>3. E \in SUBSET (Nat \ {0}) /\ e \in Nat \ {0} /\ e \in E /\ i < e /\ i \notin E
    OBVIOUS
  <1>4. /\ From(e) \in 1..e
        /\ From(e) = 1 \/ From(e) - 1 \in E
    <2> HIDE DEF E
    <2>. QED  BY <1>3, EndBelow
  <1> HIDE DEF From
  <1>5. From(e) <= i
    <2>1. SUFFICES ASSUME From(e) > i PROVE FALSE
      BY <1>4
    <2>2. From(e) - 1 \in E /\ From(e) - 1 >= i /\ From(e) - 1 < e
      BY <1>3, <1>4, <2>1
    <2>3. From(e) - 1 # i
      BY <1>3, <2>2
    <2>4. From(e) - 1 \in A
      BY <1>4, <2>2, <2>3
    <2>. QED  BY <1>2, <1>3, <1>4, <2>2, <2>4
  <1>6. i \in From(e)..(e-1)
    BY <1>3, <1>4, <1>5
  <1>7. [from |-> From(e), to |-> e - 1] \in PiecesAt(B, s, n)
    <2>1. \E j \in From(e)..(e-1) : s[j] # "nl"
      BY <1>6
    <2>. QED  BY <1>3, <2>1 DEF PiecesAt, From
  <1>. QED  BY <1>6, <1>7

\* Without a semicolon there is one piece, or none.
LEMMA FewPieces ==
  ASSUME NEW s, NEW n \in Nat, NEW B, B = {}
  PROVE  IsFiniteSet(PiecesAt(B, s, n)) /\ Cardinality(PiecesAt(B, s, n)) \in 0..1
  <1> DEFINE E == B \cup {n + 1}
             From(e) == 1 + Cardinality({j \in 1..(e-1) : \E f \in E : j <= f /\ f < e})
             whole == [from |-> From(n + 1), to |-> (n + 1) - 1]
  <1>1. E = {n + 1}
    OBVIOUS
  <1>2. PiecesAt(B, s, n) \subseteq {whole}
    <2>1. PiecesAt(B, s, n) = {[from |-> From(e), to |-> e - 1] : e \in {e \in E : \E i \in From(e)..(e-1) : s[i] # "nl"}}
      BY DEF PiecesAt
    <2> HIDE DEF From, E
    <2>. QED  BY <1>1, <2>1
  <1> HIDE DEF whole, From, E
  <1>3. PiecesAt(B, s, n) = {} \/ PiecesAt(B, s, n) = {whole}
    BY <1>2
  <1>4. IsFiniteSet({whole}) /\ Cardinality({whole}) = 1 /\ IsFiniteSet({}) /\ Cardinality({}) = 0
    BY FS_EmptySet, FS_Singleton
  <1>. QED  BY <1>3, <1>4

\* Of a set with one element at most, any two are the same.
LEMMA AtMostOne ==
  ASSUME NEW S, IsFiniteSet(S), ~(Cardinality(S) > 1)
  PROVE  \A x, y \in S : x = y
  <1>1. SUFFICES ASSUME NEW x \in S, NEW y \in S, x # y PROVE FALSE
    OBVIOUS
  <1>2. IsFiniteSet({y}) /\ Cardinality({y}) = 1 /\ x \notin {y}
    BY <1>1, FS_Singleton
  <1>3. Cardinality({y} \cup {x}) = Cardinality({y}) + 1
    BY <1>2, FS_AddElement
  <1>4. {y} \cup {x} \subseteq S
    OBVIOUS
  <1>5. Cardinality({y} \cup {x}) <= Cardinality(S) /\ Cardinality(S) \in Nat
    BY <1>4, FS_Subset, FS_CardinalityType
  <1>. QED  BY <1>2, <1>3, <1>5

\* Where what begins in a set of numbers leaves it for the first time, and where
\* what ends in it has come for the last time.
LEMMA FirstChange ==
  ASSUME NEW S, NEW a \in Nat, NEW b \in Nat, a <= b, a \in S, b \notin S
  PROVE  \E i \in (a+1)..b : i \notin S /\ \A k \in a..(i-1) : k \in S
  <1> DEFINE A == {i \in a..b : i \notin S}
  <1>1. A \in SUBSET Nat /\ b \in A
    OBVIOUS
  <1>2. PICK i \in A : \A k \in A : i <= k
    <2> HIDE DEF A
    <2>. QED  BY <1>1, LeastElement
  <1>3. i \in a..b /\ i \notin S /\ i # a
    OBVIOUS
  <1>4. ASSUME NEW k \in a..(i-1) PROVE k \in S
    <2>1. k \in a..b /\ ~(i <= k)
      BY <1>3
    <2>. QED  BY <1>2, <2>1
  <1>. QED  BY <1>3, <1>4

LEMMA LastChange ==
  ASSUME NEW S, NEW a \in Nat, NEW b \in Nat, a <= b, a \notin S, b \in S
  PROVE  \E i \in (a+1)..b : i - 1 \notin S /\ \A k \in i..b : k \in S
  <1> DEFINE f(k) == b - k
             A == {x \in 0..(b-a) : b - x \notin S}
  <1>1. A \in SUBSET Nat /\ b - a \in A
    <2>1. b - a \in 0..(b-a) /\ b - (b - a) = a
      OBVIOUS
    <2>. QED  BY <2>1
  <1>2. PICK x \in A : \A y \in A : x <= y
    <2> HIDE DEF A
    <2>. QED  BY <1>1, LeastElement
  <1>3. x \in 0..(b-a) /\ b - x \notin S /\ x # 0
    <2>1. x \in 0..(b-a) /\ b - x \notin S
      OBVIOUS
    <2>2. b - 0 = b
      OBVIOUS
    <2>. QED  BY <2>1, <2>2
  <1>4. ASSUME NEW k \in (b - x + 1)..b PROVE k \in S
    <2>1. b - k \in 0..(b-a) /\ ~(x <= b - k) /\ b - (b - k) = k
      BY <1>3
    <2>. QED  BY <1>2, <2>1
  <1>5. b - x + 1 \in (a+1)..b /\ (b - x + 1) - 1 = b - x
    BY <1>3
  <1>. QED  BY <1>3, <1>4, <1>5

\* The kind of text a token leads to.
LEMMA AfterKind ==
  ASSUME NEW L \in LexerShape, NEW m \in ModeShape, NEW t, m.in = "code" => m = Code
  PROVE  /\ m.in = "code" => After(L, m, t).in = IF t \in Opens(L) THEN t ELSE "code"
         /\ m.in \in {"--", "#"} => After(L, m, t).in = IF t = "nl" THEN "code" ELSE m.in
         /\ m.in = "$$" => After(L, m, t).in = IF t = "$$" THEN "code" ELSE m.in
         /\ m.in = "/*" => After(L, m, t).in \in {"code", "/*"} /\ (t # "*/" => After(L, m, t).in = "/*")
         /\ m.in \in AllQuotes => After(L, m, t).in \in {"code", m.in}
  <1>1. CASE m.in = "code"
    <2>1. t \in Opens(L) => Within(t).in = t
      <3>1. SUFFICES ASSUME t \in Opens(L) PROVE Within(t).in = t
        OBVIOUS
      <3>2. t \in {"--", "#", "$$", "/*"} \cup AllQuotes
        BY <3>1, OpensAre
      <3>3. Within(t) = [in |-> t, depth |-> 1, escaped |-> FALSE]
        BY <3>2, WithinIs
      <3>. QED  BY <3>3
    <2>2. m.in \notin {"--", "#", "$$", "/*"} /\ m.in \notin AllQuotes
      BY <1>1 DEF AllQuotes
    <2>. QED  BY <1>1, <2>1, <2>2, AfterCode, CodeIs
  <1>2. CASE m.in \in {"--", "#"}
    <2>1. m.in \notin {"code", "$$", "/*"} /\ m.in \notin AllQuotes
      BY <1>2 DEF AllQuotes
    <2>. QED  BY <1>2, <2>1, AfterLine, CodeIs
  <1>3. CASE m.in = "$$"
    <2>1. m.in \notin {"code", "--", "#", "/*"} /\ m.in \notin AllQuotes
      BY <1>3 DEF AllQuotes
    <2>. QED  BY <1>3, <2>1, AfterDollar, CodeIs
  <1>4. CASE m.in = "/*"
    <2>1. m.depth \in Int
      BY DEF ModeShape
    <2>2. ASSUME NEW n \in Int PROVE [m EXCEPT !.depth = n].in = "/*"
      <3>1. [m EXCEPT !.depth = n] = [in |-> m.in, depth |-> n, escaped |-> m.escaped]
        BY ModeMoves
      <3>. QED  BY <1>4, <3>1
    <2>3. [m EXCEPT !.depth = m.depth - 1].in = "/*" /\ [m EXCEPT !.depth = m.depth + 1].in = "/*"
      BY <2>1, <2>2
    <2>4. m.in \notin {"code", "--", "#", "$$"} /\ m.in \notin AllQuotes
      BY <1>4 DEF AllQuotes
    <2> DEFINE down == [m EXCEPT !.depth = m.depth - 1]
               up == [m EXCEPT !.depth = m.depth + 1]
    <2>5. After(L, m, t) = IF t = "*/" THEN IF m.depth = 1 THEN Code ELSE down
                           ELSE IF L.nested /\ t = "/*" THEN up ELSE m
      BY <1>4, AfterBlock
    <2>6. down.in = "/*" /\ up.in = "/*"
      BY <2>3
    <2> HIDE DEF down, up
    <2>7. After(L, m, t).in \in {"code", "/*"} /\ (t # "*/" => After(L, m, t).in = "/*")
      BY <1>4, <2>5, <2>6, CodeIs
    <2>. QED  BY <1>4, <2>4, <2>7
  <1>5. CASE m.in \in AllQuotes
    <2>1. ASSUME NEW b \in BOOLEAN PROVE [m EXCEPT !.escaped = b].in = m.in
      <3>1. [m EXCEPT !.escaped = b] = [in |-> m.in, depth |-> m.depth, escaped |-> b]
        BY ModeMoves
      <3>. QED  BY <3>1
    <2> DEFINE x == t = "bs" /\ m.in \in L.escapes
    <2>2. x \in BOOLEAN
      OBVIOUS
    <2>3. [m EXCEPT !.escaped = FALSE].in = m.in /\ [m EXCEPT !.escaped = x].in = m.in
      <3> HIDE DEF x
      <3>. QED  BY <2>1, <2>2
    <2>4. m.in \notin {"code", "--", "#", "$$", "/*"}
      BY <1>5 DEF AllQuotes
    <2> DEFINE off == [m EXCEPT !.escaped = FALSE]
               on == [m EXCEPT !.escaped = x]
    <2>5. After(L, m, t) = IF m.escaped THEN off ELSE IF t = m.in THEN Code ELSE on
      BY <1>5, AfterQuote
    <2>6. off.in = m.in /\ on.in = m.in
      BY <2>3
    <2> HIDE DEF off, on
    <2>7. After(L, m, t).in \in {"code", m.in}
      BY <2>5, <2>6, CodeIs
    <2>. QED  BY <1>5, <2>4, <2>7
  <1>. QED  BY <1>1, <1>2, <1>3, <1>4, <1>5, ModeKinds

\* What a lexer is in began with its mark, behind code, and went on since.
LEMMA Began ==
  ASSUME NEW L \in LexerShape, NEW s, Len(s) \in Nat, NEW k \in 0..Len(s), Modes(L, s)[k].in # "code"
  PROVE  \E o \in 1..k : /\ Modes(L, s)[o-1] = Code
                         /\ s[o] = Modes(L, s)[k].in /\ s[o] \in Opens(L)
                         /\ \A i \in o..k : Modes(L, s)[i].in = Modes(L, s)[k].in
  <1> DEFINE g == Modes(L, s)
             n == Len(s)
             x == g[k].in
             S == {i \in 0..n : g[i].in = x}
  <1>1. /\ g \in [0..n -> ModeShape] /\ g[0] = Code
        /\ \A i \in 1..n : g[i] = After(L, g[i-1], s[i])
        /\ \A i \in 0..n : g[i].in = "code" => g[i] = Code
    BY ModesAre DEF ModeSteps
  <1>0. n \in Nat /\ k \in 0..n /\ x # "code" /\ g[k].in = x
    OBVIOUS
  <1> HIDE DEF g, n, x
  <1>2. 0 \in 0..n /\ k \in Nat /\ 0 \notin S /\ k \in S
    BY <1>0, <1>1, CodeIs
  <1>3. PICK o \in (0+1)..k : o - 1 \notin S /\ \A i \in o..k : i \in S
    <2> HIDE DEF S
    <2>. QED  BY <1>0, <1>2, LastChange
  <1>4. o \in 1..n /\ o \in 1..k /\ o - 1 \in 0..n /\ o \in 0..n /\ o \in o..k
    BY <1>0, <1>3
  <1>5. g[o-1].in # x /\ g[o].in = x
    BY <1>3, <1>4
  <1>6. g[o-1] \in ModeShape /\ (g[o-1].in = "code" => g[o-1] = Code) /\ g[o] = After(L, g[o-1], s[o])
    BY <1>1, <1>4
  <1>7. g[o-1].in = "code"
    <2>1. SUFFICES ASSUME g[o-1].in # "code" PROVE After(L, g[o-1], s[o]).in \in {"code", g[o-1].in}
      BY <1>0, <1>5, <1>6
    <2>2. g[o-1].in \in {"--", "#"} \/ g[o-1].in = "$$" \/ g[o-1].in = "/*" \/ g[o-1].in \in AllQuotes
      BY <1>6, <2>1, ModeKinds
    <2>. QED  BY <1>6, <2>2, AfterKind
  <1>8. After(L, g[o-1], s[o]).in = IF s[o] \in Opens(L) THEN s[o] ELSE "code"
    BY <1>6, <1>7, AfterKind
  <1>9. s[o] = x /\ s[o] \in Opens(L)
    BY <1>0, <1>5, <1>6, <1>8
  <1>10. \A i \in o..k : g[i].in = x
    BY <1>3
  <1>. QED  BY <1>4, <1>6, <1>7, <1>9, <1>10 DEF g, x

IsMode(m) == m \in ModeShape /\ (m.in = "code" => m = Code)

LEMMA Fields ==
  ASSUME NEW d
  PROVE  /\ ClassifyLexer(d).nested = FALSE /\ ScrubLexer(d).nested = FALSE
         /\ GuardLexer.nested = FALSE /\ EditorLexer.nested = TRUE /\ CommentLexer.nested = FALSE
         /\ ClassifyLexer(d).escapes = IF d = "postgres" THEN {} ELSE AllQuotes
         /\ ScrubLexer(d).escapes = ClassifyLexer(d).escapes
         /\ GuardLexer.escapes = AllQuotes /\ EditorLexer.escapes = {"sq"}
         /\ ClassifyLexer(d).hash <=> d = "mysql"
         /\ ClassifyLexer(d).dollar <=> d = "postgres"
         /\ ClassifyLexer(d).quotes = {"sq", "dq"} \cup (IF d \in {"mysql", "bigquery"} THEN {"bt"} ELSE {})
         /\ ScrubLexer(d).hash <=> d = "mysql"
         /\ ScrubLexer(d).dollar <=> d = "postgres"
         /\ ScrubLexer(d).quotes = {"sq", "dq", "bt"}
         /\ ~CommentLexer.hash /\ ~CommentLexer.dollar /\ CommentLexer.quotes = {}
  <1>1. /\ ClassifyLexer(d).nested = FALSE
        /\ ClassifyLexer(d).escapes = IF d = "postgres" THEN {} ELSE AllQuotes
        /\ ClassifyLexer(d).hash <=> d = "mysql"
        /\ ClassifyLexer(d).dollar <=> d = "postgres"
        /\ ClassifyLexer(d).quotes = {"sq", "dq"} \cup (IF d \in {"mysql", "bigquery"} THEN {"bt"} ELSE {})
    BY DEF ClassifyLexer, AllQuotes
  <1>2. /\ GuardLexer.nested = FALSE /\ EditorLexer.nested = TRUE
        /\ GuardLexer.escapes = AllQuotes /\ EditorLexer.escapes = {"sq"}
    BY DEF GuardLexer, EditorLexer, AllQuotes
  <1>3. \A X \in LexerShape : \A Q :
          /\ [X EXCEPT !.quotes = Q].nested = X.nested /\ [X EXCEPT !.quotes = Q].escapes = X.escapes
          /\ [X EXCEPT !.quotes = Q].hash = X.hash /\ [X EXCEPT !.quotes = Q].dollar = X.dollar
          /\ [X EXCEPT !.quotes = Q].quotes = Q
    BY DEF LexerShape
  <1>4. /\ ScrubLexer(d).nested = ClassifyLexer(d).nested /\ ScrubLexer(d).escapes = ClassifyLexer(d).escapes
        /\ ScrubLexer(d).hash = ClassifyLexer(d).hash /\ ScrubLexer(d).dollar = ClassifyLexer(d).dollar
        /\ ScrubLexer(d).quotes = {"sq", "dq", "bt"}
    BY <1>3, LexersAre DEF ScrubLexer
  <1>5. CommentLexer.nested = FALSE /\ ~CommentLexer.hash /\ ~CommentLexer.dollar /\ CommentLexer.quotes = {}
    <2>1. \A X \in LexerShape : LET Y == [X EXCEPT !.hash = FALSE, !.dollar = FALSE, !.quotes = {}]
                               IN Y.nested = X.nested /\ Y.hash = FALSE /\ Y.dollar = FALSE /\ Y.quotes = {}
      BY DEF LexerShape
    <2>. QED  BY <1>2, <2>1, LexersAre DEF CommentLexer
  <1>. QED  BY <1>1, <1>2, <1>4, <1>5

\* What opens something, in each.
LEMMA OpensWhat ==
  ASSUME NEW d, NEW t
  PROVE  /\ t \in Opens(ClassifyLexer(d)) <=>
              \/ t \in {"sq", "dq", "--", "/*"}
              \/ t = "bt" /\ d \in {"mysql", "bigquery"}
              \/ t = "#" /\ d = "mysql"
              \/ t = "$$" /\ d = "postgres"
         /\ t \in Opens(ScrubLexer(d)) <=>
              \/ t \in {"sq", "dq", "bt", "--", "/*"}
              \/ t = "#" /\ d = "mysql"
              \/ t = "$$" /\ d = "postgres"
         /\ t \in Opens(GuardLexer) <=> t \in {"sq", "dq", "bt", "--", "/*", "#", "$$"}
         /\ t \in Opens(EditorLexer) <=> t \in {"sq", "dq", "--", "/*", "$$"}
         /\ t \in Opens(CommentLexer) <=> t \in {"--", "/*"}
  <1>1. \A L : t \in Opens(L) <=>
                t \in L.quotes \/ t \in {"--", "/*"} \/ (t = "#" /\ L.hash) \/ (t = "$$" /\ L.dollar)
    <2> TAKE L
    <2>1. CASE L.hash /\ L.dollar
      BY <2>1 DEF Opens
    <2>2. CASE L.hash /\ ~L.dollar
      BY <2>2 DEF Opens
    <2>3. CASE ~L.hash /\ L.dollar
      BY <2>3 DEF Opens
    <2>4. CASE ~L.hash /\ ~L.dollar
      BY <2>4 DEF Opens
    <2>. QED  BY <2>1, <2>2, <2>3, <2>4
  <1>2. GuardLexer.hash /\ GuardLexer.dollar /\ GuardLexer.quotes = {"sq", "dq", "bt"}
        /\ ~EditorLexer.hash /\ EditorLexer.dollar /\ EditorLexer.quotes = {"sq", "dq"}
    BY DEF GuardLexer, EditorLexer
  <1>3. t \in Opens(ClassifyLexer(d)) <=>
              \/ t \in {"sq", "dq", "--", "/*"}
              \/ t = "bt" /\ d \in {"mysql", "bigquery"}
              \/ t = "#" /\ d = "mysql"
              \/ t = "$$" /\ d = "postgres"
    BY <1>1, Fields
  <1>4. t \in Opens(ScrubLexer(d)) <=>
              \/ t \in {"sq", "dq", "bt", "--", "/*"}
              \/ t = "#" /\ d = "mysql"
              \/ t = "$$" /\ d = "postgres"
    BY <1>1, Fields
  <1>5. t \in Opens(GuardLexer) <=> t \in {"sq", "dq", "bt", "--", "/*", "#", "$$"}
    BY <1>1, <1>2
  <1>6. t \in Opens(EditorLexer) <=> t \in {"sq", "dq", "--", "/*", "$$"}
    BY <1>1, <1>2
  <1>7. t \in Opens(CommentLexer) <=> t \in {"--", "/*"}
    BY <1>1, Fields
  <1>. QED  BY <1>3, <1>4, <1>5, <1>6, <1>7

LEMMA ContestedWhat ==
  ASSUME NEW d, NEW t, t \notin GuardContested(d)
  PROVE  /\ t = "$$" => d = "postgres"
         /\ t = "#" => d = "mysql"
         /\ t = "bt" => d \in {"mysql", "bigquery"}
         /\ t = "bs" => d # "postgres"
  BY DEF GuardContested

\* Two lexers go on alike at a token that opens the same in both, and escapes and
\* nests the same.
LEMMA Alike ==
  ASSUME NEW L, NEW M, NEW m, NEW t, IsMode(m),
         m.in = "code" => (t \in Opens(L) <=> t \in Opens(M)),
         m.in = "/*" /\ t = "/*" => L.nested = M.nested,
         m.in \in AllQuotes /\ t = "bs" => (m.in \in L.escapes <=> m.in \in M.escapes)
  PROVE  After(L, m, t) = After(M, m, t)
  <1>1. CASE m.in = "code"
    BY <1>1, AfterCode DEF IsMode
  <1>2. CASE m.in \in {"--", "#"}
    BY <1>2, AfterLine DEF IsMode
  <1>3. CASE m.in = "$$"
    BY <1>3, AfterDollar DEF IsMode
  <1>4. CASE m.in = "/*"
    <2> DEFINE down == [m EXCEPT !.depth = @ - 1]
               up == [m EXCEPT !.depth = @ + 1]
    <2>1. /\ After(L, m, t) = IF t = "*/" THEN IF m.depth = 1 THEN Code ELSE down
                              ELSE IF L.nested /\ t = "/*" THEN up ELSE m
          /\ After(M, m, t) = IF t = "*/" THEN IF m.depth = 1 THEN Code ELSE down
                              ELSE IF M.nested /\ t = "/*" THEN up ELSE m
      BY <1>4, AfterBlock DEF IsMode
    <2> HIDE DEF down, up
    <2>. QED  BY <1>4, <2>1
  <1>5. CASE m.in \in AllQuotes
    <2> DEFINE off == [m EXCEPT !.escaped = FALSE]
               on(b) == [m EXCEPT !.escaped = b]
               x == t = "bs" /\ m.in \in L.escapes
               y == t = "bs" /\ m.in \in M.escapes
    <2>1. /\ After(L, m, t) = IF m.escaped THEN off ELSE IF t = m.in THEN Code ELSE on(x)
          /\ After(M, m, t) = IF m.escaped THEN off ELSE IF t = m.in THEN Code ELSE on(y)
      BY <1>5, AfterQuote DEF IsMode
    <2>2. x = y
      BY <1>5
    <2> HIDE DEF off, on, x, y
    <2>. QED  BY <2>1, <2>2
  <1>. QED  BY <1>1, <1>2, <1>3, <1>4, <1>5, ModeKinds DEF IsMode

\* A text that is read alike by all.
Plain(s, d) ==
  /\ \A i \in 1..Len(s) : s[i] \notin {"bs", "#", "bt"} \cup GuardContested(d)
  /\ \A i, j \in 1..Len(s) : s[i] = "/*" /\ s[j] = "/*" => i = j

LEMMA UncontestedIsPlain ==
  ASSUME NEW s, NEW n \in Nat, DOMAIN s = 1..n, Len(s) = n, NEW d, ~Contested(s, d)
  PROVE  Plain(s, d)
  <1>1. \A i \in 1..n : s[i] \notin {"bs", "#", "bt"} \cup GuardContested(d)
    BY DEF Contested, Has
  <1> DEFINE S == {i \in DOMAIN s : s[i] = "/*"}
  <1>2. ~(Cardinality(S) > 1)
    BY DEF Contested
  <1>3. IsFiniteSet(S)
    <2>1. IsFiniteSet(1..n)
      BY FS_Interval
    <2>2. S \subseteq 1..n
      BY ZenonT(30)
    <2> HIDE DEF S
    <2>. QED  BY <2>1, <2>2, FS_Subset
  <1>4. \A x, y \in S : x = y
    <2> HIDE DEF S
    <2>. QED  BY <1>2, <1>3, AtMostOne
  <1>5. \A i, j \in 1..n : s[i] = "/*" /\ s[j] = "/*" => i = j
    <2> SUFFICES ASSUME NEW i \in 1..n, NEW j \in 1..n, s[i] = "/*", s[j] = "/*" PROVE i = j
      OBVIOUS
    <2>1. i \in S /\ j \in S
      BY ZenonT(30)
    <2> HIDE DEF S
    <2>. QED  BY <1>4, <2>1
  <1>. QED  BY <1>1, <1>5 DEF Plain

\* The handler and the driver, on what is not contested between them.
LEMMA GuardReads ==
  ASSUME NEW s, Len(s) \in Nat, DOMAIN s = 1..Len(s), NEW d,
         \A i \in 1..Len(s) : s[i] \notin GuardContested(d)
  PROVE  Pieces(GuardLexer, s) = Pieces(ClassifyLexer(d), s)
  <1> DEFINE L == GuardLexer
             M == ClassifyLexer(d)
  <1>1. ASSUME NEW i \in 1..Len(s) PROVE After(L, Modes(L, s)[i-1], s[i]) = After(M, Modes(L, s)[i-1], s[i])
    <2>1. IsMode(Modes(L, s)[i-1])
      BY LexersAre, ModesAre DEF ModeSteps, IsMode
    <2>2. s[i] \notin GuardContested(d)
      OBVIOUS
    <2>3. s[i] \in Opens(L) <=> s[i] \in Opens(M)
      BY <2>2, ContestedWhat, OpensWhat
    <2>4. s[i] = "bs" => L.escapes = M.escapes
      BY <2>2, ContestedWhat, Fields
    <2>5. L.nested = M.nested
      BY Fields
    <2> HIDE DEF L, M
    <2>. QED  BY <2>1, <2>3, <2>4, <2>5, Alike
  <1>. QED  BY <1>1, LexersAre, SameReading

\* On a plain text, all four read the same.
LEMMA PlainReads ==
  ASSUME NEW s, Len(s) \in Nat, DOMAIN s = 1..Len(s), NEW d, Plain(s, d),
         NEW M \in {GuardLexer, ClassifyLexer(d), ScrubLexer(d)}
  PROVE  CodeOf(M, s) = CodeOf(EditorLexer, s) /\ Pieces(M, s) = Pieces(EditorLexer, s)
         /\ \A i \in 0..Len(s) : Modes(M, s)[i] = Modes(EditorLexer, s)[i]
  <1> DEFINE L == EditorLexer
  <1>0. M \in LexerShape /\ L \in LexerShape
    BY LexersAre
  <1>1. ASSUME NEW i \in 1..Len(s) PROVE After(L, Modes(L, s)[i-1], s[i]) = After(M, Modes(L, s)[i-1], s[i])
    <2>1. IsMode(Modes(L, s)[i-1])
      BY <1>0, ModesAre DEF ModeSteps, IsMode
    <2>2. s[i] \notin {"bs", "#", "bt"} \cup GuardContested(d)
      BY DEF Plain
    <2>3. s[i] \in Opens(L) <=> s[i] \in Opens(M)
      BY <2>2, ContestedWhat, OpensWhat
    <2>4. ~(Modes(L, s)[i-1].in = "/*" /\ s[i] = "/*")
      <3>1. SUFFICES ASSUME Modes(L, s)[i-1].in = "/*", s[i] = "/*" PROVE FALSE
        OBVIOUS
      <3>2. PICK o \in 1..(i-1) : s[o] = "/*"
        <4>1. i - 1 \in 0..Len(s) /\ Modes(L, s)[i-1].in # "code"
          BY <3>1
        <4>. QED  BY <1>0, <3>1, <4>1, Began
      <3>3. o \in 1..Len(s) /\ o # i
        OBVIOUS
      <3>. QED  BY <3>1, <3>2, <3>3 DEF Plain
    <2> HIDE DEF L
    <2>. QED  BY <2>1, <2>2, <2>3, <2>4, Alike
  <1>. QED  BY <1>0, <1>1, SameReading

LEMMA TextIs ==
  ASSUME NEW T, NEW s \in Seq(T)
  PROVE  Len(s) \in Nat /\ DOMAIN s = 1..Len(s)
  OBVIOUS

\* A piece, on its own, is read as in the text, and has no break.
LEMMA PieceReads ==
  ASSUME NEW L \in LexerShape, NEW T, NEW s \in Seq(T), NEW p \in Pieces(L, s)
  PROVE  /\ p.from \in 1..Len(s) /\ p.to \in 1..Len(s) /\ p.from <= p.to
         /\ PieceText(s, p) \in Seq(T) /\ Len(PieceText(s, p)) = p.to - p.from + 1
         /\ \A k \in 1..Len(PieceText(s, p)) :
              /\ PieceText(s, p)[k] = s[p.from + k - 1]
              /\ k \in CodeOf(L, PieceText(s, p)) <=> p.from + k - 1 \in CodeOf(L, s)
         /\ Breaks(L, PieceText(s, p)) = {}
  <1> DEFINE B == Breaks(L, s)
             n == Len(s)
             u == PieceText(s, p)
  <1>0. n \in Nat /\ DOMAIN s = 1..n
    BY TextIs
  <1>1. CodeOf(L, s) \subseteq 1..n /\ B \subseteq CodeOf(L, s)
    BY <1>0, CodeOfIs DEF Breaks
  <1>2. IsPiece(p, B, n)
    <2>1. B \in SUBSET (1..n) /\ p \in PiecesAt(B, s, n)
      BY <1>1, PiecesAre
    <2> HIDE DEF B, n
    <2>. QED  BY <1>0, <2>1, PieceIs
  <1>3. p.from \in 1..n /\ p.to \in 1..n /\ p.from <= p.to
    BY <1>2 DEF IsPiece
  <1>4. Modes(L, s)[p.from - 1] = Code
    <2>1. CASE p.from = 1
      <3>1. Modes(L, s)[0] = Code
        BY <1>0, ModesAre DEF ModeSteps
      <3>. QED  BY <2>1, <3>1
    <2>2. CASE p.from # 1
      <3>1. p.from - 1 \in CodeOf(L, s)
        BY <1>1, <1>2, <2>2 DEF IsPiece
      <3>. QED  BY <3>1, CodeOfIs
    <2>. QED  BY <2>1, <2>2
  <1>5. u = SubSeq(s, p.from, p.to)
    BY DEF PieceText
  <1>6. p.from \in 1..(Len(s) + 1) /\ p.to \in (p.from - 1)..Len(s)
    BY <1>0, <1>3
  <1>7. /\ u \in Seq(T) /\ Len(u) = p.to - p.from + 1
        /\ \A k \in 1..Len(u) : u[k] = s[p.from + k - 1]
        /\ \A k \in 1..Len(u) : k \in CodeOf(L, u) <=> p.from + k - 1 \in CodeOf(L, s)
    <2> HIDE DEF u
    <2>1. ASSUME NEW a \in 1..(Len(s) + 1), NEW b \in (a - 1)..Len(s), Modes(L, s)[a-1] = Code, NEW w, w = SubSeq(s, a, b)
          PROVE  /\ w \in Seq(T) /\ Len(w) = b - a + 1
                 /\ \A k \in 1..Len(w) : w[k] = s[a + k - 1]
      BY <2>1, SubReading
    <2>2. ASSUME NEW a \in 1..(Len(s) + 1), NEW b \in (a - 1)..Len(s), Modes(L, s)[a-1] = Code, NEW w, w = SubSeq(s, a, b)
          PROVE  \A k \in 1..Len(w) : k \in CodeOf(L, w) <=> a + k - 1 \in CodeOf(L, s)
      BY <2>2, SubReading
    <2>3. /\ u \in Seq(T) /\ Len(u) = p.to - p.from + 1
          /\ \A k \in 1..Len(u) : u[k] = s[p.from + k - 1]
      BY <1>4, <1>5, <1>6, <2>1
    <2>4. \A k \in 1..Len(u) : k \in CodeOf(L, u) <=> p.from + k - 1 \in CodeOf(L, s)
      BY <1>4, <1>5, <1>6, <2>2
    <2>. QED  BY <2>3, <2>4
  <1>8. Breaks(L, u) = {}
    <2>1. SUFFICES ASSUME NEW k \in Breaks(L, u) PROVE FALSE
      OBVIOUS
    <2>2. k \in CodeOf(L, u) /\ u[k] = ";"
      BY DEF Breaks
    <2>3. k \in 1..Len(u)
      <3> HIDE DEF u
      <3>1. DOMAIN u = 1..Len(u)
        BY <1>7, TextIs
      <3>. QED  BY <2>2, <3>1, CodeOfIs
    <2>4. p.from + k - 1 \in CodeOf(L, s) /\ s[p.from + k - 1] = ";"
      BY <1>7, <2>2, <2>3
    <2>5. p.from + k - 1 \in B
      BY <2>4 DEF Breaks
    <2>6. p.from + k - 1 \in p.from..p.to
      <3>1. k \in Nat /\ 1 <= k /\ k <= p.to - p.from + 1
        BY <1>3, <1>7, <2>3
      <3>. QED  BY <1>3, <3>1
    <2>. QED  BY <1>2, <2>5, <2>6 DEF IsPiece
  <1>. QED  BY <1>3, <1>7, <1>8

LEMMA PlainPiece ==
  ASSUME NEW L \in LexerShape, NEW T, NEW s \in Seq(T), NEW p \in Pieces(L, s), NEW d, Plain(s, d)
  PROVE  Plain(PieceText(s, p), d)
  <1> DEFINE u == PieceText(s, p)
  <1>1. /\ p.from \in 1..Len(s) /\ p.to \in 1..Len(s) /\ p.from <= p.to
        /\ u \in Seq(T) /\ Len(u) = p.to - p.from + 1
        /\ \A k \in 1..Len(u) : u[k] = s[p.from + k - 1]
    BY PieceReads
  <1> HIDE DEF u
  <1>2. ASSUME NEW k \in 1..Len(u) PROVE p.from + k - 1 \in 1..Len(s) /\ u[k] = s[p.from + k - 1] /\ k \in Int
    <2>1. k \in Nat /\ 1 <= k /\ k <= p.to - p.from + 1 /\ Len(s) \in Nat
      BY <1>1
    <2>. QED  BY <1>1, <2>1
  <1>3. \A k \in 1..Len(u) : u[k] \notin {"bs", "#", "bt"} \cup GuardContested(d)
    BY <1>2 DEF Plain
  <1>4. ASSUME NEW i \in 1..Len(u), NEW j \in 1..Len(u), u[i] = "/*", u[j] = "/*" PROVE i = j
    <2>1. p.from + i - 1 = p.from + j - 1
      BY <1>2, <1>4 DEF Plain
    <2>2. p.from \in Int /\ i \in Int /\ j \in Int
      BY <1>1
    <2>. QED  BY <2>1, <2>2
  <1>. QED  BY <1>3, <1>4 DEF Plain, u

\* The piece the editor's cursor is in is one of its pieces.
LEMMA StatementIs ==
  ASSUME NEW T, NEW s \in Seq(T), NEW c, Pieces(EditorLexer, s) # {}
  PROVE  StatementAt(s, c) \in Pieces(EditorLexer, s)
  <1> DEFINE P == Pieces(EditorLexer, s)
             n == Len(s)
             FirstOf(Q) == CHOOSE p \in Q : \A r \in Q : p.from <= r.from
             LastOf(Q) == CHOOSE p \in Q : \A r \in Q : p.from >= r.from
  <1>1. n \in Nat /\ \A p \in P : p.from \in 1..n
    BY PieceReads, LexersAre
  <1> HIDE DEF P, n
  <1>2. ASSUME NEW Q \in SUBSET P, Q # {} PROVE FirstOf(Q) \in Q
    <2> DEFINE F == {p.from : p \in Q}
    <2>1. F \in SUBSET Nat /\ F # {}
      BY <1>1, <1>2
    <2>2. PICK x \in F : \A y \in F : x <= y
      <3> HIDE DEF F
      <3>. QED  BY <2>1, LeastElement
    <2>3. \E p \in Q : \A r \in Q : p.from <= r.from
      BY <2>2
    <2>. QED  BY <2>3
  <1>3. ASSUME NEW Q \in SUBSET P, Q # {} PROVE LastOf(Q) \in Q
    <2> DEFINE F == {n - p.from : p \in Q}
    <2>1. F \in SUBSET Nat /\ F # {}
      BY <1>1, <1>3
    <2>2. PICK x \in F : \A y \in F : x <= y
      <3> HIDE DEF F
      <3>. QED  BY <2>1, LeastElement
    <2>3. \E p \in Q : \A r \in Q : p.from >= r.from
      <3>1. PICK p \in Q : x = n - p.from
        OBVIOUS
      <3>2. ASSUME NEW r \in Q PROVE p.from >= r.from
        <4>1. n - r.from \in F
          OBVIOUS
        <4>2. x <= n - r.from
          <5> HIDE DEF F
          <5>. QED  BY <2>2, <4>1
        <4>3. p.from \in Int /\ r.from \in Int
          BY <1>1
        <4>. QED  BY <1>1, <3>1, <4>2, <4>3
      <3>. QED  BY <3>2
    <2>. QED  BY <2>3
  <1>4. \E A \in SUBSET P, B \in SUBSET P :
          StatementAt(s, c) = IF A # {} THEN FirstOf(A) ELSE IF B # {} THEN LastOf(B) ELSE FirstOf(P)
    <2> DEFINE solid(p) == {i \in p.from..p.to : s[i] # "nl"}
               from(p) == SetMin(solid(p)) - 1
               to(p) == IF p.to < Len(s) THEN p.to + 1 ELSE SetMax(solid(p))
               A == {p \in P : from(p) <= c /\ c <= to(p) + 1}
               B == {p \in P : from(p) <= c}
    <2>1. StatementAt(s, c) = IF A # {} THEN FirstOf(A) ELSE IF B # {} THEN LastOf(B) ELSE FirstOf(P)
      BY DEF StatementAt, P
    <2>2. A \in SUBSET P /\ B \in SUBSET P
      OBVIOUS
    <2> HIDE DEF A, B, FirstOf, LastOf
    <2>. QED  BY <2>1, <2>2
  <1>5. P # {} /\ P \in SUBSET P
    BY DEF P
  <1> HIDE DEF FirstOf, LastOf
  <1>6. PICK A \in SUBSET P, B \in SUBSET P :
          StatementAt(s, c) = IF A # {} THEN FirstOf(A) ELSE IF B # {} THEN LastOf(B) ELSE FirstOf(P)
    BY <1>4
  <1>7. A # {} => FirstOf(A) \in P
    BY <1>2
  <1>8. B # {} => LastOf(B) \in P
    BY <1>3
  <1>9. FirstOf(P) \in P
    BY <1>2, <1>5
  <1>. QED  BY <1>6, <1>7, <1>8, <1>9 DEF P

\* What the handler refuses is nothing the editor sends.
LEMMA SentIsOne ==
  ASSUME NEW T, NEW s \in Seq(T), NEW d, Plain(s, d), NEW c
  PROVE  ~IsMultiStatement(SqlToRun(s, c))
  <1>1. ASSUME NEW v, Pieces(GuardLexer, v) = {} PROVE ~IsMultiStatement(v)
    BY <1>1, FS_EmptySet DEF IsMultiStatement
  <1>2. CASE Pieces(EditorLexer, s) = {}
    <2>1. Pieces(GuardLexer, s) = {}
      BY <1>2, TextIs, PlainReads
    <2>2. SqlToRun(s, c) = s
      BY <1>2 DEF SqlToRun
    <2>. QED  BY <1>1, <2>1, <2>2
  <1>3. CASE Pieces(EditorLexer, s) # {}
    <2> DEFINE p == StatementAt(s, c)
               u == PieceText(s, p)
    <2>1. p \in Pieces(EditorLexer, s)
      BY <1>3, StatementIs
    <2>2. SqlToRun(s, c) = u
      BY <1>3 DEF SqlToRun
    <2> HIDE DEF p
    <2>3. u \in Seq(T) /\ Breaks(EditorLexer, u) = {} /\ Plain(u, d)
      BY <2>1, LexersAre, PieceReads, PlainPiece
    <2> HIDE DEF u
    <2>4. Pieces(GuardLexer, u) = Pieces(EditorLexer, u)
      BY <2>3, TextIs, PlainReads
    <2>5. Cardinality(Pieces(EditorLexer, u)) \in 0..1
      BY <2>3, TextIs, PiecesAre, FewPieces
    <2>. QED  BY <2>2, <2>4, <2>5 DEF IsMultiStatement
  <1>. QED  BY <1>2, <1>3

LEMMA TextSplits ==
  ASSUME NEW T, text \in Seq(T)
  PROVE  SplittersAgree
  <1>1. Len(text) \in Nat /\ DOMAIN text = 1..Len(text)
    BY TextIs
  <1>2. ASSUME ~Has(text, GuardContested(dialect))
        PROVE  Pieces(GuardLexer, text) = SplitStatements(text, dialect)
    <2>1. \A i \in 1..Len(text) : text[i] \notin GuardContested(dialect)
      BY <1>1, <1>2 DEF Has
    <2>. QED  BY <1>1, <2>1, GuardReads DEF SplitStatements
  <1>3. ASSUME ~Contested(text, dialect)
        PROVE  /\ Pieces(EditorLexer, text) = SplitStatements(text, dialect)
               /\ \A c \in 0..Len(text) : ~IsMultiStatement(SqlToRun(text, c))
    <2>1. Plain(text, dialect)
      BY <1>1, <1>3, UncontestedIsPlain
    <2>2. Pieces(ClassifyLexer(dialect), text) = Pieces(EditorLexer, text)
      BY <1>1, <2>1, PlainReads
    <2>3. \A c : ~IsMultiStatement(SqlToRun(text, c))
      BY <2>1, SentIsOne
    <2>. QED  BY <2>2, <2>3 DEF SplitStatements
  <1>. QED  BY <1>2, <1>3 DEF SplittersAgree

LEMMA ReadHasNoDeny ==
  ASSUME NEW u, NEW d, Classify(u, d) = "read"
  PROVE  ~ContainsWord(u, d, DenyTokens)
  <1> DEFINE lead == LeadingKeyword(u, d)
             has == ContainsWord(u, d, DenyTokens)
             rest == IF ContainsWord(u, d, DenyFunctions(d)) THEN "other"
                     ELSE IF ast = "fails" THEN (IF lead \in Introspective THEN "read" ELSE "other")
                     ELSE AstKind(ast)
  <1>1. Classify(u, d) = CASE lead \in WriteLeading -> "write"
                           [] lead \in DdlLeading -> "ddl"
                           [] lead \notin ReadLeading \cup WriteLeading \cup DdlLeading -> "other"
                           [] OTHER -> IF has THEN "write" ELSE rest
    BY DEF Classify
  <1>2. SUFFICES ASSUME has PROVE FALSE
    OBVIOUS
  <1> HIDE DEF lead, has, rest
  <1>. QED  BY <1>1, <1>2 DEF WriteLeading, DdlLeading, ReadLeading

\* What is accepted as read-only has no word that writes outside quotes and
\* comments.
LEMMA DenyFree ==
  ASSUME NEW T, NEW s \in Seq(T), NEW d, Plain(s, d), IsReadOnlySql(s, d), NEW i \in CodeOf(EditorLexer, s)
  PROVE  s[i] \notin DenyTokens
  <1> DEFINE L == EditorLexer
             n == Len(s)
             P == Pieces(L, s)
  <1>0. n \in Nat /\ DOMAIN s = 1..n /\ L \in LexerShape
    BY TextIs, LexersAre
  <1>1. SUFFICES ASSUME s[i] \in DenyTokens PROVE FALSE
    OBVIOUS
  <1>2. s[i] \notin {";", "nl"}
    BY <1>1 DEF DenyTokens, WriteLeading, DdlLeading
  <1>3. i \in 1..n
    BY <1>0, CodeOfIs
  <1>4. PICK p \in P : i \in p.from..p.to
    <2>1. Breaks(L, s) \in SUBSET (1..n) /\ i \notin Breaks(L, s)
      <3>1. CodeOf(L, s) \subseteq 1..n
        BY <1>0, CodeOfIs
      <3>. QED  BY <1>2, <3>1 DEF Breaks
    <2>2. P = PiecesAt(Breaks(L, s), s, n)
      BY PiecesAre
    <2> HIDE DEF P, n
    <2>. QED  BY <1>0, <1>2, <1>3, <2>1, <2>2, PieceAround
  <1> DEFINE u == PieceText(s, p)
             k == i - p.from + 1
  <1>5. Classify(u, d) = "read"
    <2>1. p \in SplitStatements(s, d)
      BY <1>0, PlainReads DEF SplitStatements
    <2>2. [piece |-> p, kind |-> Classify(u, d)] \in ClassifyStatements(s, d)
      BY <2>1 DEF ClassifyStatements
    <2>3. \A x \in ClassifyStatements(s, d) : x.kind = "read"
      BY DEF IsReadOnlySql
    <2> HIDE DEF u
    <2>. QED  BY <2>2, <2>3
  <1>6. /\ p.from \in 1..n /\ p.to \in 1..n /\ p.from <= p.to
        /\ u \in Seq(T) /\ Len(u) = p.to - p.from + 1
    BY <1>0, PieceReads
  <1>7. \A j \in 1..Len(u) : u[j] = s[p.from + j - 1]
                             /\ (j \in CodeOf(L, u) <=> p.from + j - 1 \in CodeOf(L, s))
    BY <1>0, PieceReads
  <1>8. Plain(u, d)
    BY <1>0, PlainPiece
  <1> HIDE DEF u
  <1>9. k \in 1..Len(u) /\ p.from + k - 1 = i
    BY <1>0, <1>3, <1>4, <1>6
  <1>10. u[k] \in DenyTokens /\ k \in CodeOf(L, u)
    BY <1>1, <1>7, <1>9
  <1>11. k \in CodeOf(ScrubLexer(d), u)
    <2> HIDE DEF k
    <2>1. Len(u) \in Nat /\ DOMAIN u = 1..Len(u)
      BY <1>6, TextIs
    <2>. QED  BY <1>8, <1>10, <2>1, PlainReads
  <1>12. ContainsWord(u, d, DenyTokens)
    BY <1>10, <1>11 DEF ContainsWord, Scrubbed
  <1>. QED  BY <1>5, <1>12, ReadHasNoDeny

LEMMA SetMinIs ==
  ASSUME NEW R \in SUBSET Nat, R # {}
  PROVE  SetMin(R) \in R /\ \A y \in R : SetMin(R) <= y
  <1>1. \E x \in R : \A y \in R : x <= y
    BY LeastElement
  <1>. QED  BY <1>1 DEF SetMin

\* The command a result reports of a read is none that writes: up to the first
\* word, the lexer that knows comments only reads like the one that knows quotes.
LEMMA ReadsReportReads ==
  ASSUME NEW T, NEW s \in Seq(T), NEW d, Plain(s, d), IsReadOnlySql(s, d)
  PROVE  DetectCommand(s) \notin DenyTokens
  <1> DEFINE L == CommentLexer
             M == ScrubLexer(d)
             n == Len(s)
             g == Modes(L, s)
             h == Modes(M, s)
             rest == {i \in CodeOf(L, s) : s[i] \notin {"nl", "("}}
             j == SetMin(rest)
  <1>0. n \in Nat /\ DOMAIN s = 1..n /\ L \in LexerShape /\ M \in LexerShape
    BY TextIs, LexersAre
  <1>1. SUFFICES ASSUME DetectCommand(s) \in DenyTokens PROVE FALSE
    OBVIOUS
  <1>2. rest # {} /\ s[j] \in DenyTokens
    <2>1. DetectCommand(s) = IF rest # {} /\ s[j] \in Words THEN s[j] ELSE ""
      BY DEF DetectCommand
    <2>2. "" \notin DenyTokens
      BY DEF DenyTokens, WriteLeading, DdlLeading
    <2> HIDE DEF rest, j
    <2>. QED  BY <1>1, <2>1, <2>2
  <1>3. /\ g[0] = Code /\ \A i \in 1..n : g[i] = After(L, g[i-1], s[i])
        /\ h[0] = Code /\ \A i \in 1..n : h[i] = After(M, h[i-1], s[i])
        /\ \A i \in 0..n : IsMode(g[i])
    BY <1>0, ModesAre DEF ModeSteps, IsMode
  <1>4. \A i : i \in CodeOf(L, s) <=> i \in 1..n /\ g[i-1] = Code /\ g[i] = Code
    BY <1>0, CodeOfIs
  <1>5. \A i : i \in CodeOf(M, s) <=> i \in 1..n /\ h[i-1] = Code /\ h[i] = Code
    BY <1>0, CodeOfIs
  <1>6. j \in rest /\ \A i \in rest : j <= i
    <2>1. rest \in SUBSET Nat
      BY <1>4
    <2> HIDE DEF rest
    <2>. QED  BY <1>2, <2>1, SetMinIs
  <1>7. \A i \in rest : i \in CodeOf(L, s) /\ s[i] \notin {"nl", "("}
    OBVIOUS
  <1>8. \A i \in CodeOf(L, s) : s[i] \notin {"nl", "("} => i \in rest
    OBVIOUS
  <1> HIDE DEF g, h, n, rest, j
  <1>9. j \in 1..n /\ g[j-1] = Code /\ g[j] = Code
    BY <1>4, <1>6, <1>7
  <1>10. ASSUME NEW i \in 1..(j-1) PROVE After(L, g[i-1], s[i]) = After(M, g[i-1], s[i])
    <2>1. i \in 1..n /\ i - 1 \in 0..n /\ ~(j <= i)
      BY <1>0, <1>9
    <2>2. IsMode(g[i-1]) /\ L.nested = M.nested
      BY <1>3, <2>1, Fields
    <2>3. s[i] # "bs"
      BY <2>1 DEF Plain, n
    <2>4. ASSUME g[i-1].in = "code" PROVE s[i] \in Opens(L) <=> s[i] \in Opens(M)
      <3>1. g[i-1] = Code
        BY <2>2, <2>4 DEF IsMode
      <3>2. CASE s[i] \in Opens(L)
        BY <3>2, OpensWhat
      <3>3. CASE s[i] \notin Opens(L)
        <4>1. g[i] = Code
          BY <1>3, <2>1, <3>1, <3>3, AfterCode
        <4>2. i \in CodeOf(L, s)
          BY <1>4, <2>1, <3>1, <4>1
        <4>3. s[i] \in {"nl", "("}
          BY <1>6, <1>8, <2>1, <4>2
        <4>. QED  BY <4>3, OpensWhat
      <3>. QED  BY <3>2, <3>3
    <2> HIDE DEF L, M
    <2>5. s[i] = "bs" => L.escapes = M.escapes
      BY <2>3
    <2>6. CASE g[i-1].in = "code"
      <3>1. s[i] \in Opens(L) <=> s[i] \in Opens(M)
        BY <2>4, <2>6
      <3>. QED  BY <2>2, <2>5, <3>1, Alike
    <2>7. CASE g[i-1].in # "code"
      BY <2>2, <2>5, <2>7, Alike
    <2>. QED  BY <2>6, <2>7
  <1>11. g[j-1] = h[j-1]
    <2> DEFINE S == {i \in 0..(j-1) : g[i] = h[i]}
    <2>0. j - 1 \in Nat
      BY <1>0, <1>9
    <2>1. 0 \in S
      BY <1>3, <2>0
    <2>2. ASSUME NEW i \in 0..((j-1)-1), i \in S PROVE i + 1 \in S
      <3>1. i + 1 \in 1..(j-1) /\ i + 1 \in 1..n /\ (i + 1) - 1 = i /\ i + 1 \in 0..(j-1)
        BY <1>0, <1>9, <2>0
      <3>2. After(L, g[i], s[i+1]) = After(M, g[i], s[i+1])
        BY <1>10, <3>1
      <3>3. g[i+1] = After(L, g[i], s[i+1]) /\ h[i+1] = After(M, h[i], s[i+1]) /\ g[i] = h[i]
        BY <1>3, <2>2, <3>1
      <3>. QED  BY <3>1, <3>2, <3>3
    <2>3. \A i \in 0..(j-1) : i \in S
      <3> HIDE DEF S
      <3>. QED  BY <2>0, <2>1, <2>2, IntervalInduction
    <2>. QED  BY <2>0, <2>3
  <1>12. s[j] \notin Opens(M)
    BY <1>2, OpensWhat DEF DenyTokens, WriteLeading, DdlLeading
  <1>13. h[j] = Code /\ h[j-1] = Code
    BY <1>3, <1>9, <1>11, <1>12, AfterCode
  <1>14. j \in CodeOf(M, s)
    BY <1>5, <1>9, <1>13
  <1>15. j \in CodeOf(EditorLexer, s)
    BY <1>0, <1>14, PlainReads DEF n
  <1>. QED  BY <1>2, <1>15, DenyFree

Quoting == {"sq", "dq", "$$"}
Marks == {"--", "/*"} \cup Quoting

\* How a plain text of n tokens is read: the kind of text behind each token.
ReadsAs(k, s, n) ==
  /\ k[0] = "code"
  /\ \A i \in 1..n : k[i-1] = "code" => k[i] = IF s[i] \in Marks THEN s[i] ELSE "code"
  /\ \A i \in 1..n : k[i-1] = "--" => k[i] = IF s[i] = "nl" THEN "code" ELSE "--"
  /\ \A i \in 1..n : k[i-1] = "/*" => k[i] = IF s[i] = "*/" THEN "code" ELSE "/*"
  /\ \A i \in 0..n : k[i] \in {"code"} \cup Marks
  /\ \A i \in 0..n : k[i] # "code" =>
       \E o \in 1..i : k[o-1] = "code" /\ s[o] = k[i] /\ \A m \in o..i : k[m] = k[i]

Once(s, n) == \A i, j \in 1..n : s[i] = "/*" /\ s[j] = "/*" => i = j

LEMMA BlockDepth ==
  ASSUME NEW L \in LexerShape, L.nested = FALSE, NEW s, NEW n \in Nat, Len(s) = n
  PROVE  \A i \in 0..n : Modes(L, s)[i].in = "/*" => Modes(L, s)[i].depth = 1
  <1> DEFINE g == Modes(L, s)
             S == {i \in 0..n : g[i].in = "/*" => g[i].depth = 1}
  <1>1. /\ g[0] = Code
        /\ \A i \in 1..n : g[i] = After(L, g[i-1], s[i])
        /\ \A i \in 0..n : g[i] \in ModeShape /\ (g[i].in = "code" => g[i] = Code)
    BY ModesAre DEF ModeSteps
  <1> HIDE DEF g
  <1>2. 0 \in S
    BY <1>1, CodeIs
  <1>3. ASSUME NEW i \in 0..(n-1), i \in S PROVE i + 1 \in S
    <2>1. i + 1 \in 1..n /\ (i + 1) - 1 = i /\ i + 1 \in 0..n
      OBVIOUS
    <2> DEFINE m == g[i]
               t == s[i+1]
    <2>2. g[i+1] = After(L, m, t) /\ m \in ModeShape /\ (m.in = "code" => m = Code)
          /\ (m.in = "/*" => m.depth = 1)
      BY <1>1, <1>3, <2>1
    <2> HIDE DEF m, t
    <2>3. CASE m.in = "/*"
      BY <2>1, <2>2, <2>3, AfterBlock, CodeIs
    <2>4. CASE m.in = "code"
      <3>1. After(L, m, t) = IF t \in Opens(L) THEN Within(t) ELSE Code
        BY <2>2, <2>4, AfterCode
      <3>2. t \in Opens(L) => Within(t).depth = 1
        <4>1. SUFFICES ASSUME t \in Opens(L) PROVE Within(t).depth = 1
          OBVIOUS
        <4>2. t \in {"--", "#", "$$", "/*"} \cup AllQuotes
          BY <4>1, OpensAre
        <4>3. Within(t) = [in |-> t, depth |-> 1, escaped |-> FALSE]
          BY <4>2, WithinIs
        <4>. QED  BY <4>3
      <3>. QED  BY <2>1, <2>2, <3>1, <3>2, CodeIs
    <2>5. CASE m.in \notin {"/*", "code"}
      <3>1. m.in \in {"--", "#"} \/ m.in = "$$" \/ m.in \in AllQuotes
        BY <2>2, <2>5, ModeKinds
      <3>2. After(L, m, t).in \in {"code", m.in}
        BY <2>2, <3>1, AfterKind
      <3>. QED  BY <2>1, <2>2, <2>5, <3>2
    <2>. QED  BY <2>3, <2>4, <2>5
  <1>4. \A i \in 0..n : i \in S
    <2> HIDE DEF S
    <2>. QED  BY <1>2, <1>3, IntervalInduction
  <1>. QED  BY <1>4 DEF g

\* The modes of a plain text are such a reading.
LEMMA PlainReading ==
  ASSUME NEW s, NEW n \in Nat, Len(s) = n, NEW d, Plain(s, d),
         NEW k, \A i \in 0..n : k[i] = Modes(GuardLexer, s)[i].in
  PROVE  ReadsAs(k, s, n)
  <1> DEFINE L == GuardLexer
             g == Modes(L, s)
  <1>0. L \in LexerShape /\ L.nested = FALSE /\ \A i \in 0..n : k[i] = g[i].in
    BY LexersAre, Fields
  <1>1. /\ g[0] = Code
        /\ \A i \in 1..n : g[i] = After(L, g[i-1], s[i])
        /\ \A i \in 0..n : g[i] \in ModeShape /\ (g[i].in = "code" => g[i] = Code)
    BY <1>0, ModesAre DEF ModeSteps
  <1>2. \A i \in 0..n : g[i].in = "/*" => g[i].depth = 1
    BY <1>0, BlockDepth
  <1>3. \A i \in 1..n : s[i] \notin {"bs", "#", "bt"}
    BY DEF Plain
  <1>4. \A i \in 0..n : g[i].in # "code" =>
          \E o \in 1..i : g[o-1] = Code /\ s[o] = g[i].in /\ s[o] \in Opens(L) /\ \A m \in o..i : g[m].in = g[i].in
    BY <1>0, Began
  <1>5. \A t : t \in Opens(L) <=> t \in {"sq", "dq", "bt", "--", "/*", "#", "$$"}
    BY OpensWhat
  <1> HIDE DEF g, L
  <1>6. k[0] = "code"
    BY <1>0, <1>1, CodeIs
  <1>7. ASSUME NEW i \in 1..n
        PROVE  /\ k[i-1] = "code" => k[i] = IF s[i] \in Marks THEN s[i] ELSE "code"
               /\ k[i-1] = "--" => k[i] = IF s[i] = "nl" THEN "code" ELSE "--"
               /\ k[i-1] = "/*" => k[i] = IF s[i] = "*/" THEN "code" ELSE "/*"
    <2> DEFINE m == g[i-1]
               t == s[i]
    <2>1. i - 1 \in 0..n /\ i \in 0..n
      OBVIOUS
    <2>2. /\ k[i-1] = m.in /\ k[i] = After(L, m, t).in
          /\ m \in ModeShape /\ (m.in = "code" => m = Code) /\ (m.in = "/*" => m.depth = 1)
      BY <1>0, <1>1, <1>2, <2>1
    <2>3. t \in Marks <=> t \in Opens(L)
      BY <1>3, <1>5 DEF Marks, Quoting
    <2> HIDE DEF m, t
    <2>4. /\ m.in = "code" => After(L, m, t).in = IF t \in Opens(L) THEN t ELSE "code"
          /\ m.in = "--" => After(L, m, t).in = IF t = "nl" THEN "code" ELSE m.in
      BY <1>0, <2>2, AfterKind
    <2>5. m.in = "/*" => After(L, m, t).in = IF t = "*/" THEN "code" ELSE m.in
      BY <1>0, <2>2, AfterBlock, CodeIs
    <2>. QED  BY <2>2, <2>3, <2>4, <2>5 DEF t
  <1>8. ASSUME NEW i \in 0..n, k[i] # "code"
        PROVE  /\ k[i] \in Marks
               /\ \E o \in 1..i : k[o-1] = "code" /\ s[o] = k[i] /\ \A m \in o..i : k[m] = k[i]
    <2>1. PICK o \in 1..i : g[o-1] = Code /\ s[o] = g[i].in /\ s[o] \in Opens(L) /\ \A m \in o..i : g[m].in = g[i].in
      BY <1>0, <1>4, <1>8
    <2>2. o \in 1..n /\ o - 1 \in 0..n /\ \A m \in o..i : m \in 0..n
      OBVIOUS
    <2>3. k[o-1] = "code" /\ s[o] = k[i] /\ \A m \in o..i : k[m] = k[i]
      BY <1>0, <2>1, <2>2, CodeIs
    <2>4. s[o] \in Marks
      BY <1>3, <1>5, <2>1, <2>2 DEF Marks, Quoting
    <2>. QED  BY <2>3, <2>4
  <1>. QED  BY <1>6, <1>7, <1>8 DEF ReadsAs

\* A comment goes on until its end.
LEMMA LineLasts ==
  ASSUME NEW k, NEW s, NEW n \in Nat, ReadsAs(k, s, n), NEW a \in 0..n, NEW b \in a..n,
         k[a] = "--", \A m \in (a+1)..b : s[m] # "nl"
  PROVE  k[b] = "--"
  <1> DEFINE S == {i \in 0..n : k[i] = "--"}
  <1>1. SUFFICES ASSUME b \notin S PROVE FALSE
    OBVIOUS
  <1>2. a \in S /\ a \in Nat /\ b \in Nat /\ a <= b
    OBVIOUS
  <1>3. PICK i \in (a+1)..b : i \notin S /\ \A m \in a..(i-1) : m \in S
    <2> HIDE DEF S
    <2>. QED  BY <1>1, <1>2, FirstChange
  <1>4. i \in 1..n /\ i - 1 \in a..(i-1) /\ i \in 0..n
    OBVIOUS
  <1>5. k[i-1] = "--" /\ k[i] # "--"
    BY <1>3, <1>4
  <1>. QED  BY <1>4, <1>5 DEF ReadsAs

LEMMA BlockLasts ==
  ASSUME NEW k, NEW s, NEW n \in Nat, ReadsAs(k, s, n), NEW a \in 0..n, NEW b \in a..n,
         k[a] = "/*", \A m \in (a+1)..b : s[m] # "*/"
  PROVE  k[b] = "/*"
  <1> DEFINE S == {i \in 0..n : k[i] = "/*"}
  <1>1. SUFFICES ASSUME b \notin S PROVE FALSE
    OBVIOUS
  <1>2. a \in S /\ a \in Nat /\ b \in Nat /\ a <= b
    OBVIOUS
  <1>3. PICK i \in (a+1)..b : i \notin S /\ \A m \in a..(i-1) : m \in S
    <2> HIDE DEF S
    <2>. QED  BY <1>1, <1>2, FirstChange
  <1>4. i \in 1..n /\ i - 1 \in a..(i-1) /\ i \in 0..n
    OBVIOUS
  <1>5. k[i-1] = "/*" /\ k[i] # "/*"
    BY <1>3, <1>4
  <1>. QED  BY <1>4, <1>5 DEF ReadsAs

\* The text can only be in its one block comment behind the beginning of that.
LEMMA BlockBegins ==
  ASSUME NEW k, NEW s, NEW n \in Nat, ReadsAs(k, s, n), Once(s, n), NEW b \in 1..n, s[b] = "/*",
         NEW i \in 0..(b-1)
  PROVE  k[i] # "/*"
  <1>1. SUFFICES ASSUME k[i] = "/*" PROVE FALSE
    OBVIOUS
  <1>2. i \in 0..n
    OBVIOUS
  <1>3. PICK o \in 1..i : s[o] = "/*"
    BY <1>1, <1>2 DEF ReadsAs
  <1>4. o \in 1..n /\ o # b
    OBVIOUS
  <1>. QED  BY <1>3, <1>4 DEF Once

\* Where a block comment that begins at i may end.
Closes(s, i) == {j \in (i+1)..Len(s) : s[j] = "*/"}

\* What the end of the last block comment is, behind a token.
EndAfter(s, i, m) ==
  IF i > m /\ s[i] = "/*" /\ Closes(s, i) # {} THEN SetMin(Closes(s, i)) ELSE m

LEMMA ClosesAre ==
  ASSUME NEW s, NEW n \in Nat, Len(s) = n, NEW i \in 0..n
  PROVE  /\ Closes(s, i) \in SUBSET ((i+1)..n) /\ Closes(s, i) \in SUBSET Nat
         /\ \A j : j \in Closes(s, i) <=> j \in (i+1)..n /\ s[j] = "*/"
  <1>1. \A j : j \in Closes(s, i) <=> j \in (i+1)..n /\ s[j] = "*/"
    <2>1. \A j : j \in Closes(s, i) <=> j \in (i+1)..Len(s) /\ s[j] = "*/"
      BY Zenon DEF Closes
    <2>. QED  BY <2>1
  <1>2. (i+1)..n \subseteq Nat
    OBVIOUS
  <1>. QED  BY <1>1, <1>2

LEMMA EndStays ==
  ASSUME NEW s, NEW n \in Nat, Len(s) = n, NEW i \in 0..n, NEW m \in Nat
  PROVE  EndAfter(s, i, m) \in Nat
  <1>1. CASE Closes(s, i) = {}
    BY <1>1 DEF EndAfter
  <1>2. CASE Closes(s, i) # {}
    <2>1. Closes(s, i) \in SUBSET Nat
      BY ClosesAre
    <2>2. SetMin(Closes(s, i)) \in Nat
      BY <1>2, <2>1, SetMinIs
    <2>. QED  BY <2>2 DEF EndAfter
  <1>. QED  BY <1>1, <1>2

LEMMA EndsAre ==
  ASSUME NEW s, NEW n \in Nat, Len(s) = n
  PROVE  /\ BlockEnds(s)[0] = 0
         /\ \A i \in 1..n : BlockEnds(s)[i] = EndAfter(s, i, BlockEnds(s)[i-1])
  <1> DEFINE Steps(g) == [i \in 0..n |-> IF i = 0 THEN 0 ELSE EndAfter(s, i, g[i-1])]
             end == CHOOSE g : g = Steps(g)
             f == [i \in 1..n |-> [m \in Nat |-> EndAfter(s, i, m)]]
  <1>1. f \in [1..n -> [Nat -> Nat]]
    <2>1. ASSUME NEW i \in 1..n, NEW m \in Nat PROVE EndAfter(s, i, m) \in Nat
      <3>1. i \in 0..n
        OBVIOUS
      <3>. QED  BY <3>1, EndStays
    <2>. QED  BY <2>1
  <1>2. PICK g : TakesSteps(g, n, Nat, 0, f)
    <2> HIDE DEF f
    <2>. QED  BY <1>1, StepFunction
  <1>3. g \in [0..n -> Nat] /\ g[0] = 0 /\ \A i \in 1..n : g[i] = f[i][g[i-1]]
    BY <1>2 DEF TakesSteps
  <1>4. ASSUME NEW i \in 1..n PROVE g[i] = EndAfter(s, i, g[i-1])
    <2>1. i - 1 \in 0..n /\ g[i-1] \in Nat
      <3> HIDE DEF f
      <3>. QED  BY <1>3
    <2>. QED  BY <1>3, <2>1
  <1>5. g = Steps(g)
    <2>1. ASSUME NEW i \in 0..n PROVE g[i] = IF i = 0 THEN 0 ELSE EndAfter(s, i, g[i-1])
      <3>1. CASE i = 0
        BY <1>3, <3>1
      <3>2. CASE i # 0
        <4>1. i \in 1..n
          BY <3>2
        <4>. QED  BY <1>4, <4>1, <3>2
      <3>. QED  BY <3>1, <3>2
    <2> HIDE DEF f
    <2>. QED  BY <1>3, <2>1
  <1>6. end = Steps(end)
    <2> HIDE DEF Steps
    <2>. QED  BY <1>5
  <1>7. BlockEnds(s) = end
    <2> DEFINE closes(i) == {j \in (i+1)..Len(s) : s[j] = "*/"}
               Raw(h) == [i \in 0..Len(s) |->
                            CASE i = 0 -> 0
                              [] i > 0 /\ i > h[i-1] /\ s[i] = "/*" /\ closes(i) # {} -> SetMin(closes(i))
                              [] OTHER -> h[i-1]]
    <2>1. BlockEnds(s) = CHOOSE h : h = Raw(h)
      BY DEF BlockEnds
    <2>2. ASSUME NEW h PROVE Raw(h) = Steps(h)
      <3>1. ASSUME NEW i \in 0..n
            PROVE  (CASE i = 0 -> 0
                      [] i > 0 /\ i > h[i-1] /\ s[i] = "/*" /\ closes(i) # {} -> SetMin(closes(i))
                      [] OTHER -> h[i-1])
                   = IF i = 0 THEN 0 ELSE EndAfter(s, i, h[i-1])
        <4>1. closes(i) = Closes(s, i)
          BY DEF Closes
        <4> HIDE DEF closes
        <4>2. CASE i = 0
          BY <4>2
        <4>3. CASE i # 0
          <5>1. i > 0
            BY <4>3
          <5>. QED  BY <4>1, <4>3, <5>1 DEF EndAfter
        <4>. QED  BY <4>2, <4>3
      <3> HIDE DEF closes
      <3>. QED  BY <3>1
    <2> HIDE DEF Raw, Steps
    <2>. QED  BY <2>1, <2>2
  <1> HIDE DEF end, f
  <1>8. end[0] = 0
    BY <1>6
  <1>9. ASSUME NEW i \in 1..n PROVE end[i] = EndAfter(s, i, end[i-1])
    <2>1. i \in 0..n /\ i # 0
      OBVIOUS
    <2>. QED  BY <1>6, <2>1
  <1>. QED  BY <1>7, <1>8, <1>9
\* What is cut out of a text with at most one beginning of a block comment: that
\* comment up to its first end, if it has one.
Cuts(e, s, n) ==
  /\ \A i \in 0..n : e[i] \in Nat
  /\ \A i \in 0..n : e[i] # 0 =>
       \E b \in 1..i : /\ s[b] = "/*" /\ e[i] \in (b+1)..n /\ s[e[i]] = "*/"
                       /\ \A m \in (b+1)..(e[i]-1) : s[m] # "*/"
  /\ \A b \in 1..n : s[b] = "/*" /\ (\E c \in (b+1)..n : s[c] = "*/") => \A i \in b..n : e[i] # 0

LEMMA CutsAre ==
  ASSUME NEW s, NEW n \in Nat, Len(s) = n, Once(s, n), NEW e, e = BlockEnds(s)
  PROVE  Cuts(e, s, n)
  <1>1. e[0] = 0 /\ \A i \in 1..n : e[i] = EndAfter(s, i, e[i-1])
    BY EndsAre
  <1>2. ASSUME NEW b \in 1..n, Closes(s, b) # {}, NEW c, c = SetMin(Closes(s, b))
        PROVE  c \in (b+1)..n /\ s[c] = "*/" /\ \A m \in (b+1)..(c-1) : s[m] # "*/"
    <2>1. b \in 0..n
      OBVIOUS
    <2>2. /\ Closes(s, b) \in SUBSET ((b+1)..n) /\ Closes(s, b) \in SUBSET Nat
          /\ \A j : j \in Closes(s, b) <=> j \in (b+1)..n /\ s[j] = "*/"
      BY <2>1, ClosesAre
    <2>3. c \in Closes(s, b) /\ \A y \in Closes(s, b) : c <= y
      BY <1>2, <2>2, SetMinIs
    <2>4. ASSUME NEW m \in (b+1)..(c-1) PROVE s[m] # "*/"
      <3>1. m \in (b+1)..n /\ ~(c <= m)
        BY <2>2, <2>3
      <3>. QED  BY <2>2, <2>3, <3>1
    <2>. QED  BY <2>2, <2>3, <2>4
  <1> DEFINE Ended(i, x) ==
               \E b \in 1..i : /\ s[b] = "/*" /\ x \in (b+1)..n /\ s[x] = "*/"
                               /\ \A m \in (b+1)..(x-1) : s[m] # "*/"
             Good(i) == e[i] \in Nat /\ (e[i] # 0 => Ended(i, e[i]))
             S == {i \in 0..n : Good(i)}
  <1>3. \A i \in 0..n : Good(i)
    <2>1. 0 \in S
      BY <1>1
    <2>2. ASSUME NEW i \in 0..(n-1), i \in S PROVE i + 1 \in S
      <3>1. i + 1 \in 1..n /\ (i + 1) - 1 = i /\ i + 1 \in 0..n /\ Good(i)
        BY <2>2
      <3>2. e[i+1] = EndAfter(s, i + 1, e[i])
        BY <1>1, <3>1
      <3>3. CASE e[i+1] = e[i]
        <4>1. Ended(i, e[i]) => Ended(i + 1, e[i])
          <5>1. 1..i \subseteq 1..(i+1)
            OBVIOUS
          <5>. QED  BY <5>1
        <4>2. Good(i + 1)
          <5> HIDE DEF Ended
          <5>. QED  BY <3>1, <3>3, <4>1
        <4>. QED  BY <3>1, <4>2
      <3>4. CASE e[i+1] # e[i]
        <4> DEFINE b == i + 1
                   c == e[b]
        <4>1. s[b] = "/*" /\ Closes(s, b) # {} /\ c = SetMin(Closes(s, b))
          BY <3>2, <3>4 DEF EndAfter
        <4>2. b \in 1..n
          BY <3>1
        <4> HIDE DEF c
        <4>3. c \in (b+1)..n /\ s[c] = "*/" /\ \A m \in (b+1)..(c-1) : s[m] # "*/"
          BY <1>2, <4>1, <4>2
        <4>4. c \in Nat /\ b \in 1..b
          BY <4>2, <4>3
        <4>5. Ended(b, c)
          BY <4>1, <4>3, <4>4
        <4>6. Good(i + 1)
          <5> HIDE DEF Ended
          <5>. QED  BY <4>4, <4>5 DEF c
        <4>. QED  BY <3>1, <4>6
      <3>. QED  BY <3>3, <3>4
    <2>3. \A i \in 0..n : i \in S
      <3> HIDE DEF S
      <3>. QED  BY <2>1, <2>2, IntervalInduction
    <2>. QED  BY <2>3
  <1>4. ASSUME NEW b \in 1..n, s[b] = "/*", NEW c \in (b+1)..n, s[c] = "*/", NEW i \in b..n
        PROVE  e[i] # 0
    <2>1. b - 1 \in 0..n /\ b \in 0..n
      OBVIOUS
    <2>2. e[b-1] = 0
      <3>1. SUFFICES ASSUME e[b-1] # 0 PROVE FALSE
        OBVIOUS
      <3>2. Ended(b - 1, e[b-1])
        <4> HIDE DEF Ended
        <4>. QED  BY <1>3, <2>1, <3>1
      <3>3. PICK a \in 1..(b-1) : s[a] = "/*"
        BY <3>2
      <3>4. a \in 1..n /\ a # b
        OBVIOUS
      <3>. QED  BY <1>4, <3>3, <3>4 DEF Once
    <2>3. Closes(s, b) # {}
      <3>1. \A j : j \in Closes(s, b) <=> j \in (b+1)..n /\ s[j] = "*/"
        BY <2>1, ClosesAre
      <3>. QED  BY <1>4, <3>1
    <2>4. e[b] = SetMin(Closes(s, b))
      <3>1. b > 0
        OBVIOUS
      <3>. QED  BY <1>1, <1>4, <2>2, <2>3, <3>1 DEF EndAfter
    <2>5. e[b] # 0
      <3> DEFINE x == e[b]
      <3>1. x = SetMin(Closes(s, b))
        BY <2>4
      <3> HIDE DEF x
      <3>2. x \in (b+1)..n
        BY <1>2, <2>3, <3>1
      <3>3. x # 0
        BY <3>2
      <3>. QED  BY <3>3 DEF x
    <2> DEFINE Z == {m \in 0..n : m >= b => e[m] # 0}
    <2>6. \A m \in 0..n : m \in Z
      <3>1. 0 \in Z
        OBVIOUS
      <3>2. ASSUME NEW m \in 0..(n-1), m \in Z PROVE m + 1 \in Z
        <4>1. m + 1 \in 1..n /\ (m + 1) - 1 = m /\ m + 1 \in 0..n
          OBVIOUS
        <4>2. CASE m + 1 <= b
          <5>1. ~(m + 1 >= b) \/ m + 1 = b
            BY <4>2
          <5>. QED  BY <2>5, <4>1, <5>1
        <4>3. CASE ~(m + 1 <= b)
          <5>1. e[m] # 0 /\ m + 1 # b
            BY <3>2, <4>3
          <5>2. s[m+1] # "/*"
            BY <1>4, <4>1, <5>1 DEF Once
          <5>3. e[m+1] = e[m]
            BY <1>1, <4>1, <5>2 DEF EndAfter
          <5>. QED  BY <4>1, <5>1, <5>3
        <4>. QED  BY <4>2, <4>3
      <3>3. \A m \in 0..n : m \in Z
        <4> HIDE DEF Z
        <4>. QED  BY <3>1, <3>2, IntervalInduction
      <3>. QED  BY <3>3
    <2>7. i \in 0..n /\ i >= b
      OBVIOUS
    <2>. QED  BY <2>6, <2>7
  <1> HIDE DEF S
  <1>5. \A i \in 0..n : e[i] \in Nat /\ (e[i] # 0 => Ended(i, e[i]))
    BY <1>3
  <1>6. \A b \in 1..n : s[b] = "/*" /\ (\E c \in (b+1)..n : s[c] = "*/") => \A i \in b..n : e[i] # 0
    BY <1>4
  <1>. QED  BY <1>5, <1>6 DEF Cuts

Uncut(e, i) == e[i] < i

\* Behind a line comment mark that is left, on its line.
InLine(e, s, n, i) ==
  \E j \in 1..n : /\ Uncut(e, j) /\ j <= i /\ s[j] = "--"
                  /\ \A m \in 1..n : Uncut(e, m) /\ j < m /\ m <= i => s[m] # "nl"

IsBare(e, s, n, i) == i \in 1..n /\ Uncut(e, i) /\ ~InLine(e, s, n, i) /\ s[i] # "nl"

LEMMA BareWhat ==
  ASSUME NEW s, NEW n \in Nat, DOMAIN s = 1..n, NEW e, e = BlockEnds(s), NEW i
  PROVE  i \in Bare(s) <=> IsBare(e, s, n, i)
  <1> DEFINE kept == {j \in DOMAIN s : BlockEnds(s)[j] < j}
             lineComment(x) ==
               \E j \in kept : j <= x /\ s[j] = "--" /\ \A m \in kept : j < m /\ m <= x => s[m] # "nl"
  <1>1. Bare(s) = {x \in kept : ~lineComment(x) /\ s[x] # "nl"}
    BY DEF Bare
  <1>2. \A j : j \in kept <=> j \in 1..n /\ Uncut(e, j)
    BY DEF Uncut
  <1> HIDE DEF kept
  <1>3. lineComment(i) <=> InLine(e, s, n, i)
    BY <1>2, Zenon DEF InLine
  <1>4. i \in Bare(s) <=> i \in kept /\ ~lineComment(i) /\ s[i] # "nl"
    <2> HIDE DEF lineComment
    <2>. QED  BY <1>1
  <1> HIDE DEF lineComment
  <1>. QED  BY <1>2, <1>3, <1>4 DEF IsBare

\* Where a text is in a comment, that has begun and not ended.
LEMMA LineOpened ==
  ASSUME NEW k, NEW s, NEW n \in Nat, ReadsAs(k, s, n), NEW i \in 0..n, k[i] = "--"
  PROVE  \E l \in 1..i : /\ k[l-1] = "code" /\ s[l] = "--"
                         /\ \A m \in l..i : k[m] = "--"
                         /\ \A m \in (l+1)..i : s[m] # "nl"
  <1>1. PICK l \in 1..i : k[l-1] = "code" /\ s[l] = "--" /\ \A m \in l..i : k[m] = "--"
    BY DEF ReadsAs
  <1>2. ASSUME NEW m \in (l+1)..i PROVE s[m] # "nl"
    <2>1. m \in 1..n /\ m \in l..i /\ m - 1 \in l..i
      OBVIOUS
    <2>2. k[m-1] = "--" /\ k[m] = "--"
      BY <1>1, <2>1
    <2>. QED  BY <2>1, <2>2 DEF ReadsAs
  <1>. QED  BY <1>1, <1>2

LEMMA BlockOpened ==
  ASSUME NEW k, NEW s, NEW n \in Nat, ReadsAs(k, s, n), NEW i \in 0..n, k[i] = "/*"
  PROVE  \E b \in 1..i : /\ k[b-1] = "code" /\ s[b] = "/*"
                         /\ \A m \in b..i : k[m] = "/*"
                         /\ \A m \in (b+1)..i : s[m] # "*/"
  <1>1. PICK b \in 1..i : k[b-1] = "code" /\ s[b] = "/*" /\ \A m \in b..i : k[m] = "/*"
    BY DEF ReadsAs
  <1>2. ASSUME NEW m \in (b+1)..i PROVE s[m] # "*/"
    <2>1. m \in 1..n /\ m \in b..i /\ m - 1 \in b..i
      OBVIOUS
    <2>2. k[m-1] = "/*" /\ k[m] = "/*"
      BY <1>1, <2>1
    <2>. QED  BY <2>1, <2>2 DEF ReadsAs
  <1>. QED  BY <1>1, <1>2

\* A text is quoted first by a mark in code.
LEMMA QuoteOpened ==
  ASSUME NEW k, NEW s, NEW n \in Nat, ReadsAs(k, s, n), NEW i \in 0..n, k[i] \in Quoting
  PROVE  \E o \in 1..i : /\ k[o-1] = "code" /\ s[o] \in Quoting
                         /\ \A m \in 0..(o-1) : k[m] \notin Quoting
  <1> DEFINE S == {m \in 0..n : k[m] \notin Quoting}
  <1>1. 0 \in S /\ i \notin S /\ i \in Nat /\ 0 <= i
    BY DEF ReadsAs, Quoting
  <1>2. PICK o \in (0+1)..i : o \notin S /\ \A m \in 0..(o-1) : m \in S
    <2> HIDE DEF S
    <2>. QED  BY <1>1, FirstChange
  <1>3. o \in 1..i /\ o \in 1..n /\ o - 1 \in 0..(o-1) /\ o \in 0..n
    OBVIOUS
  <1>4. k[o] \in Quoting /\ \A m \in 0..(o-1) : k[m] \notin Quoting
    BY <1>2, <1>3
  <1>5. k[o-1] \in {"code"} \cup Marks /\ k[o-1] \notin Quoting
    <2>1. o - 1 \in 0..n
      BY <1>3
    <2>. QED  BY <1>3, <1>4, <2>1 DEF ReadsAs
  <1>6. k[o-1] = "code"
    BY <1>3, <1>4, <1>5 DEF ReadsAs, Marks, Quoting
  <1>7. s[o] \in Quoting
    BY <1>3, <1>4, <1>6 DEF ReadsAs, Marks, Quoting
  <1>. QED  BY <1>3, <1>4, <1>6, <1>7

\* The only block comment is what is cut.
LEMMA BlockEnd ==
  ASSUME NEW e, NEW s, NEW n \in Nat, Once(s, n), Cuts(e, s, n), NEW b \in 1..n, s[b] = "/*",
         NEW i \in 0..n, e[i] # 0
  PROVE  /\ b <= i /\ e[i] \in (b+1)..n /\ s[e[i]] = "*/"
         /\ \A m \in (b+1)..(e[i]-1) : s[m] # "*/"
  <1>1. PICK a \in 1..i : /\ s[a] = "/*" /\ e[i] \in (a+1)..n /\ s[e[i]] = "*/"
                          /\ \A m \in (a+1)..(e[i]-1) : s[m] # "*/"
    BY DEF Cuts
  <1>2. a = b
    BY <1>1 DEF Once
  <1>. QED  BY <1>1, <1>2

LEMMA NothingCut ==
  ASSUME NEW e, NEW s, NEW n \in Nat, Cuts(e, s, n), \A m \in 1..n : s[m] # "/*", NEW i \in 1..n
  PROVE  Uncut(e, i)
  <1>1. i \in 0..n
    OBVIOUS
  <1>2. e[i] = 0
    BY <1>1 DEF Cuts
  <1>. QED  BY <1>2 DEF Uncut

Unmixed(s, n) == (\A m \in 1..n : s[m] # "--") \/ (\A m \in 1..n : s[m] # "/*")

\* With comments of one kind, code before any quote is left.
LEMMA CodeIsBare ==
  ASSUME NEW k, NEW s, NEW n \in Nat, ReadsAs(k, s, n), NEW e, Cuts(e, s, n), Unmixed(s, n),
         NEW i \in 1..n, \A m \in 0..(i-1) : k[m] \notin Quoting,
         k[i-1] = "code", s[i] \notin {"nl", "--", "/*"}
  PROVE  IsBare(e, s, n, i)
  <1>1. ASSUME NEW m \in 1..(i-1) PROVE m \in 1..n /\ m - 1 \in 0..n /\ k[m-1] \in {"code", "--", "/*"}
    <2>1. m \in 1..n /\ m - 1 \in 0..n /\ m - 1 \in 0..(i-1)
      OBVIOUS
    <2>2. k[m-1] \in {"code"} \cup Marks /\ k[m-1] \notin Quoting
      BY <2>1 DEF ReadsAs
    <2>. QED  BY <2>1, <2>2 DEF Marks
  <1>2. i - 1 \in 0..n /\ i \in 0..n
    OBVIOUS
  <1>3. CASE \A m \in 1..n : s[m] # "/*"
    <2>1. Uncut(e, i)
      BY <1>3, NothingCut
    <2>2. ASSUME InLine(e, s, n, i) PROVE FALSE
      <3>1. PICK j \in 1..n : j <= i /\ s[j] = "--"
                              /\ \A m \in 1..n : Uncut(e, m) /\ j < m /\ m <= i => s[m] # "nl"
        BY <2>2 DEF InLine
      <3>2. j \in 1..(i-1)
        BY <3>1
      <3>3. k[j-1] # "/*"
        <4>1. SUFFICES ASSUME k[j-1] = "/*" PROVE FALSE
          OBVIOUS
        <4>2. PICK b \in 1..(j-1) : s[b] = "/*"
          BY <1>1, <3>2, <4>1, BlockOpened
        <4>. QED  BY <1>3, <4>2
      <3>4. k[j] = "--"
        BY <1>1, <3>1, <3>2, <3>3 DEF ReadsAs, Marks
      <3>5. \A m \in (j+1)..(i-1) : s[m] # "nl"
        <4>1. ASSUME NEW m \in (j+1)..(i-1) PROVE s[m] # "nl"
          <5>1. m \in 1..n /\ j < m /\ m <= i
            BY <3>2
          <5>2. Uncut(e, m)
            BY <1>3, <5>1, NothingCut
          <5>. QED  BY <3>1, <5>1, <5>2
        <4>. QED  BY <4>1
      <3>6. j \in 0..n /\ i - 1 \in j..n
        BY <3>2
      <3>7. k[i-1] = "--"
        <4> DEFINE x == i - 1
        <4>1. x \in j..n /\ \A m \in (j+1)..x : s[m] # "nl"
          BY <3>5, <3>6
        <4> HIDE DEF x
        <4>2. k[x] = "--"
          BY <3>4, <3>6, <4>1, LineLasts
        <4>. QED  BY <4>2 DEF x
      <3>. QED  BY <3>7
    <2>. QED  BY <2>1, <2>2 DEF IsBare
  <1>4. CASE \A m \in 1..n : s[m] # "--"
    <2>1. ~InLine(e, s, n, i)
      BY <1>4 DEF InLine
    <2>2. ASSUME ~Uncut(e, i) PROVE FALSE
      <3>1. e[i] # 0 /\ e[i] \in Nat /\ i <= e[i]
        BY <1>2, <2>2 DEF Uncut, Cuts
      <3>2. PICK b \in 1..i : s[b] = "/*" /\ \A m \in (b+1)..(e[i]-1) : s[m] # "*/"
        BY <1>2, <3>1 DEF Cuts
      <3>3. b \in 1..(i-1)
        BY <3>2
      <3>4. k[b-1] # "--"
        <4>1. SUFFICES ASSUME k[b-1] = "--" PROVE FALSE
          OBVIOUS
        <4>2. PICK l \in 1..(b-1) : s[l] = "--"
          BY <1>1, <3>3, <4>1, LineOpened
        <4>. QED  BY <1>4, <4>2
      <3>5. k[b] = "/*"
        BY <1>1, <3>2, <3>3, <3>4 DEF ReadsAs, Marks
      <3>6. \A m \in (b+1)..(i-1) : s[m] # "*/"
        BY <3>1, <3>2
      <3>7. b \in 0..n /\ i - 1 \in b..n
        BY <3>3
      <3>8. k[i-1] = "/*"
        <4> DEFINE x == i - 1
        <4>1. x \in b..n /\ \A m \in (b+1)..x : s[m] # "*/"
          BY <3>6, <3>7
        <4> HIDE DEF x
        <4>2. k[x] = "/*"
          BY <3>5, <3>7, <4>1, BlockLasts
        <4>. QED  BY <4>2 DEF x
      <3>. QED  BY <3>8
    <2>. QED  BY <2>1, <2>2 DEF IsBare
  <1>. QED  BY <1>3, <1>4 DEF Unmixed

\* What is behind a comment mark outside the code is not left first, unless
\* both kinds of comment are in the text, and quotes.
LEMMA HiddenWord ==
  ASSUME NEW k, NEW s, NEW n \in Nat, ReadsAs(k, s, n), Once(s, n), NEW e, Cuts(e, s, n),
         NEW j \in 1..n, IsBare(e, s, n, j), \A i \in 1..(j-1) : ~IsBare(e, s, n, i), k[j-1] # "code"
  PROVE  /\ ~Unmixed(s, n)
         /\ \E i \in 1..n : s[i] \in Quoting
  <1> DEFINE x == k[j-1]
             Quoted == \E i \in 1..n : s[i] \in Quoting
  <1>1. j - 1 \in 0..n /\ j \in 0..n /\ x \in Marks
    BY DEF ReadsAs
  <1>2. Uncut(e, j) /\ ~InLine(e, s, n, j) /\ s[j] # "nl"
    BY DEF IsBare
  <1>3. ASSUME ~Quoted, NEW i \in 0..n PROVE k[i] \in {"code", "--", "/*"}
    <2>1. SUFFICES ASSUME k[i] \in Quoting PROVE FALSE
      BY DEF ReadsAs, Marks
    <2>2. PICK o \in 1..i : s[o] \in Quoting
      BY <2>1, QuoteOpened
    <2>3. o \in 1..n
      OBVIOUS
    <2>. QED  BY <1>3, <2>2, <2>3
  <1>4. CASE x \in Quoting
    <2>1. PICK o \in 1..(j-1) : k[o-1] = "code" /\ s[o] \in Quoting /\ \A m \in 0..(o-1) : k[m] \notin Quoting
      BY <1>1, <1>4, QuoteOpened
    <2>2. o \in 1..n
      OBVIOUS
    <2>3. s[o] \notin {"nl", "--", "/*"}
      BY <2>1 DEF Quoting
    <2>4. Unmixed(s, n) => IsBare(e, s, n, o)
      BY <2>1, <2>2, <2>3, CodeIsBare
    <2>. QED  BY <2>1, <2>2, <2>4
  <1>5. CASE x = "/*"
    <2>1. PICK b \in 1..(j-1) : /\ k[b-1] = "code" /\ s[b] = "/*"
                                /\ \A m \in b..(j-1) : k[m] = "/*"
                                /\ \A m \in (b+1)..(j-1) : s[m] # "*/"
      BY <1>1, <1>5, BlockOpened
    <2>2. b \in 1..n /\ b \in 0..n /\ j \in b..n
      OBVIOUS
    <2>3. \A c \in (b+1)..n : s[c] # "*/"
      <3>1. SUFFICES ASSUME NEW c \in (b+1)..n, s[c] = "*/" PROVE FALSE
        OBVIOUS
      <3>2. e[j] # 0
        BY <2>1, <2>2, <3>1 DEF Cuts
      <3>3. e[j] \in (b+1)..n /\ s[e[j]] = "*/"
        BY <1>1, <2>1, <2>2, <3>2, BlockEnd
      <3>4. ~(e[j] < j)
        BY <2>1, <3>3
      <3>. QED  BY <1>2, <3>4 DEF Uncut
    <2>4. \A i \in 0..n : e[i] = 0
      <3>1. SUFFICES ASSUME NEW i \in 0..n, e[i] # 0 PROVE FALSE
        OBVIOUS
      <3>2. e[i] \in (b+1)..n /\ s[e[i]] = "*/"
        BY <2>1, <2>2, <3>1, BlockEnd
      <3>. QED  BY <2>3, <3>2
    <2>5. \A i \in 1..n : Uncut(e, i)
      BY <2>4 DEF Uncut
    <2>6. InLine(e, s, n, b)
      BY <2>1, <2>2, <2>5 DEF IsBare
    <2>7. PICK l \in 1..n : l <= b /\ s[l] = "--" /\ \A m \in 1..n : Uncut(e, m) /\ l < m /\ m <= b => s[m] # "nl"
      BY <2>6 DEF InLine
    <2>8. ~Unmixed(s, n)
      BY <2>1, <2>2, <2>7 DEF Unmixed
    <2>9. ASSUME ~Quoted PROVE FALSE
      <3>1. l \in 1..(b-1)
        BY <2>1, <2>7
      <3>2. l - 1 \in 0..n /\ l - 1 \in 0..(b-1)
        BY <3>1
      <3>3. k[l-1] \in {"code", "--"}
        <4>1. k[l-1] # "/*"
          BY <2>1, <2>2, <3>2, BlockBegins
        <4>. QED  BY <1>3, <2>9, <3>2, <4>1
      <3>4. k[l] = "--"
        BY <2>7, <3>3 DEF ReadsAs, Marks
      <3> DEFINE y == b - 1
      <3>5. l \in 0..n /\ y \in l..n
        BY <2>2, <3>1
      <3>6. \A m \in (l+1)..y : s[m] # "nl"
        BY <2>2, <2>5, <2>7, <3>1
      <3> HIDE DEF y
      <3>7. k[y] = "--"
        BY <3>4, <3>5, <3>6, LineLasts
      <3>. QED  BY <2>1, <3>7 DEF y
    <2>. QED  BY <2>8, <2>9
  <1>6. CASE x = "--"
    <2>1. PICK l \in 1..(j-1) : /\ k[l-1] = "code" /\ s[l] = "--"
                                /\ \A m \in l..(j-1) : k[m] = "--"
                                /\ \A m \in (l+1)..(j-1) : s[m] # "nl"
      BY <1>1, <1>6, LineOpened
    <2>2. l \in 1..n /\ l \in 0..n /\ l <= j
      OBVIOUS
    <2>3. \A m \in (l+1)..j : s[m] # "nl"
      BY <1>2, <2>1
    <2>4. ~Uncut(e, l)
      <3>1. SUFFICES ASSUME Uncut(e, l) PROVE FALSE
        OBVIOUS
      <3>2. \A m \in 1..n : Uncut(e, m) /\ l < m /\ m <= j => s[m] # "nl"
        BY <2>3
      <3>. QED  BY <1>2, <2>1, <2>2, <3>1, <3>2 DEF InLine
    <2>5. e[l] # 0 /\ e[l] \in Nat /\ l <= e[l]
      BY <2>2, <2>4 DEF Uncut, Cuts
    <2>6. PICK b \in 1..l : s[b] = "/*"
      BY <2>2, <2>5 DEF Cuts
    <2>7. b \in 1..n /\ b \in 0..n /\ b < l
      BY <2>1, <2>6
    <2>8. ~Unmixed(s, n)
      BY <2>1, <2>2, <2>6, <2>7 DEF Unmixed
    <2>9. /\ e[l] \in (b+1)..n /\ s[e[l]] = "*/"
          /\ \A m \in (b+1)..(e[l]-1) : s[m] # "*/"
      BY <2>2, <2>5, <2>6, <2>7, BlockEnd
    <2>10. \A i \in b..n : e[i] = e[l]
      <3>1. SUFFICES ASSUME NEW i \in b..n PROVE e[i] = e[l]
        OBVIOUS
      <3>2. i \in 0..n
        BY <2>7
      <3>3. e[i] # 0
        BY <2>6, <2>7, <2>9 DEF Cuts
      <3>4. /\ e[i] \in (b+1)..n /\ s[e[i]] = "*/"
            /\ \A m \in (b+1)..(e[i]-1) : s[m] # "*/"
        BY <2>6, <2>7, <3>2, <3>3, BlockEnd
      <3> DEFINE y == e[i]
                 z == e[l]
      <3>5. y \in (b+1)..n /\ s[y] = "*/" /\ \A m \in (b+1)..(y-1) : s[m] # "*/"
        BY <3>4
      <3>6. z \in (b+1)..n /\ s[z] = "*/" /\ \A m \in (b+1)..(z-1) : s[m] # "*/"
        BY <2>9
      <3> HIDE DEF y, z
      <3>7. ~(y < z) /\ ~(z < y)
        BY <3>5, <3>6
      <3>8. y = z
        BY <3>5, <3>6, <3>7
      <3>. QED  BY <3>8 DEF y, z
    <2>11. ASSUME ~Quoted PROVE FALSE
      <3> DEFINE y == b - 1
      <3>1. y \in 0..n /\ y \in 0..(b-1)
        BY <2>7
      <3>2. k[y] \in {"code", "--"}
        <4>1. k[y] # "/*"
          BY <2>6, <2>7, <3>1, BlockBegins
        <4>. QED  BY <1>3, <2>11, <3>1, <4>1
      <3>3. CASE k[y] = "code"
        <4> DEFINE z == l - 1
        <4>1. k[b] = "/*"
          BY <2>6, <2>7, <3>3 DEF ReadsAs, Marks
        <4>2. z \in b..n /\ \A m \in (b+1)..z : s[m] # "*/"
          BY <2>2, <2>5, <2>7, <2>9
        <4> HIDE DEF z
        <4>3. k[z] = "/*"
          BY <2>7, <4>1, <4>2, BlockLasts
        <4>. QED  BY <2>1, <4>3 DEF z
      <3>4. CASE k[y] = "--"
        <4> HIDE DEF y
        <4>1. PICK o \in 1..y : s[o] = "--" /\ \A m \in (o+1)..y : s[m] # "nl"
          BY <3>1, <3>4, LineOpened
        <4>2. o \in 1..n /\ o \in 0..n /\ o < b
          BY <3>1, <4>1 DEF y
        <4>3. e[o] = 0
          <5>1. e[o] # 0 => b <= o
            BY <2>6, <2>7, <4>2, BlockEnd
          <5>. QED  BY <2>7, <4>2, <5>1
        <4>4. Uncut(e, o)
          BY <4>2, <4>3 DEF Uncut
        <4>5. ASSUME NEW m \in 1..n, Uncut(e, m), o < m, m <= j PROVE s[m] # "nl"
          <5>1. CASE m < b
            <6>1. m \in (o+1)..y
              BY <2>7, <4>2, <4>5, <5>1 DEF y
            <6>. QED  BY <4>1, <6>1
          <5>2. CASE m = b
            BY <2>6, <5>2
          <5>3. CASE b < m /\ m <= l
            <6>1. m \in b..n
              BY <2>7, <5>3
            <6>2. e[m] = e[l]
              BY <2>10, <6>1
            <6>. QED  BY <2>5, <4>5, <5>3, <6>2 DEF Uncut
          <5>4. CASE l < m
            <6>1. m \in (l+1)..j
              BY <2>2, <4>5, <5>4
            <6>. QED  BY <2>3, <6>1
          <5>. QED  BY <2>2, <2>7, <5>1, <5>2, <5>3, <5>4
        <4>6. o <= j
          BY <2>2, <2>7, <4>2
        <4>7. InLine(e, s, n, j)
          BY <4>1, <4>2, <4>4, <4>5, <4>6 DEF InLine
        <4>. QED  BY <1>2, <4>7
      <3>. QED  BY <3>2, <3>3, <3>4
    <2>. QED  BY <2>8, <2>11
  <1>7. x \in Quoting \/ x = "/*" \/ x = "--"
    BY <1>1 DEF Marks
  <1>. QED  BY <1>4, <1>5, <1>6, <1>7

\* In a text without quotes and with comments of one kind, the first word of the
\* code is the first that is left.
LEMMA FirstWord ==
  ASSUME NEW k, NEW s, NEW n \in Nat, ReadsAs(k, s, n), Once(s, n), NEW e, Cuts(e, s, n), Unmixed(s, n),
         \A i \in 1..n : s[i] \notin Quoting,
         NEW j \in 1..n, k[j-1] = "code", k[j] = "code", s[j] # "nl",
         \A i \in 1..(j-1) : k[i-1] = "code" /\ k[i] = "code" => s[i] = "nl"
  PROVE  IsBare(e, s, n, j) /\ \A i \in 1..(j-1) : ~IsBare(e, s, n, i)
  <1>1. ASSUME NEW i \in 0..n PROVE k[i] \in {"code", "--", "/*"}
    <2>1. SUFFICES ASSUME k[i] \in Quoting PROVE FALSE
      BY DEF ReadsAs, Marks
    <2>2. PICK o \in 1..i : s[o] \in Quoting
      BY <2>1, QuoteOpened
    <2>3. o \in 1..n
      OBVIOUS
    <2>. QED  BY <2>2, <2>3
  <1>2. s[j] \notin {"nl", "--", "/*"}
    BY DEF ReadsAs, Marks
  <1>3. \A m \in 0..(j-1) : k[m] \notin Quoting
    <2>1. SUFFICES ASSUME NEW m \in 0..(j-1), k[m] \in Quoting PROVE FALSE
      OBVIOUS
    <2>2. m \in 0..n
      OBVIOUS
    <2>. QED  BY <1>1, <2>1, <2>2 DEF Quoting
  <1>4. IsBare(e, s, n, j)
    BY <1>2, <1>3, CodeIsBare
  \* A block comment that begins before the code at j has ended there.
  <1>5. ASSUME NEW b \in 1..(j-1), s[b] = "/*", k[b] = "/*", NEW i \in b..n,
               \A m \in (b+1)..(i-1) : s[m] # "*/"
        PROVE  ~Uncut(e, i)
    <2>1. b \in 1..n /\ b \in 0..n /\ i \in 0..n
      OBVIOUS
    <2>2. \E c \in (b+1)..n : s[c] = "*/"
      <3>1. SUFFICES ASSUME \A c \in (b+1)..n : s[c] # "*/" PROVE FALSE
        OBVIOUS
      <3> DEFINE x == j - 1
      <3>2. x \in b..n /\ \A m \in (b+1)..x : s[m] # "*/"
        BY <3>1
      <3> HIDE DEF x
      <3>3. k[x] = "/*"
        BY <1>5, <2>1, <3>2, BlockLasts
      <3>. QED  BY <3>3 DEF x
    <2>3. e[i] # 0
      BY <1>5, <2>1, <2>2 DEF Cuts
    <2>4. e[i] \in (b+1)..n /\ s[e[i]] = "*/"
      BY <1>5, <2>1, <2>3, BlockEnd
    <2>5. ~(e[i] < i)
      BY <1>5, <2>4
    <2>. QED  BY <2>5 DEF Uncut
  <1>6. ASSUME NEW i \in 1..(j-1), IsBare(e, s, n, i) PROVE FALSE
    <2>1. i \in 1..n /\ i \in 0..n /\ i - 1 \in 0..n
      OBVIOUS
    <2>2. Uncut(e, i) /\ ~InLine(e, s, n, i) /\ s[i] # "nl"
      BY <1>6 DEF IsBare
    <2>3. CASE k[i-1] = "code"
      <3>1. k[i] # "code"
        BY <2>2, <2>3
      <3>2. k[i] = s[i] /\ s[i] \in {"--", "/*"}
        BY <1>1, <2>1, <2>3, <3>1 DEF ReadsAs
      <3>3. CASE s[i] = "--"
        <4>1. InLine(e, s, n, i)
          BY <2>1, <2>2, <3>3 DEF InLine
        <4>. QED  BY <2>2, <4>1
      <3>4. CASE s[i] = "/*"
        <4>1. i \in i..n /\ \A m \in (i+1)..(i-1) : s[m] # "*/"
          BY <2>1
        <4>2. ~Uncut(e, i)
          BY <1>5, <3>2, <3>4, <4>1
        <4>. QED  BY <2>2, <4>2
      <3>. QED  BY <3>2, <3>3, <3>4
    <2>4. CASE k[i-1] = "--"
      <3> DEFINE x == i - 1
      <3>1. x \in 0..n /\ k[x] = "--"
        BY <2>1, <2>4
      <3> HIDE DEF x
      <3>2. PICK l \in 1..x : s[l] = "--" /\ \A m \in (l+1)..x : s[m] # "nl"
        BY <3>1, LineOpened
      <3>3. l \in 1..n /\ l <= i
        BY <3>1 DEF x
      <3>4. \A m \in 1..n : s[m] # "/*"
        BY <3>2, <3>3 DEF Unmixed
      <3>5. Uncut(e, l)
        BY <3>3, <3>4, NothingCut
      <3>6. \A m \in (l+1)..i : s[m] # "nl"
        <4>1. ASSUME NEW m \in (l+1)..i PROVE s[m] # "nl"
          <5>1. m = i \/ m \in (l+1)..x
            BY <3>3 DEF x
          <5>. QED  BY <2>2, <3>2, <5>1
        <4>. QED  BY <4>1
      <3>7. \A m \in 1..n : Uncut(e, m) /\ l < m /\ m <= i => s[m] # "nl"
        BY <3>3, <3>6
      <3>8. InLine(e, s, n, i)
        BY <3>2, <3>3, <3>5, <3>7 DEF InLine
      <3>. QED  BY <2>2, <3>8
    <2>5. CASE k[i-1] = "/*"
      <3> DEFINE x == i - 1
      <3>1. x \in 0..n /\ k[x] = "/*"
        BY <2>1, <2>5
      <3> HIDE DEF x
      <3>2. PICK b \in 1..x : /\ s[b] = "/*" /\ \A m \in b..x : k[m] = "/*"
                              /\ \A m \in (b+1)..x : s[m] # "*/"
        BY <3>1, BlockOpened
      <3>3. b \in 1..(j-1) /\ i \in b..n /\ k[b] = "/*" /\ \A m \in (b+1)..(i-1) : s[m] # "*/"
        BY <3>2 DEF x
      <3>4. ~Uncut(e, i)
        BY <1>5, <3>2, <3>3
      <3>. QED  BY <2>2, <3>4
    <2>. QED  BY <1>1, <2>1, <2>3, <2>4, <2>5
  <1>. QED  BY <1>4, <1>6

\* How a plain text is read, and what the editor cuts out of it.
LEMMA PlainText ==
  ASSUME NEW T, NEW s \in Seq(T), NEW n, n = Len(s), NEW d, Plain(s, d),
         NEW k, k = [i \in 0..n |-> Modes(GuardLexer, s)[i].in], NEW e, e = BlockEnds(s)
  PROVE  /\ n \in Nat /\ DOMAIN s = 1..n
         /\ ReadsAs(k, s, n) /\ Once(s, n) /\ Cuts(e, s, n)
         /\ \A i : i \in CodeOf(EditorLexer, s) <=> i \in 1..n /\ k[i-1] = "code" /\ k[i] = "code"
         /\ \A i : i \in Bare(s) <=> IsBare(e, s, n, i)
         /\ Unmixed(s, n) <=> ~MixesComments(s)
  <1>1. n \in Nat /\ DOMAIN s = 1..n /\ Len(s) = n
    BY TextIs
  <1>2. \A i \in 0..n : k[i] = Modes(GuardLexer, s)[i].in
    OBVIOUS
  <1>3. ReadsAs(k, s, n)
    BY <1>1, <1>2, PlainReading
  <1>4. Once(s, n)
    BY <1>1 DEF Plain, Once
  <1>5. Cuts(e, s, n)
    BY <1>1, <1>4, CutsAre
  <1>6. ASSUME NEW i PROVE i \in CodeOf(EditorLexer, s) <=> i \in 1..n /\ k[i-1] = "code" /\ k[i] = "code"
    <2> DEFINE g == Modes(GuardLexer, s)
    <2>1. CodeOf(GuardLexer, s) = CodeOf(EditorLexer, s)
      BY <1>1, PlainReads
    <2>2. i \in CodeOf(GuardLexer, s) <=> i \in 1..n /\ g[i-1] = Code /\ g[i] = Code
      BY <1>1, CodeOfIs
    <2>3. \A m \in 0..n : g[m].in = "code" => g[m] = Code
      <3>1. GuardLexer \in LexerShape
        BY LexersAre
      <3>2. ModeSteps(g, GuardLexer, s)
        BY <1>1, <3>1, ModesAre
      <3> HIDE DEF g
      <3>. QED  BY <1>1, <3>2 DEF ModeSteps
    <2> HIDE DEF g
    <2>4. ASSUME NEW m \in 0..n PROVE g[m] = Code <=> k[m] = "code"
      <3>1. k[m] = g[m].in
        BY <1>2 DEF g
      <3>2. g[m] = Code => g[m].in = "code"
        BY CodeIs
      <3>. QED  BY <2>3, <3>1, <3>2
    <2>5. i \in 1..n => i \in 0..n /\ i - 1 \in 0..n
      BY <1>1
    <2>. QED  BY <2>1, <2>2, <2>4, <2>5
  <1>7. \A i : i \in Bare(s) <=> IsBare(e, s, n, i)
    BY <1>1, BareWhat
  <1>8. Unmixed(s, n) <=> ~MixesComments(s)
    BY <1>1 DEF Unmixed, MixesComments, Has
  <1>. QED  BY <1>1, <1>3, <1>4, <1>5, <1>6, <1>7, <1>8

\* The beginning of what the editor compares.
LEMMA BareFirst ==
  ASSUME NEW s, NEW n \in Nat, NEW e, \A i : i \in Bare(s) <=> IsBare(e, s, n, i), NEW j \in 1..n
  PROVE  /\ IsBare(e, s, n, j) /\ (\A i \in 1..(j-1) : ~IsBare(e, s, n, i)) =>
              Bare(s) # {} /\ SetMin(Bare(s)) = j
         /\ Bare(s) # {} /\ SetMin(Bare(s)) = j =>
              IsBare(e, s, n, j) /\ \A i \in 1..(j-1) : ~IsBare(e, s, n, i)
  <1>1. Bare(s) \subseteq 1..n /\ Bare(s) \in SUBSET Nat
    BY DEF IsBare
  <1> DEFINE B == Bare(s)
             m == SetMin(B)
  <1>2. B # {} => m \in B /\ \A y \in B : m <= y
    BY <1>1, SetMinIs
  <1>3. B \subseteq 1..n /\ \A i : i \in B <=> IsBare(e, s, n, i)
    BY <1>1
  <1> HIDE DEF B, m
  <1>4. ASSUME IsBare(e, s, n, j), \A i \in 1..(j-1) : ~IsBare(e, s, n, i) PROVE B # {} /\ m = j
    <2>1. j \in B /\ m \in B /\ m <= j
      BY <1>2, <1>3, <1>4
    <2>2. m \in 1..n /\ m \notin 1..(j-1)
      BY <1>3, <1>4, <2>1
    <2>. QED  BY <2>1, <2>2
  <1>5. ASSUME B # {}, m = j PROVE IsBare(e, s, n, j) /\ \A i \in 1..(j-1) : ~IsBare(e, s, n, i)
    <2>1. j \in B /\ \A y \in B : j <= y
      BY <1>2, <1>5
    <2>2. ASSUME NEW i \in 1..(j-1) PROVE ~IsBare(e, s, n, i)
      <3>1. ~(j <= i)
        OBVIOUS
      <3>. QED  BY <1>3, <2>1, <3>1
    <2>. QED  BY <1>3, <2>1, <2>2
  <1>. QED  BY <1>4, <1>5 DEF B, m

LEMMA ReadsAreReads ==
  ASSUME NEW T, text \in Seq(T)
  PROVE  ReadsLookLikeReads
  <1> DEFINE s == text
             d == dialect
             n == Len(s)
             k == [i \in 0..n |-> Modes(GuardLexer, s)[i].in]
             e == BlockEnds(s)
  <1>1. SUFFICES ASSUME ~Contested(s, d), RunIsAccepted(s, d, TRUE)
                 PROVE  /\ DetectCommand(s) \notin DenyTokens
                        /\ IsWriteStatement(s) => MixesComments(s) /\ Has(s, {"sq", "dq", "$$"})
                        /\ \A i \in CodeOf(EditorLexer, s) : s[i] \notin DenyTokens
    BY DEF ReadsLookLikeReads
  <1>2. n \in Nat /\ DOMAIN s = 1..n
    BY TextIs
  <1>3. Plain(s, d) /\ IsReadOnlySql(s, d)
    BY <1>1, <1>2, UncontestedIsPlain DEF RunIsAccepted
  <1>4. /\ ReadsAs(k, s, n) /\ Once(s, n) /\ Cuts(e, s, n)
        /\ \A i : i \in CodeOf(EditorLexer, s) <=> i \in 1..n /\ k[i-1] = "code" /\ k[i] = "code"
        /\ \A i : i \in Bare(s) <=> IsBare(e, s, n, i)
        /\ Unmixed(s, n) <=> ~MixesComments(s)
    BY <1>3, PlainText
  <1> HIDE DEF s, d, n, k, e
  <1>5. s \in Seq(T)
    BY DEF s
  <1>6. DetectCommand(s) \notin DenyTokens
    BY <1>3, <1>5, ReadsReportReads
  <1>7. \A i \in CodeOf(EditorLexer, s) : s[i] \notin DenyTokens
    BY <1>3, <1>5, DenyFree
  <1>8. ASSUME IsWriteStatement(s) PROVE MixesComments(s) /\ Has(s, {"sq", "dq", "$$"})
    <2> DEFINE j == SetMin(Bare(s))
    <2>1. Bare(s) # {} /\ s[j] \in EditorWrites
      BY <1>8 DEF IsWriteStatement
    <2>2. j \in 1..n
      <3>1. Bare(s) \in SUBSET Nat /\ Bare(s) \subseteq 1..n
        BY <1>2, <1>4 DEF IsBare
      <3>. QED  BY <2>1, <3>1, SetMinIs
    <2>3. IsBare(e, s, n, j) /\ \A i \in 1..(j-1) : ~IsBare(e, s, n, i)
      BY <1>2, <1>4, <2>1, <2>2, BareFirst
    <2> HIDE DEF j
    <2>4. s[j] \notin Marks /\ s[j] \in DenyTokens
      BY <2>1 DEF EditorWrites, Marks, Quoting, DenyTokens, WriteLeading, DdlLeading
    <2>5. k[j-1] # "code"
      <3>1. SUFFICES ASSUME k[j-1] = "code" PROVE FALSE
        OBVIOUS
      <3>2. k[j] = "code"
        BY <1>4, <2>2, <2>4, <3>1 DEF ReadsAs
      <3>. QED  BY <1>4, <1>7, <2>2, <2>4, <3>1, <3>2
    <2>6. ~Unmixed(s, n) /\ \E i \in 1..n : s[i] \in Quoting
      BY <1>2, <1>4, <2>2, <2>3, <2>5, HiddenWord
    <2>7. MixesComments(s)
      BY <1>4, <2>6
    <2>8. Has(s, {"sq", "dq", "$$"})
      BY <1>2, <2>6 DEF Has, Quoting
    <2>. QED  BY <2>7, <2>8
  <1>. QED  BY <1>6, <1>7, <1>8

LEMMA WritesAreAsked ==
  ASSUME NEW T, text \in Seq(T)
  PROVE  EditorAsksForWrites
  <1> DEFINE s == text
             d == dialect
             n == Len(s)
             k == [i \in 0..n |-> Modes(GuardLexer, s)[i].in]
             e == BlockEnds(s)
             C == Scrubbed(s, d)
             rest == {i \in C : s[i] \notin {"nl", "("}}
             j == SetMin(rest)
  <1>1. SUFFICES ASSUME LeadingKeyword(s, d) \in WriteLeading \cup DdlLeading,
                        ~Contested(s, d), ~Has(s, {"(", "rename"}),
                        ~Has(s, {"sq", "dq", "$$"}), ~MixesComments(s)
                 PROVE  IsWriteStatement(s)
    BY DEF EditorAsksForWrites
  <1>2. n \in Nat /\ DOMAIN s = 1..n
    BY TextIs
  <1>3. Plain(s, d)
    BY <1>1, <1>2, UncontestedIsPlain
  <1>4. /\ ReadsAs(k, s, n) /\ Once(s, n) /\ Cuts(e, s, n)
        /\ \A i : i \in CodeOf(EditorLexer, s) <=> i \in 1..n /\ k[i-1] = "code" /\ k[i] = "code"
        /\ \A i : i \in Bare(s) <=> IsBare(e, s, n, i)
        /\ Unmixed(s, n) <=> ~MixesComments(s)
    BY <1>3, PlainText
  <1>5. C = CodeOf(EditorLexer, s)
    BY <1>2, <1>3, PlainReads DEF Scrubbed
  <1>6. rest # {} /\ s[j] \in WriteLeading \cup DdlLeading
    <2>1. LeadingKeyword(s, d) = IF rest # {} /\ s[j] \in Words THEN s[j] ELSE ""
      BY DEF LeadingKeyword
    <2>2. "" \notin WriteLeading \cup DdlLeading
      BY DEF WriteLeading, DdlLeading
    <2> HIDE DEF rest, j, s, d
    <2>. QED  BY <1>1, <2>1, <2>2
  <1>7. \A i : i \in rest <=> i \in C /\ s[i] \notin {"nl", "("}
    OBVIOUS
  <1> HIDE DEF s, d, n, k, e, C, rest
  <1>8. j \in rest /\ \A y \in rest : j <= y
    <2>1. rest \in SUBSET Nat
      BY <1>2, <1>4, <1>5, <1>7
    <2>. QED  BY <1>6, <2>1, SetMinIs
  <1> HIDE DEF j
  <1>9. j \in 1..n /\ k[j-1] = "code" /\ k[j] = "code" /\ s[j] # "nl"
    BY <1>4, <1>5, <1>7, <1>8
  <1>10. ASSUME NEW i \in 1..(j-1), k[i-1] = "code", k[i] = "code" PROVE s[i] = "nl"
    <2>1. i \in 1..n /\ ~(j <= i)
      BY <1>2, <1>9
    <2>2. s[i] # "("
      BY <1>1, <1>2, <2>1 DEF Has
    <2>3. i \in C /\ i \notin rest
      BY <1>4, <1>5, <1>8, <1>10, <2>1
    <2>. QED  BY <1>7, <2>2, <2>3
  <1>11. \A i \in 1..n : s[i] \notin Quoting
    BY <1>1, <1>2 DEF Has, Quoting
  <1>12. IsBare(e, s, n, j) /\ \A i \in 1..(j-1) : ~IsBare(e, s, n, i)
    BY <1>1, <1>2, <1>4, <1>9, <1>10, <1>11, FirstWord
  <1>13. Bare(s) # {} /\ SetMin(Bare(s)) = j
    BY <1>2, <1>4, <1>9, <1>12, BareFirst
  <1>14. s[j] \in EditorWrites
    <2>1. s[j] # "rename"
      BY <1>1, <1>2, <1>9 DEF Has
    <2>. QED  BY <1>6, <2>1 DEF WriteLeading, DdlLeading, EditorWrites
  <1>. QED  BY <1>13, <1>14 DEF IsWriteStatement

FilterShape == [op: FilterOps, value: FilterValues]
SlotShape == [filter: Nat, slot: Nat]
ParamShape == [filter: Nat, value: Nat]

\* As many slots as values, side by side.
Paired(d, b) ==
  /\ b.slots \in Seq(SlotShape) /\ b.params \in Seq(ParamShape)
  /\ Len(b.slots) = Len(b.params)
  /\ \A i \in 1..Len(b.slots) : /\ b.slots[i].filter = b.params[i].filter
                                /\ d = "postgres" => b.slots[i].slot = i

\* What a filter adds.
Add(d, fs, b, k) ==
  [slots |-> b.slots \o RenderFilter(d, fs[k], Len(b.params), k).slots,
   params |-> b.params \o RenderFilter(d, fs[k], Len(b.params), k).params]

LEMMA BoundIs ==
  ASSUME NEW f \in FilterShape
  PROVE  Bound(f) \in Nat
  <1>1. f.op \in {"is_null", "in", "like", "eq", "neq"}
    BY DEF FilterShape, FilterOps
  <1>2. CASE f.op = "is_null"
    BY <1>2 DEF Bound
  <1>3. CASE f.op = "like"
    BY <1>3 DEF Bound
  <1>4. CASE f.op = "in"
    <2> DEFINE x == CASE f.value \in {"none", "empty"} -> 0
                      [] f.value = "two" -> 2
                      [] OTHER -> 1
    <2>1. x \in Nat
      <3>1. CASE f.value \in {"none", "empty"}
        BY <3>1
      <3>2. CASE f.value = "two"
        BY <3>2
      <3>3. CASE f.value \notin {"none", "empty", "two"}
        BY <3>3
      <3>. QED  BY <3>1, <3>2, <3>3
    <2> HIDE DEF x
    <2>2. Bound(f) = x
      BY <1>4 DEF Bound, x
    <2>. QED  BY <2>1, <2>2
  <1>5. CASE f.op \in {"eq", "neq"}
    BY <1>5 DEF Bound
  <1>. QED  BY <1>1, <1>2, <1>3, <1>4, <1>5

LEMMA Appended ==
  ASSUME NEW T, NEW s \in Seq(T), NEW u \in Seq(T), NEW m, m = Len(s), NEW x, x = Len(u),
         NEW w, w = s \o u
  PROVE  /\ w \in Seq(T) /\ Len(w) = m + x
         /\ \A i \in 1..(m + x) : w[i] = IF i <= m THEN s[i] ELSE u[i-m]
  BY ConcatProperties

LEMMA AddPairs ==
  ASSUME NEW d, NEW n \in Nat, NEW fs \in [1..n -> FilterShape], NEW k \in 1..n, NEW b, Paired(d, b)
  PROVE  Paired(d, Add(d, fs, b, k))
  <1> DEFINE f == fs[k]
             x == Bound(f)
             m == Len(b.params)
             S == [i \in 1..x |-> [filter |-> k, slot |-> IF d = "postgres" THEN m + i ELSE 0]]
             P == [i \in 1..x |-> [filter |-> k, value |-> i]]
             a == Add(d, fs, b, k)
  <1>1. x \in Nat /\ m \in Nat /\ k \in Nat /\ Len(b.slots) = m
    <2>1. f \in FilterShape
      OBVIOUS
    <2>. QED  BY <2>1, BoundIs DEF Paired
  <1>2. a.slots = b.slots \o S /\ a.params = b.params \o P
    BY DEF Add, RenderFilter
  <1> HIDE DEF f, x, m, a
  <1>3. S \in Seq(SlotShape) /\ Len(S) = x /\ \A i \in 1..x : S[i] = [filter |-> k, slot |-> IF d = "postgres" THEN m + i ELSE 0]
    <2>1. S \in [1..x -> SlotShape]
      BY <1>1 DEF SlotShape
    <2>2. S \in Seq(SlotShape)
      <3> HIDE DEF S
      <3>. QED  BY <1>1, <2>1, SeqDef
    <2>3. Len(S) = x
      BY <1>1, <2>1
    <2>. QED  BY <2>2, <2>3
  <1>4. P \in Seq(ParamShape) /\ Len(P) = x /\ \A i \in 1..x : P[i] = [filter |-> k, value |-> i]
    <2>1. P \in [1..x -> ParamShape]
      BY <1>1 DEF ParamShape
    <2>2. P \in Seq(ParamShape)
      <3> HIDE DEF P
      <3>. QED  BY <1>1, <2>1, SeqDef
    <2>3. Len(P) = x
      BY <1>1, <2>1
    <2>. QED  BY <2>2, <2>3
  <1> HIDE DEF S, P
  <1>5. b.slots \in Seq(SlotShape) /\ b.params \in Seq(ParamShape)
        /\ \A i \in 1..m : /\ b.slots[i].filter = b.params[i].filter
                           /\ d = "postgres" => b.slots[i].slot = i
    BY <1>1 DEF Paired
  <1>6. /\ a.slots \in Seq(SlotShape) /\ a.params \in Seq(ParamShape)
        /\ Len(a.slots) = m + x /\ Len(a.params) = m + x
        /\ \A i \in 1..(m + x) : a.slots[i] = IF i <= m THEN b.slots[i] ELSE S[i-m]
        /\ \A i \in 1..(m + x) : a.params[i] = IF i <= m THEN b.params[i] ELSE P[i-m]
    <2>0. Len(b.params) = m /\ Len(b.slots) = m
      BY <1>1 DEF m
    <2>1. /\ a.slots \in Seq(SlotShape) /\ Len(a.slots) = m + x
          /\ \A i \in 1..(m + x) : a.slots[i] = IF i <= m THEN b.slots[i] ELSE S[i-m]
      <3>1. /\ b.slots \in Seq(SlotShape) /\ S \in Seq(SlotShape) /\ a.slots = b.slots \o S
            /\ m = Len(b.slots) /\ x = Len(S)
        BY <1>2, <1>3, <1>5, <2>0
      <3> HIDE DEF S
      <3>. QED  BY <3>1, Appended
    <2>2. /\ a.params \in Seq(ParamShape) /\ Len(a.params) = m + x
          /\ \A i \in 1..(m + x) : a.params[i] = IF i <= m THEN b.params[i] ELSE P[i-m]
      <3>1. /\ b.params \in Seq(ParamShape) /\ P \in Seq(ParamShape) /\ a.params = b.params \o P
            /\ m = Len(b.params) /\ x = Len(P)
        BY <1>2, <1>4, <1>5, <2>0
      <3> HIDE DEF P
      <3>. QED  BY <3>1, Appended
    <2>. QED  BY <2>1, <2>2
  <1>7. ASSUME NEW i \in 1..(m + x)
        PROVE  /\ a.slots[i].filter = a.params[i].filter
               /\ d = "postgres" => a.slots[i].slot = i
    <2>1. CASE i <= m
      <3>1. a.slots[i] = b.slots[i] /\ a.params[i] = b.params[i] /\ i \in 1..m
        BY <1>1, <1>6, <2>1
      <3>. QED  BY <1>5, <3>1
    <2>2. CASE ~(i <= m)
      <3>1. i - m \in 1..x
        BY <1>1, <2>2
      <3>2. a.slots[i] = S[i-m] /\ a.params[i] = P[i-m]
        BY <1>6, <2>2
      <3>3. S[i-m] = [filter |-> k, slot |-> IF d = "postgres" THEN m + (i - m) ELSE 0]
            /\ P[i-m] = [filter |-> k, value |-> i - m]
        BY <1>3, <1>4, <3>1
      <3>4. m + (i - m) = i
        BY <1>1
      <3>. QED  BY <3>2, <3>3, <3>4
    <2>. QED  BY <2>1, <2>2
  <1>8. Paired(d, a)
    BY <1>6, <1>7 DEF Paired
  <1>. QED  BY <1>8 DEF a

LEMMA WherePairs ==
  ASSUME NEW d, NEW fs \in Seq(FilterShape)
  PROVE  Paired(d, BuildWhere(d, fs))
  <1> DEFINE n == Len(fs)
             none == [slots |-> <<>>, params |-> <<>>]
             V == {b \in [slots: Seq(SlotShape), params: Seq(ParamShape)] : Paired(d, b)}
             Steps(g) == [k \in 0..Len(fs) |-> IF k = 0 THEN none ELSE Add(d, fs, g[k-1], k)]
             built == CHOOSE g : g = Steps(g)
             f == [k \in 1..n |-> [b \in V |-> Add(d, fs, b, k)]]
  <1>1. n \in Nat /\ fs \in [1..n -> FilterShape]
    OBVIOUS
  <1>2. none \in V
    <2>1. none.slots = <<>> /\ none.params = <<>>
      OBVIOUS
    <2>2. <<>> \in Seq(SlotShape) /\ <<>> \in Seq(ParamShape) /\ Len(<<>>) = 0
      BY EmptySeq
    <2>3. none \in [slots: Seq(SlotShape), params: Seq(ParamShape)]
      BY <2>2
    <2>4. Paired(d, none)
      <3> HIDE DEF none
      <3>. QED  BY <2>1, <2>2 DEF Paired
    <2>. QED  BY <2>3, <2>4
  <1>3. ASSUME NEW k \in 1..n, NEW b \in V PROVE Add(d, fs, b, k) \in V
    <2>1. Paired(d, b)
      OBVIOUS
    <2>2. Paired(d, Add(d, fs, b, k))
      <3> HIDE DEF n
      <3>. QED  BY <1>1, <2>1, AddPairs
    <2> DEFINE a == Add(d, fs, b, k)
    <2>3. a = [slots |-> a.slots, params |-> a.params]
      BY DEF Add
    <2> HIDE DEF a
    <2>4. a \in [slots: Seq(SlotShape), params: Seq(ParamShape)]
      BY <2>2, <2>3 DEF Paired, a
    <2>. QED  BY <2>2, <2>4 DEF a
  <1> HIDE DEF V
  <1>4. f \in [1..n -> [V -> V]]
    BY <1>3
  <1>5. PICK g : TakesSteps(g, n, V, none, f)
    <2> HIDE DEF f, n, none
    <2>. QED  BY <1>1, <1>2, <1>4, StepFunction
  <1>6. g \in [0..n -> V] /\ g[0] = none /\ \A k \in 1..n : g[k] = f[k][g[k-1]]
    BY <1>5 DEF TakesSteps
  <1> HIDE DEF none
  <1>7. ASSUME NEW k \in 1..n PROVE g[k] = Add(d, fs, g[k-1], k)
    <2>1. k - 1 \in 0..n /\ g[k-1] \in V
      <3> HIDE DEF f
      <3>. QED  BY <1>1, <1>6
    <2>. QED  BY <1>6, <2>1
  <1>8. g = Steps(g)
    <2>1. ASSUME NEW k \in 0..n PROVE g[k] = IF k = 0 THEN none ELSE Add(d, fs, g[k-1], k)
      <3>1. CASE k = 0
        BY <1>6, <3>1
      <3>2. CASE k # 0
        <4>1. k \in 1..n
          BY <1>1, <3>2
        <4>. QED  BY <1>7, <4>1, <3>2
      <3>. QED  BY <3>1, <3>2
    <2> HIDE DEF f
    <2>. QED  BY <1>6, <2>1
  <1>9. built = Steps(built)
    <2> HIDE DEF Steps
    <2>. QED  BY <1>8
  <1>10. BuildWhere(d, fs) = built[n]
    <2> DEFINE Raw(h) ==
          [k \in 0..Len(fs) |->
             IF k = 0 THEN [slots |-> <<>>, params |-> <<>>]
             ELSE LET before == h[k-1]
                      this == RenderFilter(d, fs[k], Len(before.params), k)
                  IN [slots |-> before.slots \o this.slots, params |-> before.params \o this.params]]
    <2>1. BuildWhere(d, fs) = (CHOOSE h : h = Raw(h))[n]
      BY DEF BuildWhere
    <2>2. ASSUME NEW h PROVE Raw(h) = Steps(h)
      BY DEF Add, none
    <2> HIDE DEF Raw, Steps
    <2>. QED  BY <2>1, <2>2
  <1> HIDE DEF built, f, n
  <1>11. built[0] = none /\ \A k \in 1..n : built[k] = Add(d, fs, built[k-1], k)
    <2>1. ASSUME NEW k \in 0..n PROVE built[k] = IF k = 0 THEN none ELSE Add(d, fs, built[k-1], k)
      BY <1>9 DEF n
    <2>2. 0 \in 0..n /\ \A k \in 1..n : k \in 0..n /\ k # 0
      BY <1>1
    <2>. QED  BY <2>1, <2>2
  <1>12. ASSUME NEW k \in 0..n PROVE built[k] \in V
    <2> DEFINE S == {i \in 0..n : built[i] \in V}
    <2>1. 0 \in S
      BY <1>1, <1>2, <1>11
    <2>2. ASSUME NEW i \in 0..(n-1), i \in S PROVE i + 1 \in S
      <3>1. i + 1 \in 1..n /\ (i + 1) - 1 = i /\ i + 1 \in 0..n /\ built[i] \in V
        BY <1>1, <2>2
      <3>2. built[i+1] = Add(d, fs, built[i], i + 1)
        BY <1>11, <3>1
      <3>. QED  BY <1>3, <3>1, <3>2
    <2>3. \A i \in 0..n : i \in S
      <3> HIDE DEF S
      <3>. QED  BY <1>1, <2>1, <2>2, IntervalInduction
    <2>. QED  BY <2>3
  <1>13. built[n] \in V
    BY <1>1, <1>12
  <1>. QED  BY <1>10, <1>13 DEF V

LEMMA SlotsHaveValues ==
  ASSUME filters \in Seq(FilterShape)
  PROVE  SlotsAreBound
  <1> DEFINE w == BuildWhere(dialect, filters)
  <1>1. Paired(dialect, w)
    BY WherePairs
  <1> HIDE DEF w
  <1>2. Len(w.slots) = Len(w.params) /\ DOMAIN w.slots = 1..Len(w.slots) /\ DOMAIN w.params = 1..Len(w.slots)
    BY <1>1 DEF Paired
  <1>3. ASSUME NEW i \in DOMAIN w.slots,
               NEW x, x = IF dialect = "postgres" THEN w.slots[i].slot ELSE i
        PROVE  x \in DOMAIN w.params /\ w.params[x].filter = w.slots[i].filter
    <2>1. x = i
      BY <1>1, <1>2, <1>3 DEF Paired
    <2>. QED  BY <1>1, <1>2, <2>1 DEF Paired
  <1>. QED  BY <1>2, <1>3 DEF SlotsAreBound, w

\* Whatever was written so far is a text of the alphabet, or filters.
TextInv == text \in Seq(alphabet) /\ filters \in Seq(FilterShape)

LEMMA TextStart == TextInit => TextInv
  <1>1. <<>> \in Seq(alphabet) /\ <<>> \in Seq(FilterShape)
    BY EmptySeq
  <1>. QED  BY <1>1 DEF TextInit, TextInv

LEMMA TextStep ==
  ASSUME TextInv, TextNext
  PROVE  TextInv'
  <1>1. ASSUME NEW t \in alphabet, Write(t) PROVE TextInv'
    <2>1. Append(text, t) \in Seq(alphabet)
      BY DEF TextInv
    <2>. QED  BY <1>1, <2>1 DEF Write, TextInv
  <1>2. ASSUME NEW op \in FilterOps, NEW v \in FilterValues, Filter([op |-> op, value |-> v]) PROVE TextInv'
    <2>1. [op |-> op, value |-> v] \in FilterShape
      BY DEF FilterShape
    <2>2. Append(filters, [op |-> op, value |-> v]) \in Seq(FilterShape)
      BY <2>1 DEF TextInv
    <2>. QED  BY <1>2, <2>2 DEF Filter, TextInv
  <1>. QED  BY <1>1, <1>2 DEF TextNext

LEMMA TextKeeps == TextInv => SplittersAgree /\ ReadsLookLikeReads /\ EditorAsksForWrites /\ SlotsAreBound
  BY TextSplits, ReadsAreReads, WritesAreAsked, SlotsHaveValues DEF TextInv

LEMMA TextRest == TextInv /\ UNCHANGED textVars => TextInv'
  BY DEF TextInv, textVars
=============================================================================
