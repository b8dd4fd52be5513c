----------------------- MODULE ConversationHistoryProofs -----------------------
(***************************************************************************)
(* Theorems about ConversationHistory, for every number of chat requests   *)
(* and other requests on a conversation and every length of its history:   *)
(* the types; that a finished conversation keeps its answers once all the  *)
(* copies are of it; that finishing is done once as long as no copy's mark *)
(* is written over the row's; that a saved answer is kept, with the status *)
(* it was saved with, as long as no request writes over another's change;  *)
(* that settling changes only costs.                                       *)
(***************************************************************************)
EXTENDS ConversationHistory, FiniteSetTheorems, SequenceTheorems, TLAPS

-----------------------------------------------------------------------------
(* The operators on histories *)

\* A set of integers with an upper bound has a greatest member, which Max finds.
LEMMA MaxIs ==
    ASSUME NEW S, S \subseteq Int, S # {}, NEW top \in Int, \A x \in S : x <= top
    PROVE  Max(S) \in S /\ \A x \in S : x <= Max(S)
<1> DEFINE T == {top - x : x \in S}
<1>1. T \subseteq Nat /\ T # {}
  <2>1. \A x \in S : top - x \in Nat
    OBVIOUS
  <2> QED BY <2>1
<1>2. PICK y \in T : \A z \in T : ~ (<<z, y>> \in OpToRel(<, Nat))
  BY <1>1, NatLessThanWellFounded, WFMin
<1>3. \A z \in T : ~ (z < y)
  BY <1>1, <1>2 DEF OpToRel
<1>4. PICK m \in S : y = top - m
  OBVIOUS
<1>5. \A x \in S : m >= x
  BY <1>3, <1>4
<1> QED BY <1>4, <1>5 DEF Max

\* The members of a finite set of numbers are its first, second, ... one.
Rank(S, i) == Cardinality({j \in S : j <= i})
LEMMA RankIs ==
    ASSUME NEW S, IsFiniteSet(S), \A x \in S : x \in Int
    PROVE  /\ Cardinality(S) \in Nat
           /\ \A i \in S : Rank(S, i) \in Nat /\ Rank(S, i) \in 1..Cardinality(S)
           /\ \A i, k \in S : Rank(S, i) = Rank(S, k) => i = k
<1>1. ASSUME NEW i \in S
      PROVE  /\ IsFiniteSet({j \in S : j <= i})
             /\ Rank(S, i) \in Nat /\ Rank(S, i) \in 1..Cardinality(S)
  <2>1. {j \in S : j <= i} \in SUBSET S /\ i \in {j \in S : j <= i}
    OBVIOUS
  <2>2. /\ IsFiniteSet({j \in S : j <= i})
        /\ Rank(S, i) <= Cardinality(S)
    BY <2>1, FS_Subset DEF Rank
  <2>3. Rank(S, i) \in Nat /\ Cardinality(S) \in Nat /\ Rank(S, i) # 0
    BY <2>1, <2>2, FS_CardinalityType, FS_EmptySet DEF Rank
  <2> QED BY <2>2, <2>3
<1>2. ASSUME NEW i \in S, NEW k \in S, i < k PROVE Rank(S, i) # Rank(S, k)
  <2>1. \A j \in S : j <= i => j <= k
    BY <1>2
  <2>2. {j \in S : j <= i} \in SUBSET {j \in S : j <= k}
    BY <2>1
  <2>3. k <= k /\ ~(k <= i)
    BY <1>2
  <2>4. {j \in S : j <= i} # {j \in S : j <= k}
    BY <2>3
  <2> QED BY <1>1, <2>2, <2>4, FS_Subset DEF Rank
<1>3. \A i, k \in S : i < k \/ k < i \/ i = k
  OBVIOUS
<1> QED BY <1>1, <1>2, <1>3, FS_CardinalityType

LEMMA NthIs ==
    ASSUME NEW S, IsFiniteSet(S), \A x \in S : x \in Int
    PROVE  \A k \in 1..Cardinality(S) : Nth(S, k) \in S /\ Rank(S, Nth(S, k)) = k
<1> DEFINE f == [i \in S |-> Rank(S, i)]
<1>1. Cardinality(S) \in Nat /\ IsFiniteSet(1..Cardinality(S))
      /\ Cardinality(1..Cardinality(S)) = Cardinality(S)
  BY FS_CardinalityType, FS_Interval
<1>2. f \in [S -> 1..Cardinality(S)] /\ \A i, k \in S : f[i] = f[k] => i = k
  BY RankIs
<1>3. f \in Injection(S, 1..Cardinality(S))
  BY <1>2 DEF Injection, IsInjective
<1>4. f \in Surjection(S, 1..Cardinality(S))
  BY <1>1, <1>3, FS_Injection
<1>5. \A k \in 1..Cardinality(S) : \E i \in S : Rank(S, i) = k
  BY <1>4 DEF Surjection
<1> QED BY <1>5 DEF Nth, Rank

\* RemoveAt closes the gap.
LEMMA RemoveAtIs ==
    ASSUME NEW S, NEW h \in Seq(S), NEW k \in 1..Len(h)
    PROVE  /\ RemoveAt(h, k) \in Seq(S)
           /\ Len(RemoveAt(h, k)) = Len(h) - 1
           /\ \A i \in 1..(Len(h) - 1) :
                 RemoveAt(h, k)[i] = IF i < k THEN h[i] ELSE h[i + 1]
<1> DEFINE a == SubSeq(h, 1, k - 1)
           b == SubSeq(h, k + 1, Len(h))
<1>1. Len(h) \in Nat /\ \A i \in 1..Len(h) : h[i] \in S
  BY LenProperties, ElementOfSeq
<1>2. /\ a \in Seq(S) /\ Len(a) = k - 1
      /\ \A i \in 1..(k - 1) : a[i] = h[i]
  <2>1. \A i \in 1..(k - 1) : h[i] \in S
    BY <1>1
  <2>2. /\ a \in Seq(S) /\ Len(a) = IF 1 <= k - 1 THEN k - 1 - 1 + 1 ELSE 0
        /\ \A i \in 1..(k - 1 - 1 + 1) : a[i] = h[1 + i - 1]
    BY <1>1, <2>1, SubSeqProperties
  <2> QED BY <1>1, <2>2
<1>3. /\ b \in Seq(S) /\ Len(b) = Len(h) - k
      /\ \A i \in 1..(Len(h) - k) : b[i] = h[i + k]
  <2>1. \A i \in (k + 1)..Len(h) : h[i] \in S
    BY <1>1
  <2>2. /\ b \in Seq(S) /\ Len(b) = IF k + 1 <= Len(h) THEN Len(h) - (k + 1) + 1 ELSE 0
        /\ \A i \in 1..(Len(h) - (k + 1) + 1) : b[i] = h[(k + 1) + i - 1]
    BY <1>1, <2>1, SubSeqProperties
  <2> QED BY <1>1, <2>2
<1> HIDE DEF a, b
<1>4. RemoveAt(h, k) = a \o b
  BY DEF RemoveAt, a, b
<1>5. /\ a \o b \in Seq(S) /\ Len(a \o b) = Len(a) + Len(b)
      /\ \A i \in 1..(Len(a) + Len(b)) : (a \o b)[i] = IF i <= Len(a) THEN a[i] ELSE b[i - Len(a)]
  BY <1>2, <1>3, ConcatProperties
<1>6. ASSUME NEW i \in 1..(Len(h) - 1)
      PROVE  (a \o b)[i] = IF i < k THEN h[i] ELSE h[i + 1]
  <2>1. (a \o b)[i] = IF i <= k - 1 THEN a[i] ELSE b[i - (k - 1)]
    BY <1>1, <1>2, <1>3, <1>5
  <2>2. CASE i < k
    BY <1>1, <1>2, <2>1, <2>2
  <2>3. CASE ~(i < k)
    <3>1. i - (k - 1) \in 1..(Len(h) - k) /\ i - (k - 1) + k = i + 1
      BY <1>1, <2>3
    <3> QED BY <1>1, <1>3, <2>1, <2>3, <3>1
  <2> QED BY <2>2, <2>3
<1> QED BY <1>1, <1>2, <1>3, <1>4, <1>5, <1>6

\* The last entry of an index, and nothing else, makes way for a replacement.
LastOf(h, x, k) ==
    /\ k \in DOMAIN h /\ h[k].index = x
    /\ \A j \in DOMAIN h : h[j].index = x => j <= k
LEMMA RetainedIs ==
    ASSUME NEW S, NEW h \in Seq(S), NEW x, NEW replace \in BOOLEAN
    PROVE  \/ /\ Retained(h, x, replace) = h
              /\ replace => \A i \in DOMAIN h : h[i].index # x
           \/ /\ replace
              /\ \E k : LastOf(h, x, k) /\ Retained(h, x, replace) = RemoveAt(h, k)
<1> DEFINE same == {i \in DOMAIN h : h[i].index = x}
<1>1. Len(h) \in Nat /\ DOMAIN h = 1..Len(h)
  BY LenProperties
<1>2. CASE replace /\ same # {}
  <2>1. same \subseteq Int /\ (\A i \in same : i <= Len(h)) /\ Len(h) \in Int /\ same # {}
    BY <1>1, <1>2
  <2>2. Max(same) \in same /\ \A i \in same : i <= Max(same)
    <3> HIDE DEF same
    <3> QED BY <2>1, MaxIs
  <2>3. Retained(h, x, replace) = RemoveAt(h, Max(same))
    BY <1>2 DEF Retained
  <2> QED BY <1>2, <2>2, <2>3 DEF LastOf
<1>3. CASE ~(replace /\ same # {})
  BY <1>3 DEF Retained
<1> QED BY <1>2, <1>3

\* What a save makes of the history: the new entry comes last, the others
\* keep their order, and one entry at most is gone.
Follows(g, h, out, at) ==
    /\ at \in [1..(Len(g) - 1) -> DOMAIN h]
    /\ \A i, j \in 1..(Len(g) - 1) : i < j => at[i] < at[j]
    /\ \A i \in 1..(Len(g) - 1) : at[i] \notin out /\ g[i] = h[at[i]]
    /\ \A j \in DOMAIN h \ out : \E i \in 1..(Len(g) - 1) : at[i] = j
Saves(g, h, entry, replace) ==
    /\ Len(g) \in Nat \ {0} /\ g[Len(g)] = entry
    /\ \E at, out :
        /\ Follows(g, h, out, at)
        /\ \/ out = {} /\ (replace => \A i \in DOMAIN h : h[i].index # entry.index)
           \/ \E k : replace /\ out = {k} /\ LastOf(h, entry.index, k)
LEMMA SavedHistory ==
    ASSUME NEW S, NEW h \in Seq(S), NEW entry \in S, NEW replace \in BOOLEAN
    PROVE  /\ Append(Retained(h, entry.index, replace), entry) \in Seq(S)
           /\ Saves(Append(Retained(h, entry.index, replace), entry), h, entry, replace)
<1> SUFFICES ASSUME NEW g, g = Append(Retained(h, entry.index, replace), entry)
             PROVE  g \in Seq(S) /\ Saves(g, h, entry, replace)
  OBVIOUS
<1>1. Len(h) \in Nat /\ DOMAIN h = 1..Len(h)
  BY LenProperties
<1>2. ASSUME NEW f \in Seq(S), g = Append(f, entry)
      PROVE  /\ g \in Seq(S) /\ Len(g) \in Nat \ {0} /\ g[Len(g)] = entry
             /\ Len(g) - 1 = Len(f) /\ \A i \in 1..Len(f) : g[i] = f[i]
  <2>1. Len(f) \in Nat
    BY LenProperties
  <2> QED BY <1>2, <2>1, AppendProperties
<1>3. CASE /\ Retained(h, entry.index, replace) = h
           /\ replace => \A i \in DOMAIN h : h[i].index # entry.index
  <2> DEFINE at == [i \in 1..Len(h) |-> i]
  <2>1. Follows(g, h, {}, at)
    BY <1>1, <1>2, <1>3 DEF Follows
  <2> QED BY <1>2, <1>3, <2>1 DEF Saves
<1>4. ASSUME replace, NEW k, LastOf(h, entry.index, k),
             Retained(h, entry.index, replace) = RemoveAt(h, k)
      PROVE  /\ g \in Seq(S) /\ Len(g) \in Nat \ {0} /\ g[Len(g)] = entry
             /\ \E at : Follows(g, h, {k}, at)
  <2> DEFINE f == RemoveAt(h, k)
             at == [i \in 1..(Len(h) - 1) |-> IF i < k THEN i ELSE i + 1]
  <2>1. k \in 1..Len(h)
    BY <1>1, <1>4 DEF LastOf
  <2>2. /\ f \in Seq(S) /\ Len(f) = Len(h) - 1
        /\ \A i \in 1..(Len(h) - 1) : f[i] = IF i < k THEN h[i] ELSE h[i + 1]
    BY <2>1, RemoveAtIs
  <2> HIDE DEF f
  <2>3. /\ g \in Seq(S) /\ Len(g) \in Nat \ {0} /\ g[Len(g)] = entry
        /\ Len(g) - 1 = Len(h) - 1 /\ \A i \in 1..(Len(h) - 1) : g[i] = f[i]
    BY <1>2, <1>4, <2>2 DEF f
  <2>4. at \in [1..(Len(h) - 1) -> 1..Len(h)]
    BY <1>1, <2>1
  <2>5. \A i, j \in 1..(Len(h) - 1) : i < j => at[i] < at[j]
    BY <1>1, <2>1
  <2>6. ASSUME NEW i \in 1..(Len(h) - 1) PROVE at[i] # k /\ g[i] = h[at[i]]
    <3>1. at[i] = IF i < k THEN i ELSE i + 1
      OBVIOUS
    <3>2. g[i] = IF i < k THEN h[i] ELSE h[i + 1]
      BY <2>2, <2>3
    <3> HIDE DEF at
    <3> QED BY <1>1, <2>1, <3>1, <3>2
  <2>7. ASSUME NEW j \in 1..Len(h), j # k PROVE \E i \in 1..(Len(h) - 1) : at[i] = j
    <3>1. CASE j < k
      <4>1. j \in 1..(Len(h) - 1) /\ at[j] = j
        BY <1>1, <2>1, <3>1
      <4> QED BY <4>1
    <3>2. CASE ~(j < k)
      <4>1. j - 1 \in 1..(Len(h) - 1) /\ ~(j - 1 < k) /\ j - 1 + 1 = j
        BY <1>1, <2>1, <2>7, <3>2
      <4> QED BY <4>1
    <3> QED BY <3>1, <3>2
  <2> HIDE DEF at
  <2>8. Follows(g, h, {k}, at)
    BY <1>1, <2>3, <2>4, <2>5, <2>6, <2>7 DEF Follows
  <2> QED BY <2>3, <2>8
<1> QED BY <1>3, <1>4, RetainedIs DEF Saves

\* Removing an index keeps entries of the other indices only, each once.
Leaves(g, h, x, n, at) ==
    /\ DOMAIN g = 1..n /\ g = [i \in 1..n |-> g[i]] /\ at \in [1..n -> DOMAIN h]
    /\ \A i, j \in 1..n : at[i] = at[j] => i = j
    /\ \A i \in 1..n :
        /\ h[at[i]].index # x
        /\ g[i] = [h[at[i]] EXCEPT !.index = IF @ < x THEN @ ELSE @ - 1]
LEMMA WithoutIs ==
    ASSUME NEW S, NEW h \in Seq(S), NEW x
    PROVE  \E n \in Nat : \E at : Leaves(WithoutIndex(h, x), h, x, n, at)
<1> DEFINE kept == {i \in DOMAIN h : h[i].index # x}
           n == Cardinality(kept)
           at == [i \in 1..n |-> Nth(kept, i)]
           g == WithoutIndex(h, x)
<1>1. Len(h) \in Nat /\ DOMAIN h = 1..Len(h)
  BY LenProperties
<1>2. IsFiniteSet(kept) /\ \A i \in kept : i \in Int
  <2>1. IsFiniteSet(1..Len(h)) /\ kept \in SUBSET (1..Len(h))
    BY <1>1, FS_Interval
  <2> QED BY <2>1, FS_Subset
<1>3. n \in Nat /\ \A i \in 1..n : Nth(kept, i) \in kept /\ Rank(kept, Nth(kept, i)) = i
  <2> HIDE DEF kept
  <2> QED BY <1>2, NthIs, FS_CardinalityType
<1>4. g = [i \in 1..n |-> [h[at[i]] EXCEPT !.index = IF @ < x THEN @ ELSE @ - 1]]
  BY DEF WithoutIndex
<1> HIDE DEF n, g
<1>5. at \in [1..n -> DOMAIN h] /\ \A i \in 1..n : h[at[i]].index # x
  BY <1>3
<1>6. \A i, j \in 1..n : at[i] = at[j] => i = j
  BY <1>3
<1>7. DOMAIN g = 1..n /\ g = [i \in 1..n |-> g[i]]
      /\ \A i \in 1..n : g[i] = [h[at[i]] EXCEPT !.index = IF @ < x THEN @ ELSE @ - 1]
  BY <1>4
<1> HIDE DEF at
<1>8. Leaves(g, h, x, n, at)
  BY <1>5, <1>6, <1>7 DEF Leaves
<1> QED BY <1>3, <1>8 DEF g

\* An abort marks the last entry, and that only when it is in progress.
LEMMA MarkedIs ==
    ASSUME NEW S, NEW h \in Seq(S)
    PROVE  LET g == MarkInterrupted(h)
           IN \/ g = h
              \/ /\ h # <<>> /\ h[Len(h)].progress
                 /\ g = [h EXCEPT ![Len(h)] = [[h[Len(h)] EXCEPT !.progress = FALSE]
                                                  EXCEPT !.status = "interrupted"]]
<1>1. CASE h # <<>> /\ Last(h).progress
  <2>1. Len(h) \in DOMAIN h
    BY <1>1, EmptySeq, LenProperties
  <2>2. MarkInterrupted(h) = [h EXCEPT ![Len(h)].progress = FALSE, ![Len(h)].status = "interrupted"]
    BY <1>1 DEF MarkInterrupted
  <2>3. [h EXCEPT ![Len(h)].progress = FALSE, ![Len(h)].status = "interrupted"]
          = [h EXCEPT ![Len(h)] = [[h[Len(h)] EXCEPT !.progress = FALSE]
                                     EXCEPT !.status = "interrupted"]]
    BY <2>1
  <2> QED BY <1>1, <2>2, <2>3 DEF Last
<1>2. CASE ~(h # <<>> /\ Last(h).progress)
  BY <1>2 DEF MarkInterrupted
<1> QED BY <1>1, <1>2
-----------------------------------------------------------------------------
(* Type correctness *)

\* Every index there is lies below some number, which grows by one when a load
\* computes a new index.
EntryTo(n) == [turn : Turns \cup {Old}, index : 0..n, text : {"", "answer", "edited"},
               progress : BOOLEAN, status : Statuses, pending : BOOLEAN]
RowTo(n) == {r \in [exists : BOOLEAN, finished : BOOLEAN, history : Seq(EntryTo(n))] :
                /\ Len(r.history) <= MaxEntries
                /\ ~r.exists => r.history = <<>> /\ ~r.finished}
TurnFields(n) == [step : {"new", "begun", "prompt", "promptGot", "running", "answer", "answerGot",
                          "over"},
                  streamed : BOOLEAN, index : (0..n) \cup {NoIndex}, persisted : BOOLEAN,
                  aborted : BOOLEAN, retried : BOOLEAN, mine : RowTo(n), columns : SUBSET Columns]
TurnTo(n) == {r \in TurnFields(n) :
                /\ r.step = "new" => r.index = NoIndex
                /\ r.step \in {"prompt", "promptGot", "answer", "answerGot"} => r.index # NoIndex
                /\ r.step \in {"promptGot", "answerGot"} => "history" \in r.columns
                /\ r.step \in {"new", "begun", "prompt", "promptGot", "over"} => ~r.persisted
                /\ r.persisted => r.index # NoIndex}
EditFields(n) == [step : {"new", "loaded", "stopped", "got", "done"}, op : Ops \cup {"none"},
                  index : (0..n) \cup {NoIndex}, mine : RowTo(n), columns : SUBSET Columns]
EditTo(n) == {r \in EditFields(n) :
                /\ r.step \in {"loaded", "stopped", "got"} => r.mine.exists
                /\ r.step \in {"loaded", "got"} /\ r.op \in {"remove", "edit"} => r.index # NoIndex
                /\ r.step = "got" /\ r.op = "edit" => "history" \in r.columns
                /\ r.step = "got" => r.op \in Updates
                /\ r.step = "stopped" => r.op = "abort"
                /\ r.step \in {"new", "loaded", "stopped", "got"} => r.op # "delete"}
TypedTo(n) ==
    /\ row \in RowTo(n)
    /\ turn \in [Turns -> TurnTo(n)]
    /\ edit \in [Edits -> EditTo(n)]
    /\ registered \subseteq Turns
    /\ finishes \in Nat
    /\ slips \subseteq Slips
    /\ late \subseteq Turns /\ saved \subseteq Turns /\ removed \subseteq Turns
TypeInv == \E n \in Nat : TypedTo(n)

LEMMA RowWiden ==
    ASSUME NEW n \in Nat, NEW m \in Nat, n <= m
    PROVE  RowTo(n) \subseteq RowTo(m)
<1>1. EntryTo(n) \subseteq EntryTo(m)
  <2>1. 0..n \subseteq 0..m
    OBVIOUS
  <2> QED BY <2>1 DEF EntryTo
<1>2. \A h \in Seq(EntryTo(n)) : h \in Seq(EntryTo(m))
  BY <1>1, SeqMonotonic
<1> QED BY <1>2 DEF RowTo

LEMMA Widen ==
    ASSUME NEW n \in Nat, NEW m \in Nat, n <= m
    PROVE  (TypedTo(n) => TypedTo(m)) /\ (TypedTo(n)' => TypedTo(m)')
<1>1. 0..n \subseteq 0..m
  OBVIOUS
<1>2. TurnTo(n) \subseteq TurnTo(m)
  <2>1. TurnFields(n) \subseteq TurnFields(m)
    BY <1>1, RowWiden DEF TurnFields
  <2> QED BY <2>1 DEF TurnTo
<1>3. EditTo(n) \subseteq EditTo(m)
  <2>1. EditFields(n) \subseteq EditFields(m)
    BY <1>1, RowWiden DEF EditFields
  <2> QED BY <2>1 DEF EditTo
<1> QED BY <1>2, <1>3, RowWiden DEF TypedTo

LEMMA RowParts ==
    ASSUME NEW n \in Nat, NEW r \in RowTo(n)
    PROVE  /\ r.exists \in BOOLEAN /\ r.finished \in BOOLEAN
           /\ r.history \in Seq(EntryTo(n)) /\ Len(r.history) \in Nat /\ Len(r.history) <= MaxEntries
           /\ DOMAIN r.history = 1..Len(r.history)
           /\ \A i \in DOMAIN r.history : r.history[i] \in EntryTo(n)
           /\ r = [exists |-> r.exists, finished |-> r.finished, history |-> r.history]
<1>1. r.history \in Seq(EntryTo(n))
  BY DEF RowTo
<1>2. Len(r.history) \in Nat /\ DOMAIN r.history = 1..Len(r.history)
      /\ \A i \in 1..Len(r.history) : r.history[i] \in EntryTo(n)
  BY <1>1, LenProperties, ElementOfSeq
<1> QED BY <1>1, <1>2 DEF RowTo

LEMMA GoneTyped == ASSUME NEW n \in Nat PROVE Gone \in RowTo(n)
<1>1. <<>> \in Seq(EntryTo(n)) /\ Len(<<>>) = 0
  BY EmptySeq
<1> QED BY <1>1, HistoryAssumption DEF Gone, RowTo

LEMMA FreshTyped ==
    ASSUME NEW n \in Nat
    PROVE  /\ NewTurn \in TurnTo(n) /\ [NewTurn EXCEPT !.step = "over"] \in TurnTo(n)
           /\ NewEdit \in EditTo(n) /\ [NewEdit EXCEPT !.step = "done"] \in EditTo(n)
           /\ [NewEdit EXCEPT !.step = "done", !.op = "delete"] \in EditTo(n)
BY GoneTyped DEF NewTurn, NewEdit, TurnTo, TurnFields, EditTo, EditFields, Ops

LEMMA TypedInit == Init => TypeInv
<1> SUFFICES ASSUME Init PROVE TypeInv
  OBVIOUS
<1>1. OldEntry \in EntryTo(0)
  BY DEF OldEntry, EntryTo, Statuses
<1>2. <<OldEntry>> \in Seq(EntryTo(0)) /\ Len(<<OldEntry>>) = 1
  BY <1>1
<1>3. [exists |-> TRUE, finished |-> FALSE, history |-> <<OldEntry>>] \in RowTo(0)
  <2>1. Len(<<OldEntry>>) <= MaxEntries
    BY <1>2, HistoryAssumption
  <2> QED BY <1>2, <2>1 DEF RowTo
<1>4. row \in RowTo(0)
  BY <1>3, GoneTyped DEF Init
<1>5. TypedTo(0)
  BY <1>4, FreshTyped DEF Init, TypedTo
<1> QED BY <1>5 DEF TypeInv

\* The indices of a history end somewhere.
LEMMA NextIndex ==
    ASSUME NEW n \in Nat, NEW r \in RowTo(n)
    PROVE  /\ IndicesOf(r.history) \subseteq 0..n
           /\ Max(IndicesOf(r.history) \cup {-1}) + 1 \in 0..(n + 1)
<1>1. IndicesOf(r.history) \subseteq 0..n
  <2>1. \A i \in DOMAIN r.history : r.history[i].index \in 0..n
    BY RowParts DEF EntryTo
  <2> QED BY <2>1 DEF IndicesOf
<1> DEFINE S == IndicesOf(r.history) \cup {-1}
<1>2. S \subseteq Int /\ S # {} /\ (\A x \in S : x <= n) /\ n \in Int /\ \A x \in S : x >= -1
  BY <1>1
<1>3. Max(S) \in S
  <2> HIDE DEF S
  <2> QED BY <1>2, MaxIs
<1>4. Max(S) \in Int /\ Max(S) >= -1 /\ Max(S) <= n
  BY <1>2, <1>3
<1> QED BY <1>1, <1>4

-----------------------------------------------------------------------------
(* What the requests write *)

LEMMA StoredTyped ==
    ASSUME NEW n \in Nat, NEW h \in Seq(EntryTo(n)), NEW entry \in EntryTo(n), NEW replace \in BOOLEAN
    PROVE  Append(Retained(h, entry.index, replace), entry) \in Seq(EntryTo(n))
BY SavedHistory

LEMMA MarkedTyped ==
    ASSUME NEW n \in Nat, NEW h \in Seq(EntryTo(n))
    PROVE  MarkInterrupted(h) \in Seq(EntryTo(n))
<1>1. CASE MarkInterrupted(h) = h
  BY <1>1
<1>2. CASE /\ h # <<>>
           /\ MarkInterrupted(h) = [h EXCEPT ![Len(h)] = [[h[Len(h)] EXCEPT !.progress = FALSE]
                                                            EXCEPT !.status = "interrupted"]]
  <2>1. Len(h) \in 1..Len(h) /\ h[Len(h)] \in EntryTo(n)
    BY <1>2, EmptySeq, LenProperties, ElementOfSeq
  <2>2. [[h[Len(h)] EXCEPT !.progress = FALSE] EXCEPT !.status = "interrupted"] \in EntryTo(n)
    BY <2>1 DEF EntryTo, Statuses
  <2> QED BY <1>2, <2>1, <2>2, ExceptSeq
<1> QED BY <1>1, <1>2, MarkedIs

LEMMA WithoutTyped ==
    ASSUME NEW n \in Nat, NEW h \in Seq(EntryTo(n)), NEW x \in 0..n
    PROVE  WithoutIndex(h, x) \in Seq(EntryTo(n))
<1> DEFINE g == WithoutIndex(h, x)
<1>0. PICK k \in Nat : \E at : Leaves(g, h, x, k, at)
  BY WithoutIs
<1>1. PICK at : Leaves(g, h, x, k, at)
  BY <1>0
<1> HIDE DEF g
<1>2. \A i \in DOMAIN h : h[i] \in EntryTo(n)
  BY LenProperties, ElementOfSeq
<1>3. ASSUME NEW i \in 1..k PROVE g[i] \in EntryTo(n)
  <2>1. h[at[i]] \in EntryTo(n) /\ h[at[i]].index # x
        /\ g[i] = [h[at[i]] EXCEPT !.index = IF @ < x THEN @ ELSE @ - 1]
    BY <1>1, <1>2 DEF Leaves
  <2>2. \A y \in 0..n : y # x => (IF y < x THEN y ELSE y - 1) \in 0..n
    OBVIOUS
  <2>3. h[at[i]].index \in 0..n
    BY <2>1 DEF EntryTo
  <2>4. (IF h[at[i]].index < x THEN h[at[i]].index ELSE h[at[i]].index - 1) \in 0..n
    BY <2>1, <2>2, <2>3
  <2> QED BY <2>1, <2>4 DEF EntryTo
<1>4. g = [i \in 1..k |-> g[i]]
  BY <1>1 DEF Leaves
<1>5. [i \in 1..k |-> g[i]] \in Seq(EntryTo(n))
  BY <1>3, IsASeq
<1> QED BY <1>4, <1>5 DEF g

LEMMA EditedTyped ==
    ASSUME NEW n \in Nat, NEW h \in Seq(EntryTo(n)), NEW i \in DOMAIN h
    PROVE  WithEdited(h, i) \in Seq(EntryTo(n))
<1>1. h[i] \in EntryTo(n)
  BY LenProperties, ElementOfSeq
<1>2. [h[i] EXCEPT !.text = "edited"] \in EntryTo(n)
  BY <1>1 DEF EntryTo
<1> QED BY <1>2, AppendProperties DEF WithEdited

LEMMA SettledTyped ==
    ASSUME NEW n \in Nat, NEW h \in Seq(EntryTo(n)), NEW turns
    PROVE  Settled(h, turns) \in Seq(EntryTo(n)) /\ Len(Settled(h, turns)) = Len(h)
<1>1. Len(h) \in Nat /\ DOMAIN h = 1..Len(h) /\ \A i \in 1..Len(h) : h[i] \in EntryTo(n)
  BY LenProperties, ElementOfSeq
<1> DEFINE w(i) == IF h[i].turn \in turns /\ ~h[i].progress
                   THEN [h[i] EXCEPT !.pending = FALSE] ELSE h[i]
<1>2. \A i \in 1..Len(h) : w(i) \in EntryTo(n)
  BY <1>1 DEF EntryTo
<1>3. Settled(h, turns) = [i \in 1..Len(h) |-> w(i)]
  BY <1>1 DEF Settled
<1> HIDE DEF w
<1>4. [i \in 1..Len(h) |-> w(i)] \in Seq(EntryTo(n))
  BY <1>1, <1>2, IsASeq
<1>5. Len([i \in 1..Len(h) |-> w(i)]) = Len(h)
  BY <1>1, <1>4, LenProperties
<1> QED BY <1>3, <1>4, <1>5

-----------------------------------------------------------------------------
(* The steps of a chat request, taken apart *)

Over == [NewTurn EXCEPT !.step = "over"]
Rested(r, retried, persisted) ==
    [r EXCEPT !.step = "running", !.mine = Gone, !.columns = {}, !.retried = retried,
              !.persisted = persisted]
PromptEntry(t) == EntryOf(t, "", TRUE, "success")
AnswerEntry(t) ==
    EntryOf(t, "answer", FALSE,
            TurnStatus(turn[t].mine.history, IF turn[t].retried THEN "error"
                                             ELSE IF turn[t].aborted THEN "interrupted" ELSE "success"))
IndexOf(t) == IF turn[t].index # NoIndex THEN turn[t].index
              ELSE Max(IndicesOf(row.history) \cup {-1}) + 1

\* What a save makes of its copy.
Added(t, entry) ==
    [turn[t].mine EXCEPT !.history =
        Append(Retained(turn[t].mine.history, entry.index, turn[t].persisted), entry)]
Stored(t, entry) ==
    /\ Len(Added(t, entry).history) <= MaxEntries
    /\ \/ /\ turn[t].mine.exists /\ row.exists /\ turn[t].step \in {"promptGot", "answerGot"}
          /\ row' = Flushed(Added(t, entry), turn[t].columns)
          /\ slips' = slips \cup SlipsOf(turn[t].mine, turn[t].columns)
       \/ /\ ~turn[t].mine.exists /\ ~row.exists
          /\ row' = [Added(t, entry) EXCEPT !.exists = TRUE]
          /\ UNCHANGED slips

\* The request's record becomes r.
TurnBegins(t, r) ==
    /\ turn[t].step = "new"
    /\ \E streamed \in BOOLEAN, index \in IndicesOf(row.history) \cup {NoIndex} :
          r = [turn[t] EXCEPT !.step = IF streamed THEN "begun" ELSE "running",
                              !.streamed = streamed, !.index = index]
    /\ UNCHANGED <<row, slips, late, saved>>
TurnLoads(t, r) ==
    /\ \/ turn[t].step = "begun"
          /\ r = [turn[t] EXCEPT !.step = "prompt", !.mine = row, !.index = IndexOf(t)]
       \/ turn[t].step = "running"
          /\ r = [turn[t] EXCEPT !.step = "answer", !.mine = row, !.index = IndexOf(t)]
    /\ Unfinished(row)
    /\ slips' = slips \cup {s \in {"clash"} :
                   \E u \in Turns \ {t} : UnderWay(u) /\ turn[u].index = IndexOf(t)}
    /\ UNCHANGED <<row, late, saved>>
TurnGets(t, r) ==
    /\ row.exists /\ turn[t].mine.exists
    /\ \/ turn[t].step = "prompt"
          /\ r = [turn[t] EXCEPT !.step = "promptGot",
                                 !.columns = Differing(turn[t].mine) \cup {"history"}]
       \/ turn[t].step = "answer"
          /\ r = [turn[t] EXCEPT !.step = "answerGot",
                                 !.columns = Differing(turn[t].mine) \cup {"history"}]
    /\ UNCHANGED <<row, slips, late, saved>>
TurnFails(t, r) ==
    /\ turn[t].step # "over"
    /\ \/ r = Over
       \/ UnderWay(t) /\ \E retried \in BOOLEAN : r = Rested(turn[t], retried, turn[t].persisted)
    /\ UNCHANGED <<row, slips, late, saved>>
TurnPlaces(t, r) ==
    /\ turn[t].step \in {"prompt", "promptGot"}
    /\ Stored(t, PromptEntry(t))
    /\ \/ r = Rested(turn[t], turn[t].retried, TRUE) /\ UNCHANGED late
       \/ r = Rested(turn[t], turn[t].retried, turn[t].persisted) /\ late' = late \cup {t}
    /\ UNCHANGED saved
TurnAnswers(t, r) ==
    /\ turn[t].step \in {"answer", "answerGot"}
    /\ Stored(t, AnswerEntry(t))
    /\ \/ r = Over /\ (UNCHANGED late \/ late' = late \cup {t})
       \/ r = Rested(turn[t], TRUE, turn[t].persisted) /\ late' = late \cup {t}
    /\ saved' = saved \cup {t}
TurnMoves(t, r) ==
    \/ TurnBegins(t, r) \/ TurnLoads(t, r) \/ TurnGets(t, r) \/ TurnFails(t, r)
    \/ TurnPlaces(t, r) \/ TurnAnswers(t, r)
TurnCase(t) ==
    /\ UNCHANGED <<edit, finishes, removed>>
    /\ registered' \in {registered, registered \cup {t}, registered \ {t}}
    /\ \E r : turn' = [turn EXCEPT ![t] = r] /\ TurnMoves(t, r)

LEMMA FailsIs ==
    ASSUME NEW n \in Nat, TypedTo(n), NEW t \in Turns
    PROVE  /\ PromptFails(t) =>
                /\ turn' = [turn EXCEPT ![t] = Rested(turn[t], turn[t].retried, turn[t].persisted)]
                /\ UNCHANGED registered
           /\ AnswerFails(t) =>
                \/ /\ turn' = [turn EXCEPT ![t] = Rested(turn[t], TRUE, turn[t].persisted)]
                   /\ UNCHANGED registered
                \/ turn' = [turn EXCEPT ![t] = Over] /\ registered' = registered \ {t}
<1>1. turn \in [Turns -> TurnFields(n)] /\ turn[t] \in TurnFields(n)
  BY DEF TypedTo, TurnTo
<1>2. ASSUME PromptFails(t)
      PROVE  turn' = [turn EXCEPT ![t] = Rested(turn[t], turn[t].retried, turn[t].persisted)]
  BY <1>1, <1>2 DEF PromptFails, Rested, TurnFields
<1>3. ASSUME turn' = [turn EXCEPT ![t].step = "running", ![t].retried = TRUE, ![t].mine = Gone,
                               ![t].columns = {}]
      PROVE  turn' = [turn EXCEPT ![t] = Rested(turn[t], TRUE, turn[t].persisted)]
  BY <1>1, <1>3 DEF Rested, TurnFields
<1> QED BY <1>2, <1>3 DEF PromptFails, AnswerFails, Ends, Over

LEMMA BeginIs ==
    ASSUME NEW n \in Nat, TypedTo(n), NEW t \in Turns, Begin(t)
    PROVE  TurnCase(t)
<1>1. turn \in [Turns -> TurnFields(n)] /\ turn[t] \in TurnFields(n)
  BY DEF TypedTo, TurnTo
<1>2. CASE ~Unfinished(row) /\ Ends(t)
  <2>1. TurnFails(t, Over)
    BY <1>2 DEF Begin, TurnFails
  <2> QED BY <1>2, <2>1 DEF Begin, TurnCase, TurnMoves, Ends, Over
<1>3. ASSUME NEW streamed \in BOOLEAN, NEW index \in IndicesOf(row.history) \cup {NoIndex},
             turn' = [turn EXCEPT ![t].step = IF streamed THEN "begun" ELSE "running",
                                  ![t].streamed = streamed, ![t].index = index],
             registered' = IF streamed THEN registered \cup {t} ELSE registered
      PROVE  TurnCase(t)
  <2> DEFINE r == [turn[t] EXCEPT !.step = IF streamed THEN "begun" ELSE "running",
                                  !.streamed = streamed, !.index = index]
  <2>1. turn' = [turn EXCEPT ![t] = r]
    BY <1>1, <1>3
  <2>2. TurnBegins(t, r)
    BY DEF Begin, TurnBegins
  <2> HIDE DEF r
  <2> QED BY <1>3, <2>1, <2>2 DEF Begin, TurnCase, TurnMoves
<1> QED BY <1>2, <1>3 DEF Begin

LEMMA LoadIs ==
    ASSUME NEW n \in Nat, TypedTo(n), NEW t \in Turns, LoadPrompt(t) \/ LoadAnswer(t)
    PROVE  TurnCase(t)
<1>1. turn \in [Turns -> TurnFields(n)] /\ turn[t] \in TurnFields(n)
  BY DEF TypedTo, TurnTo
<1>2. /\ UNCHANGED <<row, edit, finishes, late, saved, removed>>
      /\ \/ LoadPrompt(t) /\ turn[t].step = "begun"
         \/ LoadAnswer(t) /\ turn[t].step = "running"
  BY DEF LoadPrompt, LoadAnswer, Load
<1>3. ASSUME UNCHANGED slips, PromptFails(t) \/ AnswerFails(t) PROVE TurnCase(t)
  <2>1. \E r : /\ turn' = [turn EXCEPT ![t] = r] /\ TurnFails(t, r)
               /\ registered' \in {registered, registered \ {t}}
    BY <1>1, <1>2, <1>3, FailsIs DEF TurnFails, UnderWay, TurnFields
  <2> QED BY <1>2, <2>1 DEF TurnCase, TurnMoves
<1>4. ASSUME NEW to \in {"prompt", "answer"},
             turn[t].step = IF to = "prompt" THEN "begun" ELSE "running",
             Unfinished(row),
             turn' = [turn EXCEPT ![t].step = to, ![t].mine = row, ![t].index = IndexOf(t)],
             slips' = slips \cup {s \in {"clash"} :
                         \E u \in Turns \ {t} : UnderWay(u) /\ turn[u].index = IndexOf(t)},
             UNCHANGED registered
      PROVE  TurnCase(t)
  <2> DEFINE r == [turn[t] EXCEPT !.step = to, !.mine = row, !.index = IndexOf(t)]
  <2>1. turn' = [turn EXCEPT ![t] = r]
    BY <1>1, <1>4
  <2>2. TurnLoads(t, r)
    BY <1>2, <1>4 DEF TurnLoads
  <2> HIDE DEF r
  <2> QED BY <1>2, <1>4, <2>1, <2>2 DEF TurnCase, TurnMoves
<1>5. CASE LoadPrompt(t) /\ turn[t].step = "begun"
  BY <1>3, <1>4, <1>5 DEF LoadPrompt, Load, IndexOf
<1>6. CASE LoadAnswer(t) /\ turn[t].step = "running"
  BY <1>3, <1>4, <1>6 DEF LoadAnswer, Load, IndexOf
<1> QED BY <1>2, <1>5, <1>6

LEMMA GetIs ==
    ASSUME NEW n \in Nat, TypedTo(n), NEW t \in Turns, GetPrompt(t) \/ GetAnswer(t)
    PROVE  TurnCase(t)
<1>1. turn \in [Turns -> TurnFields(n)] /\ turn[t] \in TurnFields(n)
  BY DEF TypedTo, TurnTo
<1>2. /\ UNCHANGED <<row, edit, finishes, slips, late, saved, removed>>
      /\ turn[t].mine.exists
      /\ \/ GetPrompt(t) /\ turn[t].step = "prompt"
         \/ GetAnswer(t) /\ turn[t].step = "answer"
  BY DEF GetPrompt, GetAnswer, Get
<1>3. ASSUME PromptFails(t) \/ AnswerFails(t) PROVE TurnCase(t)
  <2>1. \E r : /\ turn' = [turn EXCEPT ![t] = r] /\ TurnFails(t, r)
               /\ registered' \in {registered, registered \ {t}}
    BY <1>1, <1>2, <1>3, FailsIs DEF TurnFails, UnderWay, TurnFields
  <2> QED BY <1>2, <2>1 DEF TurnCase, TurnMoves
<1>4. ASSUME NEW to \in {"promptGot", "answerGot"},
             turn[t].step = IF to = "promptGot" THEN "prompt" ELSE "answer", row.exists,
             turn' = [turn EXCEPT ![t].step = to,
                                  ![t].columns = Differing(turn[t].mine) \cup {"history"}],
             UNCHANGED registered
      PROVE  TurnCase(t)
  <2> DEFINE r == [turn[t] EXCEPT !.step = to, !.columns = Differing(turn[t].mine) \cup {"history"}]
  <2>1. turn' = [turn EXCEPT ![t] = r]
    BY <1>1, <1>4
  <2>2. TurnGets(t, r)
    BY <1>2, <1>4 DEF TurnGets
  <2> HIDE DEF r
  <2> QED BY <1>2, <1>4, <2>1, <2>2 DEF TurnCase, TurnMoves
<1>5. CASE GetPrompt(t) /\ turn[t].step = "prompt"
  BY <1>3, <1>4, <1>5 DEF GetPrompt, Get
<1>6. CASE GetAnswer(t) /\ turn[t].step = "answer"
  BY <1>3, <1>4, <1>6 DEF GetAnswer, Get
<1> QED BY <1>2, <1>5, <1>6

LEMMA SavePromptIs ==
    ASSUME NEW n \in Nat, TypedTo(n), NEW t \in Turns, SavePrompt(t)
    PROVE  TurnCase(t)
<1>1. turn \in [Turns -> TurnFields(n)] /\ turn[t] \in TurnFields(n)
  BY DEF TypedTo, TurnTo
<1> DEFINE kept == /\ turn' = [turn EXCEPT ![t].step = "running", ![t].persisted = TRUE,
                                           ![t].mine = Gone, ![t].columns = {}]
                   /\ UNCHANGED registered
           mine == turn[t].mine
<1>2. ~PromptEntry(t).progress <=> FALSE
  BY DEF PromptEntry, EntryOf
<1>3. /\ UNCHANGED <<edit, finishes, removed, saved>> /\ turn[t].step \in {"prompt", "promptGot"}
      /\ \/ Stored(t, PromptEntry(t)) /\ \/ kept /\ UNCHANGED late
                                         \/ PromptFails(t) /\ late' = late \cup {t}
         \/ PromptFails(t) /\ UNCHANGED <<row, slips, late>>
  <2>1. /\ UNCHANGED <<edit, finishes, removed>>
        /\ turn[t].step = IF mine.exists THEN "promptGot" ELSE "prompt"
        /\ saved' = IF mine.exists = row.exists /\ ~PromptEntry(t).progress THEN saved \cup {t} ELSE saved
    BY DEF SavePrompt, Stores, PromptEntry
  <2>2. mine.exists \in BOOLEAN /\ row.exists \in BOOLEAN
    BY <1>1, RowParts DEF TypedTo, TurnFields
  <2>3. /\ Len(Added(t, PromptEntry(t)).history) <= MaxEntries
        /\ \/ /\ mine.exists /\ row.exists
              /\ row' = Flushed(Added(t, PromptEntry(t)), turn[t].columns)
              /\ slips' = slips \cup SlipsOf(mine, turn[t].columns)
           \/ /\ ~mine.exists /\ ~row.exists
              /\ row' = [Added(t, PromptEntry(t)) EXCEPT !.exists = TRUE]
              /\ UNCHANGED slips
           \/ mine.exists # row.exists /\ UNCHANGED <<row, slips>>
    <3> DEFINE g == Append(Retained(mine.history, PromptEntry(t).index, turn[t].persisted), PromptEntry(t))
    <3>1. Added(t, PromptEntry(t)) = [mine EXCEPT !.history = g]
      BY DEF Added
    <3>2. Added(t, PromptEntry(t)).history = g
      BY <1>1, <3>1 DEF TurnFields, RowTo
    <3>3. /\ Len(g) <= MaxEntries
          /\ \/ /\ mine.exists /\ row.exists
                /\ row' = Flushed([mine EXCEPT !.history = g], turn[t].columns)
                /\ slips' = slips \cup SlipsOf(mine, turn[t].columns)
             \/ /\ ~mine.exists /\ ~row.exists
                /\ row' = [[mine EXCEPT !.history = g] EXCEPT !.exists = TRUE]
                /\ UNCHANGED slips
             \/ mine.exists # row.exists /\ UNCHANGED <<row, slips>>
      BY DEF SavePrompt, Stores, PromptEntry
    <3> HIDE DEF g, mine
    <3> QED BY <3>1, <3>2, <3>3
  <2>4. mine.exists = row.exists => Stored(t, PromptEntry(t))
    BY <2>1, <2>2, <2>3 DEF Stored
  <2>5. \/ mine.exists = row.exists /\ kept /\ UNCHANGED late
        \/ mine.exists = row.exists /\ PromptFails(t) /\ late' = late \cup {t}
        \/ mine.exists # row.exists /\ PromptFails(t) /\ UNCHANGED late
    BY DEF SavePrompt, Stores
  <2> HIDE DEF kept, mine
  <2> QED BY <1>2, <2>1, <2>2, <2>3, <2>4, <2>5
<1>4. kept => turn' = [turn EXCEPT ![t] = Rested(turn[t], turn[t].retried, TRUE)]
  BY <1>1 DEF Rested, TurnFields
<1>5. CASE Stored(t, PromptEntry(t)) /\ kept /\ UNCHANGED late
  BY <1>3, <1>4, <1>5 DEF TurnCase, TurnMoves, TurnPlaces
<1>6. CASE Stored(t, PromptEntry(t)) /\ PromptFails(t) /\ late' = late \cup {t}
  BY <1>3, <1>6, FailsIs DEF TurnCase, TurnMoves, TurnPlaces
<1>7. CASE PromptFails(t) /\ UNCHANGED <<row, slips, late>>
  <2>1. TurnFails(t, Rested(turn[t], turn[t].retried, turn[t].persisted))
    BY <1>1, <1>3, <1>7 DEF TurnFails, UnderWay, TurnFields
  <2> QED BY <1>3, <1>7, <2>1, FailsIs DEF TurnCase, TurnMoves
<1> QED BY <1>3, <1>5, <1>6, <1>7

LEMMA SaveAnswerIs ==
    ASSUME NEW n \in Nat, TypedTo(n), NEW t \in Turns, SaveAnswer(t)
    PROVE  TurnCase(t)
<1>1. turn \in [Turns -> TurnFields(n)] /\ turn[t] \in TurnFields(n)
  BY DEF TypedTo, TurnTo
<1> DEFINE mine == turn[t].mine
<1>2. AnswerEntry(t).progress = FALSE
  BY DEF AnswerEntry, EntryOf
<1>3. /\ UNCHANGED <<edit, finishes, removed>> /\ turn[t].step \in {"answer", "answerGot"}
      /\ \/ /\ Stored(t, AnswerEntry(t)) /\ saved' = saved \cup {t}
            /\ \/ Ends(t) /\ UNCHANGED late
               \/ AnswerFails(t) /\ late' = late \cup {t}
         \/ AnswerFails(t) /\ UNCHANGED <<row, slips, late, saved>>
  <2>1. /\ UNCHANGED <<edit, finishes, removed>>
        /\ turn[t].step = IF mine.exists THEN "answerGot" ELSE "answer"
        /\ saved' = IF mine.exists = row.exists /\ ~AnswerEntry(t).progress THEN saved \cup {t} ELSE saved
    BY DEF SaveAnswer, Stores, AnswerEntry
  <2>2. mine.exists \in BOOLEAN /\ row.exists \in BOOLEAN
    BY <1>1, RowParts DEF TypedTo, TurnFields
  <2>3. /\ Len(Added(t, AnswerEntry(t)).history) <= MaxEntries
        /\ \/ /\ mine.exists /\ row.exists
              /\ row' = Flushed(Added(t, AnswerEntry(t)), turn[t].columns)
              /\ slips' = slips \cup SlipsOf(mine, turn[t].columns)
           \/ /\ ~mine.exists /\ ~row.exists
              /\ row' = [Added(t, AnswerEntry(t)) EXCEPT !.exists = TRUE]
              /\ UNCHANGED slips
           \/ mine.exists # row.exists /\ UNCHANGED <<row, slips>>
    <3> DEFINE g == Append(Retained(mine.history, AnswerEntry(t).index, turn[t].persisted), AnswerEntry(t))
    <3>1. Added(t, AnswerEntry(t)) = [mine EXCEPT !.history = g]
      BY DEF Added
    <3>2. Added(t, AnswerEntry(t)).history = g
      BY <1>1, <3>1 DEF TurnFields, RowTo
    <3>3. /\ Len(g) <= MaxEntries
          /\ \/ /\ mine.exists /\ row.exists
                /\ row' = Flushed([mine EXCEPT !.history = g], turn[t].columns)
                /\ slips' = slips \cup SlipsOf(mine, turn[t].columns)
             \/ /\ ~mine.exists /\ ~row.exists
                /\ row' = [[mine EXCEPT !.history = g] EXCEPT !.exists = TRUE]
                /\ UNCHANGED slips
             \/ mine.exists # row.exists /\ UNCHANGED <<row, slips>>
      BY DEF SaveAnswer, Stores, AnswerEntry
    <3> HIDE DEF g, mine
    <3> QED BY <3>1, <3>2, <3>3
  <2>4. mine.exists = row.exists => Stored(t, AnswerEntry(t))
    BY <2>1, <2>2, <2>3 DEF Stored
  <2>5. \/ mine.exists = row.exists /\ Ends(t) /\ UNCHANGED late
        \/ mine.exists = row.exists /\ AnswerFails(t) /\ late' = late \cup {t}
        \/ mine.exists # row.exists /\ AnswerFails(t) /\ UNCHANGED late
    BY DEF SaveAnswer, Stores
  <2> HIDE DEF mine
  <2> QED BY <1>2, <2>1, <2>2, <2>3, <2>4, <2>5
<1>4. AnswerFails(t) => \E r : /\ turn' = [turn EXCEPT ![t] = r]
                               /\ registered' \in {registered, registered \ {t}}
                               /\ r = Over \/ r = Rested(turn[t], TRUE, turn[t].persisted)
  BY FailsIs
<1>5. Ends(t) => turn' = [turn EXCEPT ![t] = Over] /\ registered' = registered \ {t}
  BY DEF Ends, Over
<1>6. CASE Stored(t, AnswerEntry(t)) /\ saved' = saved \cup {t} /\ Ends(t) /\ UNCHANGED late
  BY <1>3, <1>5, <1>6 DEF TurnCase, TurnMoves, TurnAnswers
<1>7. CASE Stored(t, AnswerEntry(t)) /\ saved' = saved \cup {t} /\ AnswerFails(t)
           /\ late' = late \cup {t}
  BY <1>3, <1>4, <1>7 DEF TurnCase, TurnMoves, TurnAnswers
<1>8. CASE AnswerFails(t) /\ UNCHANGED <<row, slips, late, saved>>
  <2>1. \A r : r = Over \/ r = Rested(turn[t], TRUE, turn[t].persisted) => TurnFails(t, r)
    BY <1>3, <1>8 DEF TurnFails, UnderWay
  <2> QED BY <1>3, <1>4, <1>8, <2>1 DEF TurnCase, TurnMoves
<1> QED BY <1>3, <1>6, <1>7, <1>8

LEMMA TurnCases ==
    ASSUME NEW n \in Nat, TypedTo(n), NEW t \in Turns, TurnStep(t)
    PROVE  TurnCase(t)
BY BeginIs, LoadIs, GetIs, SavePromptIs, SaveAnswerIs DEF TurnStep

-----------------------------------------------------------------------------
(* The type invariant, step by step *)

LEMMA EntriesTyped ==
    ASSUME NEW n \in Nat, TypedTo(n), NEW t \in Turns, turn[t].index # NoIndex
    PROVE  PromptEntry(t) \in EntryTo(n) /\ AnswerEntry(t) \in EntryTo(n)
<1>1. turn[t].index \in 0..n
  BY DEF TypedTo, TurnTo, TurnFields
<1>2. \A h, s : s \in Statuses => TurnStatus(h, s) \in Statuses
  BY DEF TurnStatus, Statuses
<1> QED BY <1>1, <1>2 DEF PromptEntry, AnswerEntry, EntryOf, EntryTo, Statuses

\* A flush of a typed copy.
LEMMA FlushedTyped ==
    ASSUME NEW n \in Nat, row \in RowTo(n), NEW finished \in BOOLEAN,
           NEW history \in Seq(EntryTo(n)), Len(history) <= MaxEntries, NEW columns,
           NEW new, new.finished = finished, new.history = history
    PROVE  /\ Flushed(new, columns) \in RowTo(n)
           /\ Flushed(new, columns).exists
           /\ "history" \in columns => Flushed(new, columns).history = history
           /\ "history" \notin columns => Flushed(new, columns).history = row.history
           /\ "finished" \in columns => Flushed(new, columns).finished = finished
           /\ "finished" \notin columns => Flushed(new, columns).finished = row.finished
<1>1. row.finished \in BOOLEAN /\ row.history \in Seq(EntryTo(n)) /\ Len(row.history) <= MaxEntries
  BY RowParts
<1> DEFINE f == IF "finished" \in columns THEN finished ELSE row.finished
           h == IF "history" \in columns THEN history ELSE row.history
<1>2. f \in BOOLEAN /\ h \in Seq(EntryTo(n)) /\ Len(h) <= MaxEntries
  BY <1>1
<1>3. Flushed(new, columns) = [exists |-> TRUE, finished |-> f, history |-> h]
  BY DEF Flushed
<1>4. [exists |-> TRUE, finished |-> f, history |-> h] \in RowTo(n)
  <2> HIDE DEF f, h
  <2> QED BY <1>2 DEF RowTo
<1> QED BY <1>3, <1>4

\* The row after a save: its history is the copy's with the new entry.
LEMMA StoredTypes ==
    ASSUME NEW n \in Nat, TypedTo(n), NEW t \in Turns, NEW entry \in EntryTo(n), Stored(t, entry)
    PROVE  /\ row' \in RowTo(n) /\ slips' \subseteq Slips /\ row'.exists
           /\ row'.history = Append(Retained(turn[t].mine.history, entry.index, turn[t].persisted),
                                    entry)
           /\ row'.finished \in {row.finished, turn[t].mine.finished}
<1>1. turn[t] \in TurnTo(n) /\ row \in RowTo(n) /\ slips \subseteq Slips
  BY DEF TypedTo
<1>2. /\ turn[t].mine \in RowTo(n) /\ turn[t].persisted \in BOOLEAN
      /\ turn[t].step \in {"promptGot", "answerGot"} => "history" \in turn[t].columns
  BY <1>1 DEF TurnTo, TurnFields
<1> DEFINE mine == turn[t].mine
           g == Append(Retained(mine.history, entry.index, turn[t].persisted), entry)
           new == Added(t, entry)
<1>3. g \in Seq(EntryTo(n))
  BY <1>2, RowParts, StoredTyped
<1>4. new = [mine EXCEPT !.history = g]
  BY DEF Added
<1>5. /\ \/ mine.exists /\ row.exists /\ "history" \in turn[t].columns
            /\ row' = Flushed(new, turn[t].columns)
            /\ slips' = slips \cup SlipsOf(mine, turn[t].columns)
         \/ ~mine.exists /\ row' = [new EXCEPT !.exists = TRUE] /\ UNCHANGED slips
      /\ Len(new.history) <= MaxEntries
  BY <1>2 DEF Stored
<1>6. slips' \subseteq Slips
  <2>1. SlipsOf(mine, turn[t].columns) \subseteq Slips
    BY DEF SlipsOf, Slips
  <2> QED BY <1>1, <1>5, <2>1
<1>7. mine.finished \in BOOLEAN /\ mine \in RowTo(n)
  BY <1>2, RowParts
<1> HIDE DEF g, mine, new
<1>8. new.finished = mine.finished /\ new.history = g /\ new.exists = mine.exists
  BY <1>4, <1>7 DEF RowTo
<1>9. CASE mine.exists
  <2>1. /\ row' = Flushed(new, turn[t].columns) /\ "history" \in turn[t].columns
        /\ Len(g) <= MaxEntries
    BY <1>5, <1>8, <1>9
  <2>2. /\ row' \in RowTo(n) /\ row'.exists /\ row'.history = g
        /\ row'.finished \in {row.finished, mine.finished}
    BY <1>1, <1>3, <1>7, <1>8, <2>1, FlushedTyped
  <2> QED BY <1>6, <2>2 DEF g, mine
<1>10. CASE ~mine.exists
  <2>1. row' = [[mine EXCEPT !.history = g] EXCEPT !.exists = TRUE] /\ Len(g) <= MaxEntries
    BY <1>4, <1>5, <1>8, <1>10
  <2>2. /\ row' \in RowTo(n) /\ row'.exists /\ row'.history = g
        /\ row'.finished = mine.finished
    BY <1>3, <1>7, <2>1 DEF RowTo
  <2> QED BY <1>6, <2>2 DEF g, mine
<1> QED BY <1>9, <1>10

LEMMA RestedTyped ==
    ASSUME NEW n \in Nat, NEW r \in TurnTo(n), NEW retried \in BOOLEAN, NEW persisted \in BOOLEAN,
           persisted => r.index # NoIndex
    PROVE  Rested(r, retried, persisted) \in TurnTo(n)
<1>1. Gone \in RowTo(n)
  BY GoneTyped
<1>2. /\ Rested(r, retried, persisted) \in TurnFields(n)
      /\ Rested(r, retried, persisted).step = "running"
      /\ Rested(r, retried, persisted).index = r.index
      /\ Rested(r, retried, persisted).persisted = persisted
  BY <1>1 DEF TurnTo, TurnFields, Rested
<1> QED BY <1>2 DEF TurnTo

LEMMA MovesTyped ==
    ASSUME NEW n \in Nat, TypedTo(n), NEW t \in Turns, NEW r, TurnMoves(t, r)
    PROVE  /\ r \in TurnTo(n + 1) /\ row' \in RowTo(n)
           /\ slips' \subseteq Slips /\ late' \subseteq Turns /\ saved' \subseteq Turns
<1>1. turn[t] \in TurnTo(n) /\ row \in RowTo(n) /\ slips \subseteq Slips
      /\ late \subseteq Turns /\ saved \subseteq Turns
  BY DEF TypedTo
<1>2. turn[t] \in TurnFields(n)
  BY <1>1 DEF TurnTo
<1>3. n + 1 \in Nat /\ n <= n + 1 /\ TypedTo(n + 1)
  BY Widen
<1>4. turn[t] \in TurnTo(n + 1) /\ row \in RowTo(n + 1)
  BY <1>3 DEF TypedTo
<1>5. turn[t] \in TurnFields(n + 1)
  BY <1>4 DEF TurnTo
<1>6. Over \in TurnTo(n + 1)
  BY <1>3, FreshTyped DEF Over
<1>7. CASE TurnBegins(t, r)
  <2>1. PICK streamed \in BOOLEAN, index \in IndicesOf(row.history) \cup {NoIndex} :
          r = [turn[t] EXCEPT !.step = IF streamed THEN "begun" ELSE "running",
                              !.streamed = streamed, !.index = index]
    BY <1>7 DEF TurnBegins
  <2>2. index \in (0..(n + 1)) \cup {NoIndex} /\ turn[t].step = "new" /\ ~turn[t].persisted
    BY <1>1, <1>3, <1>4, <1>7, NextIndex DEF TurnBegins, TurnTo
  <2>3. /\ r \in TurnFields(n + 1) /\ r.step \in {"begun", "running"}
        /\ r.persisted = turn[t].persisted
    BY <1>5, <2>1, <2>2 DEF TurnFields
  <2>4. r \in TurnTo(n + 1)
    BY <2>2, <2>3 DEF TurnTo
  <2> QED BY <1>1, <1>7, <2>4 DEF TurnBegins
<1>8. CASE TurnLoads(t, r)
  <2>1. IndexOf(t) \in 0..(n + 1) /\ (turn[t].persisted => turn[t].step = "running")
        /\ IndexOf(t) # NoIndex
    <3>1. IndexOf(t) \in 0..(n + 1)
      BY <1>1, <1>5, NextIndex DEF IndexOf, TurnFields
    <3> QED BY <1>1, <1>8, <3>1 DEF TurnLoads, TurnTo, NoIndex
  <2>2. PICK to \in {"prompt", "answer"} :
          /\ r = [turn[t] EXCEPT !.step = to, !.mine = row, !.index = IndexOf(t)]
          /\ turn[t].step = IF to = "prompt" THEN "begun" ELSE "running"
    BY <1>8 DEF TurnLoads
  <2>3. /\ r \in TurnFields(n + 1) /\ r.step = to /\ r.index = IndexOf(t)
        /\ r.persisted = turn[t].persisted
    BY <1>4, <1>5, <2>1, <2>2 DEF TurnFields
  <2>4. r \in TurnTo(n + 1)
    BY <2>1, <2>2, <2>3 DEF TurnTo
  <2>5. slips' \subseteq Slips
    BY <1>1, <1>8 DEF TurnLoads, Slips
  <2> QED BY <1>1, <1>8, <2>4, <2>5 DEF TurnLoads
<1>9. CASE TurnGets(t, r)
  <2>1. PICK to \in {"promptGot", "answerGot"} :
          /\ r = [turn[t] EXCEPT !.step = to, !.columns = Differing(turn[t].mine) \cup {"history"}]
          /\ turn[t].step = IF to = "promptGot" THEN "prompt" ELSE "answer"
    BY <1>9 DEF TurnGets
  <2>2. Differing(turn[t].mine) \cup {"history"} \in SUBSET Columns
    BY DEF Differing, Columns
  <2>3. /\ r \in TurnFields(n + 1) /\ r.step = to /\ r.index = turn[t].index
        /\ r.persisted = turn[t].persisted /\ "history" \in r.columns
    BY <1>5, <2>1, <2>2 DEF TurnFields
  <2>4. r \in TurnTo(n + 1)
    BY <1>4, <2>1, <2>3 DEF TurnTo
  <2> QED BY <1>1, <1>9, <2>4 DEF TurnGets
<1>10. CASE TurnFails(t, r)
  <2>1. turn[t].persisted \in BOOLEAN /\ (turn[t].persisted => turn[t].index # NoIndex)
    BY <1>1, <1>2 DEF TurnTo, TurnFields
  <2>2. r \in TurnTo(n + 1)
    BY <1>3, <1>4, <1>6, <1>10, <2>1, RestedTyped DEF TurnFails
  <2> QED BY <1>1, <1>10, <2>2 DEF TurnFails
<1>11. ASSUME NEW entry \in {PromptEntry(t), AnswerEntry(t)}, Stored(t, entry),
              turn[t].step \in {"prompt", "promptGot", "answer", "answerGot"}
       PROVE  row' \in RowTo(n) /\ slips' \subseteq Slips /\ turn[t].index # NoIndex
  <2>1. turn[t].index # NoIndex
    BY <1>1, <1>11 DEF TurnTo
  <2>2. entry \in EntryTo(n)
    BY <1>11, <2>1, EntriesTyped
  <2> QED BY <1>11, <2>1, <2>2, StoredTypes
<1>12. turn[t].retried \in BOOLEAN /\ turn[t].persisted \in BOOLEAN
  BY <1>2 DEF TurnFields
<1>13. CASE TurnPlaces(t, r)
  <2>1. row' \in RowTo(n) /\ slips' \subseteq Slips /\ turn[t].index # NoIndex
    BY <1>11, <1>13 DEF TurnPlaces
  <2>2. r \in TurnTo(n + 1)
    BY <1>3, <1>4, <1>12, <1>13, <2>1, RestedTyped DEF TurnPlaces
  <2> QED BY <1>1, <1>13, <2>1, <2>2 DEF TurnPlaces
<1>14. CASE TurnAnswers(t, r)
  <2>1. row' \in RowTo(n) /\ slips' \subseteq Slips /\ turn[t].index # NoIndex
    BY <1>11, <1>14 DEF TurnAnswers
  <2>2. r \in TurnTo(n + 1)
    BY <1>3, <1>4, <1>6, <1>12, <1>14, <2>1, RestedTyped DEF TurnAnswers
  <2> QED BY <1>1, <1>14, <2>1, <2>2 DEF TurnAnswers
<1> QED BY <1>7, <1>8, <1>9, <1>10, <1>13, <1>14 DEF TurnMoves

LEMMA TurnTyped ==
    ASSUME NEW n \in Nat, TypedTo(n), NEW t \in Turns, TurnStep(t)
    PROVE  TypedTo(n + 1)'
<1>1. TurnCase(t)
  BY TurnCases
<1>2. PICK r : turn' = [turn EXCEPT ![t] = r] /\ TurnMoves(t, r)
  BY <1>1 DEF TurnCase
<1>3. /\ r \in TurnTo(n + 1) /\ row' \in RowTo(n)
      /\ slips' \subseteq Slips /\ late' \subseteq Turns /\ saved' \subseteq Turns
  BY <1>2, MovesTyped
<1>4. n + 1 \in Nat /\ n <= n + 1 /\ TypedTo(n + 1)
  BY Widen
<1>5. turn' \in [Turns -> TurnTo(n + 1)]
  BY <1>2, <1>3, <1>4 DEF TypedTo
<1>6. row' \in RowTo(n + 1)
  BY <1>3, <1>4, RowWiden
<1>7. registered' \subseteq Turns
  BY <1>1 DEF TurnCase, TypedTo
<1>8. edit' \in [Edits -> EditTo(n + 1)] /\ finishes' \in Nat /\ removed' \subseteq Turns
  BY <1>1, <1>4 DEF TurnCase, TypedTo
<1> QED BY <1>3, <1>5, <1>6, <1>7, <1>8 DEF TypedTo

-----------------------------------------------------------------------------
(* The steps of the other requests *)

Ended == [NewEdit EXCEPT !.step = "done"]

\* The records a request may have next.
EditRecord(e, r) ==
    \/ r \in {Ended, [NewEdit EXCEPT !.step = "done", !.op = "delete"], [edit[e] EXCEPT !.step = "stopped"]}
    \/ \E op \in Ops, index \in IndicesOf(row.history) \cup {NoIndex} :
          r = [NewEdit EXCEPT !.step = "loaded", !.op = op, !.index = index, !.mine = row]
    \/ \E columns \in SUBSET Columns : r = [edit[e] EXCEPT !.step = "got", !.columns = columns]
EditCase(e, r) ==
    /\ EditRecord(e, r)
    /\ edit[e].step # "done"
    /\ r.step = "loaded" => /\ edit[e].step = "new" /\ row.exists /\ r.op # "delete" /\ r.mine = row
                            /\ r.op \in {"remove", "clear", "edit", "finish"} => Unfinished(row)
                            /\ r.op \in {"remove", "edit"} => r.index # NoIndex
    /\ r.step = "stopped" => edit[e].step = "loaded" /\ edit[e].op = "abort"
    /\ r.step = "got" =>
        /\ edit[e].step \in {"loaded", "stopped"} /\ edit[e].op \in Updates /\ row.exists
        /\ r.op = edit[e].op /\ r.index = edit[e].index /\ r.mine = edit[e].mine
        /\ \E h \in Changed(e) : r.columns = Differing([edit[e].mine EXCEPT !.history = h])
                                    \cup {c \in {"history"} : edit[e].op = "edit"}
    /\ r.op = "delete" => row' = Gone

LEMMA GetRowIs ==
    ASSUME NEW n \in Nat, TypedTo(n), NEW e \in Edits, GetRow(e)
    PROVE  \E r : edit' = [edit EXCEPT ![e] = r] /\ EditCase(e, r)
<1>1. edit \in [Edits -> EditTo(n)] /\ edit[e] \in EditFields(n) /\ edit[e] \in EditTo(n)
  BY DEF TypedTo, EditTo
<1>2. edit[e].step \in {"loaded", "stopped"} /\ edit[e].op \in Updates
  BY <1>1 DEF GetRow, EditTo, Updates
<1>3. CASE Done(e)
  <2>1. EditCase(e, Ended)
    BY <1>2 DEF EditCase, EditRecord, Ended, NewEdit
  <2> QED BY <1>3, <2>1 DEF Done, Ended
<1>4. ASSUME row.exists, NEW h \in Changed(e),
             edit' = [edit EXCEPT ![e].step = "got",
                                  ![e].columns = Differing([edit[e].mine EXCEPT !.history = h])
                                      \cup {c \in {"history"} : edit[e].op = "edit"}]
      PROVE  \E r : edit' = [edit EXCEPT ![e] = r] /\ EditCase(e, r)
  <2> DEFINE columns == Differing([edit[e].mine EXCEPT !.history = h])
                           \cup {c \in {"history"} : edit[e].op = "edit"}
             r == [edit[e] EXCEPT !.step = "got", !.columns = columns]
  <2>1. columns \in SUBSET Columns
    BY DEF Differing, Columns
  <2>2. edit' = [edit EXCEPT ![e] = r]
    BY <1>1, <1>4
  <2>3. \E g \in Changed(e) : columns = Differing([edit[e].mine EXCEPT !.history = g])
                                          \cup {c \in {"history"} : edit[e].op = "edit"}
    OBVIOUS
  <2> HIDE DEF columns
  <2>7. EditRecord(e, r)
    BY <2>1 DEF EditRecord
  <2>4. /\ r.step = "got" /\ r.op = edit[e].op /\ r.index = edit[e].index /\ r.mine = edit[e].mine
        /\ r.columns = columns
    BY <1>1, <2>1 DEF EditFields
  <2>5. r.op # "delete"
    BY <1>2, <2>4 DEF Updates
  <2> HIDE DEF r
  <2>6. EditCase(e, r)
    BY <1>2, <1>4, <2>3, <2>4, <2>5, <2>7 DEF EditCase
  <2> QED BY <2>2, <2>6
<1> QED BY <1>3, <1>4 DEF GetRow

LEMMA LoadsIs ==
    ASSUME NEW n \in Nat, TypedTo(n), NEW e \in Edits, LoadEdit(e) \/ LoadOther(e)
    PROVE  \E r : edit' = [edit EXCEPT ![e] = r] /\ EditCase(e, r)
<1>1. edit[e].step = "new" /\ row.exists
  BY DEF LoadEdit, LoadOther
<1>2. ASSUME NEW op \in Ops \ {"delete"}, NEW index \in IndicesOf(row.history) \cup {NoIndex},
             op \in {"remove", "clear", "edit", "finish"} => Unfinished(row),
             op \in {"remove", "edit"} => index # NoIndex, Loads(e, op, index)
      PROVE  \E r : edit' = [edit EXCEPT ![e] = r] /\ EditCase(e, r)
  <2> DEFINE r == [NewEdit EXCEPT !.step = "loaded", !.op = op, !.index = index, !.mine = row]
  <2>1. EditRecord(e, r)
    BY DEF EditRecord
  <2>2. r.step = "loaded" /\ r.op = op /\ r.index = index /\ r.mine = row
    BY DEF NewEdit
  <2>3. edit' = [edit EXCEPT ![e] = r]
    BY <1>2 DEF Loads
  <2> HIDE DEF r
  <2>4. EditCase(e, r)
    BY <1>1, <1>2, <2>1, <2>2 DEF EditCase
  <2> QED BY <2>3, <2>4
<1>3. CASE Done(e)
  <2>1. EditCase(e, Ended)
    BY <1>1 DEF EditCase, EditRecord, Ended, NewEdit
  <2> QED BY <1>3, <2>1 DEF Done, Ended
<1>4. CASE LoadEdit(e)
  <2>1. \A index \in IndicesOf(row.history) : index # NoIndex
    BY NextIndex DEF TypedTo, NoIndex
  <2>2. \A op \in {"remove", "clear", "edit"} : op \in Ops \ {"delete"}
    BY DEF Ops, Updates
  <2>3. \/ \E op \in {"remove", "clear", "edit"} : \E index \in IndicesOf(row.history) :
              Unfinished(row) /\ Loads(e, op, index)
        \/ Done(e)
    BY <1>4 DEF LoadEdit
  <2> QED BY <1>2, <1>3, <2>1, <2>2, <2>3
<1>5. CASE LoadOther(e)
  <2>1. \/ \E op \in {"abort", "settings", "settle"} : Loads(e, op, NoIndex)
        \/ Unfinished(row) /\ Loads(e, "finish", NoIndex)
        \/ Done(e)
    BY <1>5 DEF LoadOther
  <2>2. \A op \in {"abort", "settings", "settle", "finish"} : op \in Ops \ {"delete"}
    BY DEF Ops, Updates
  <2> QED BY <1>2, <1>3, <2>1, <2>2
<1> QED BY <1>4, <1>5

LEMMA EditCases ==
    ASSUME NEW n \in Nat, TypedTo(n), NEW e \in Edits, EditStep(e)
    PROVE  \E r : edit' = [edit EXCEPT ![e] = r] /\ EditCase(e, r)
<1>1. edit \in [Edits -> EditTo(n)] /\ edit[e] \in EditFields(n) /\ edit[e] \in EditTo(n)
  BY DEF TypedTo, EditTo
<1>2. ASSUME Done(e), edit[e].step # "done"
      PROVE  \E r : edit' = [edit EXCEPT ![e] = r] /\ EditCase(e, r)
  <2>1. EditCase(e, Ended)
    BY <1>2 DEF EditCase, EditRecord, Ended, NewEdit
  <2> QED BY <1>2, <2>1 DEF Done, Ended
<1>3. CASE Stop(e)
  <2>1. edit[e].step = "loaded" /\ edit[e].op = "abort"
    BY <1>3 DEF Stop, Loaded
  <2>2. CASE edit' = [edit EXCEPT ![e].step = "stopped"]
    <3> DEFINE r == [edit[e] EXCEPT !.step = "stopped"]
    <3>1. edit' = [edit EXCEPT ![e] = r]
      BY <1>1, <2>2
    <3>2. r.step = "stopped" /\ r.op = "abort" /\ EditRecord(e, r)
      BY <1>1, <2>1 DEF EditFields, EditRecord
    <3> HIDE DEF r
    <3>3. EditCase(e, r)
      BY <2>1, <3>2 DEF EditCase
    <3> QED BY <3>1, <3>3
  <2> QED BY <1>2, <1>3, <2>1, <2>2 DEF Stop
<1>4. CASE Write(e) \/ Finish(e) \/ Settle(e)
  BY <1>2, <1>4 DEF Write, Finish, Settle, Loaded
<1>5. CASE Delete(e)
  <2> DEFINE r == [NewEdit EXCEPT !.step = "done", !.op = "delete"]
  <2>1. edit' = [edit EXCEPT ![e] = r] /\ edit[e].step = "new" /\ row' = Gone
    BY <1>5 DEF Delete
  <2>2. r.step = "done" /\ EditRecord(e, r)
    BY DEF NewEdit, EditRecord
  <2> HIDE DEF r
  <2>3. EditCase(e, r)
    BY <2>1, <2>2 DEF EditCase
  <2> QED BY <2>1, <2>3
<1> QED BY <1>3, <1>4, <1>5, LoadsIs, GetRowIs DEF EditStep

LEMMA RecordTyped ==
    ASSUME NEW n \in Nat, TypedTo(n), NEW e \in Edits, NEW r, EditCase(e, r)
    PROVE  r \in EditTo(n)
<1>1. edit[e] \in EditFields(n) /\ edit[e] \in EditTo(n) /\ row \in RowTo(n)
  BY DEF TypedTo, EditTo
<1>2. CASE r \in {Ended, [NewEdit EXCEPT !.step = "done", !.op = "delete"]}
  BY <1>2, FreshTyped DEF Ended
<1>3. CASE r = [edit[e] EXCEPT !.step = "stopped"]
  <2>1. /\ r \in EditFields(n) /\ r.step = "stopped" /\ r.op = edit[e].op /\ r.mine = edit[e].mine
    BY <1>1, <1>3 DEF EditFields
  <2> QED BY <1>1, <2>1 DEF EditCase, EditTo
<1>4. ASSUME NEW op \in Ops, NEW index \in IndicesOf(row.history) \cup {NoIndex},
             r = [NewEdit EXCEPT !.step = "loaded", !.op = op, !.index = index, !.mine = row]
      PROVE  r \in EditTo(n)
  <2>1. index \in (0..n) \cup {NoIndex}
    BY <1>1, NextIndex
  <2>2. r \in EditFields(n) /\ r.step = "loaded" /\ r.op = op /\ r.index = index /\ r.mine = row
    BY <1>1, <1>4, <2>1 DEF NewEdit, EditFields
  <2> QED BY <2>2 DEF EditCase, EditTo
<1>5. ASSUME NEW columns \in SUBSET Columns, r = [edit[e] EXCEPT !.step = "got", !.columns = columns]
      PROVE  r \in EditTo(n)
  <2>1. /\ r \in EditFields(n) /\ r.step = "got" /\ r.op = edit[e].op /\ r.mine = edit[e].mine
        /\ r.index = edit[e].index
    BY <1>1, <1>5 DEF EditFields
  <2>2. edit[e].step \in {"loaded", "stopped"} /\ edit[e].op \in Updates
        /\ (r.op = "edit" => "history" \in r.columns)
    BY <2>1 DEF EditCase
  <2>3. edit[e].step = "stopped" => edit[e].op = "abort"
    BY <1>1 DEF EditTo
  <2>4. edit[e].op \in {"remove", "edit"} => edit[e].index # NoIndex
    BY <1>1, <2>2, <2>3 DEF EditTo
  <2>5. edit[e].mine.exists
    BY <1>1, <2>2 DEF EditTo
  <2>6. r.op # "delete"
    BY <2>1, <2>2 DEF Updates
  <2> QED BY <2>1, <2>2, <2>4, <2>5, <2>6 DEF EditTo
<1> QED BY <1>2, <1>3, <1>4, <1>5 DEF EditCase, EditRecord

LEMMA ChangedTyped ==
    ASSUME NEW n \in Nat, TypedTo(n), NEW e \in Edits, edit[e].step \in {"got"}, NEW h \in Changed(e)
    PROVE  h \in Seq(EntryTo(n))
<1>1. edit[e] \in EditTo(n) /\ edit[e] \in EditFields(n)
  BY DEF TypedTo, EditTo
<1>2. edit[e].mine.history \in Seq(EntryTo(n))
  BY <1>1, RowParts DEF EditFields
<1>3. edit[e].op = "remove" => edit[e].index \in 0..n
  BY <1>1 DEF EditTo, EditFields
<1>4. CASE edit[e].op = "abort"
  BY <1>2, <1>4, MarkedTyped DEF Changed
<1>5. CASE edit[e].op = "remove"
  BY <1>2, <1>3, <1>5, WithoutTyped DEF Changed
<1>6. CASE edit[e].op = "clear"
  BY <1>6, EmptySeq DEF Changed
<1>7. CASE edit[e].op = "edit"
  BY <1>2, <1>7, EditedTyped DEF Changed
<1>8. CASE edit[e].op \notin {"abort", "remove", "clear", "edit"}
  BY <1>2, <1>8 DEF Changed
<1> QED BY <1>4, <1>5, <1>6, <1>7, <1>8

\* The second half of an update() that finds the row.
Written(e, h) ==
    /\ h \in Changed(e)
    /\ row'.exists
    /\ row'.history = IF "history" \in edit[e].columns THEN h ELSE row.history
    /\ row'.finished = IF "finished" \in edit[e].columns THEN edit[e].mine.finished ELSE row.finished
    /\ slips' = slips \cup SlipsOf(edit[e].mine, edit[e].columns)
                      \cup {s \in {"disturbed"} : Disturbs(e)}
LEMMA WriteIs ==
    ASSUME NEW n \in Nat, TypedTo(n), NEW e \in Edits, Write(e)
    PROVE  /\ row' \in RowTo(n) /\ slips' \subseteq Slips /\ removed' \subseteq Turns
           /\ UNCHANGED <<turn, registered, finishes, late, saved>>
           /\ \/ UNCHANGED <<row, slips, removed>>
              \/ /\ \E h : Written(e, h)
                 /\ row.exists
                 /\ IF edit[e].op \in {"remove", "clear"} THEN GoneWith(row') ELSE UNCHANGED removed
<1>1. /\ edit[e].step = "got" /\ edit[e].mine \in RowTo(n) /\ row \in RowTo(n) /\ slips \subseteq Slips
      /\ removed \subseteq Turns /\ saved \subseteq Turns
  BY DEF Write, TypedTo, EditTo, EditFields
<1>2. CASE ~row.exists
  BY <1>1, <1>2 DEF Write
<1>3. ASSUME row.exists, NEW h \in Changed(e), Len(h) <= MaxEntries,
             row' = Flushed([edit[e].mine EXCEPT !.history = h], edit[e].columns)
      PROVE  row' \in RowTo(n) /\ slips' \subseteq Slips /\ Written(e, h)
  <2>1. h \in Seq(EntryTo(n))
    BY <1>1, ChangedTyped
  <2> DEFINE new == [edit[e].mine EXCEPT !.history = h]
  <2>2. new.finished = edit[e].mine.finished /\ new.history = h /\ edit[e].mine.finished \in BOOLEAN
    BY <1>1 DEF RowTo
  <2> HIDE DEF new
  <2>3. /\ Flushed(new, edit[e].columns) \in RowTo(n) /\ Flushed(new, edit[e].columns).exists
        /\ Flushed(new, edit[e].columns).history
             = IF "history" \in edit[e].columns THEN h ELSE row.history
        /\ Flushed(new, edit[e].columns).finished
             = IF "finished" \in edit[e].columns THEN edit[e].mine.finished ELSE row.finished
    BY <1>1, <1>3, <2>1, <2>2, FlushedTyped
  <2>4. slips' = slips \cup SlipsOf(edit[e].mine, edit[e].columns)
                      \cup {s \in {"disturbed"} : Disturbs(e)}
    BY <1>3 DEF Write
  <2>5. slips' \subseteq Slips
    BY <1>1, <2>4 DEF SlipsOf, Slips
  <2> QED BY <1>3, <2>3, <2>4, <2>5 DEF Written, new
<1>4. CASE row.exists
  <2>1. \E h \in Changed(e) :
           /\ Len(h) <= MaxEntries
           /\ row' = Flushed([edit[e].mine EXCEPT !.history = h], edit[e].columns)
    BY <1>4 DEF Write
  <2>2. IF edit[e].op \in {"remove", "clear"} THEN GoneWith(row') ELSE UNCHANGED removed
    BY <1>4 DEF Write
  <2>3. removed' \subseteq Turns
    BY <1>1, <2>2 DEF GoneWith
  <2> QED BY <1>3, <1>4, <2>1, <2>2, <2>3 DEF Write
<1> QED BY <1>2, <1>4

\* Finish, settle and delete change the row at once.
LEMMA AtOnceTyped ==
    ASSUME NEW n \in Nat, TypedTo(n), NEW e \in Edits, Finish(e) \/ Settle(e) \/ Delete(e)
    PROVE  /\ row' \in RowTo(n) /\ finishes' \in Nat /\ removed' \subseteq Turns
           /\ UNCHANGED <<turn, registered, slips, late, saved>>
           /\ Settle(e) => row'.history = Settled(row.history, SettledBy(e))
                           /\ row'.finished = row.finished /\ row'.exists = row.exists
           /\ Finish(e) => row'.history = row.history
<1>1. row \in RowTo(n) /\ finishes \in Nat /\ removed \subseteq Turns /\ saved \subseteq Turns
  BY DEF TypedTo
<1>2. CASE Finish(e)
  <2>1. row.exists => [row EXCEPT !.finished = TRUE] \in RowTo(n)
                      /\ [row EXCEPT !.finished = TRUE].history = row.history
    BY <1>1 DEF RowTo
  <2>2. ~Settle(e)
    BY <1>2 DEF Finish, Settle, Loaded
  <2>3. /\ UNCHANGED <<turn, registered, slips, late, saved, removed>>
        /\ \/ row.exists /\ row' = [row EXCEPT !.finished = TRUE] /\ finishes' = finishes + 1
           \/ UNCHANGED <<row, finishes>>
    BY <1>2 DEF Finish
  <2>4. row' \in RowTo(n) /\ row'.history = row.history
    BY <1>1, <2>1, <2>3
  <2>5. finishes' \in Nat
    BY <1>1, <2>3
  <2> QED BY <1>1, <2>2, <2>3, <2>4, <2>5
<1>3. CASE Settle(e)
  <2> DEFINE g == Settled(row.history, SettledBy(e))
  <2>1. g \in Seq(EntryTo(n)) /\ Len(g) <= MaxEntries
    BY <1>1, RowParts, SettledTyped
  <2>2. row.history = <<>> => g = <<>>
    BY DEF Settled
  <2> HIDE DEF g
  <2>3. /\ [row EXCEPT !.history = g] \in RowTo(n)
        /\ [row EXCEPT !.history = g].history = g
        /\ [row EXCEPT !.history = g].finished = row.finished
        /\ [row EXCEPT !.history = g].exists = row.exists
    BY <1>1, <2>1, <2>2 DEF RowTo
  <2>4. row' = [row EXCEPT !.history = g] /\ UNCHANGED <<turn, registered, finishes, slips, late, saved, removed>>
    BY <1>3 DEF Settle, g
  <2>5. ~Finish(e)
    BY <1>3 DEF Settle, Finish, Loaded
  <2> QED BY <1>1, <2>3, <2>4, <2>5 DEF g
<1>4. CASE Delete(e)
  <2>1. ~Settle(e) /\ ~Finish(e)
    BY <1>4 DEF Delete, Settle, Finish, Loaded
  <2> QED BY <1>1, <1>4, <2>1, GoneTyped DEF Delete, GoneWith
<1> QED BY <1>2, <1>3, <1>4

\* An abort marks turns; nothing else of a turn changes.
Marked ==
    \A t \in Turns : turn'[t] = turn[t] \/ turn'[t] = [turn[t] EXCEPT !.aborted = TRUE]
LEMMA StopIs ==
    ASSUME NEW n \in Nat, TypedTo(n), NEW e \in Edits, Stop(e)
    PROVE  /\ UNCHANGED <<row, finishes, slips, late, saved, removed>> /\ registered' = {}
           /\ turn' \in [Turns -> TurnTo(n)] /\ Marked
<1>1. turn \in [Turns -> TurnTo(n)]
  BY DEF TypedTo
<1>2. \A t \in Turns : [turn[t] EXCEPT !.aborted = TRUE] \in TurnTo(n)
  <2> SUFFICES ASSUME NEW t \in Turns PROVE [turn[t] EXCEPT !.aborted = TRUE] \in TurnTo(n)
    OBVIOUS
  <2>1. turn[t] \in TurnTo(n) /\ turn[t] \in TurnFields(n)
    BY <1>1 DEF TurnTo
  <2> DEFINE r == [turn[t] EXCEPT !.aborted = TRUE]
  <2>2. /\ r \in TurnFields(n) /\ r.step = turn[t].step /\ r.index = turn[t].index
        /\ r.columns = turn[t].columns /\ r.persisted = turn[t].persisted
    BY <2>1 DEF TurnFields
  <2> HIDE DEF r
  <2>3. r \in TurnTo(n)
    BY <2>1, <2>2 DEF TurnTo
  <2> QED BY <2>3 DEF r
<1>3. PICK open : turn' = [t \in Turns |-> IF t \in open THEN [turn[t] EXCEPT !.aborted = TRUE] ELSE turn[t]]
  BY DEF Stop
<1>4. turn' \in [Turns -> TurnTo(n)] /\ Marked
  BY <1>1, <1>2, <1>3 DEF Marked
<1> QED BY <1>4 DEF Stop

LEMMA EditTyped ==
    ASSUME NEW n \in Nat, TypedTo(n), NEW e \in Edits, EditStep(e)
    PROVE  TypedTo(n)'
<1>1. PICK r : edit' = [edit EXCEPT ![e] = r] /\ EditCase(e, r)
  BY EditCases
<1>2. edit' \in [Edits -> EditTo(n)]
  BY <1>1, RecordTyped DEF TypedTo
<1>3. CASE LoadEdit(e) \/ LoadOther(e) \/ GetRow(e)
  BY <1>2, <1>3 DEF LoadEdit, LoadOther, GetRow, TypedTo
<1>4. CASE Stop(e)
  BY <1>2, <1>4, StopIs DEF TypedTo
<1>5. CASE Write(e)
  BY <1>2, <1>5, WriteIs DEF TypedTo
<1>6. CASE Finish(e) \/ Settle(e) \/ Delete(e)
  BY <1>2, <1>6, AtOnceTyped DEF TypedTo
<1> QED BY <1>3, <1>4, <1>5, <1>6 DEF EditStep

LEMMA TypedStep ==
    ASSUME NEW n \in Nat, TypedTo(n), [Next]_vars
    PROVE  TypedTo(n + 1)'
<1>1. n + 1 \in Nat /\ n <= n + 1
  OBVIOUS
<1>2. CASE UNCHANGED vars
  <2>1. TypedTo(n)'
    BY <1>2 DEF vars, TypedTo
  <2> QED BY <1>1, <2>1, Widen
<1>3. ASSUME NEW e \in Edits, EditStep(e) PROVE TypedTo(n + 1)'
  BY <1>1, <1>3, EditTyped, Widen
<1> QED BY <1>2, <1>3, TurnTyped DEF Next

LEMMA TypeStep == TypeInv /\ [Next]_vars => TypeInv'
<1> SUFFICES ASSUME NEW n \in Nat, TypedTo(n), [Next]_vars PROVE TypeInv'
  BY DEF TypeInv
<1>1. TypedTo(n + 1)'
  BY TypedStep
<1> QED BY <1>1 DEF TypeInv

LEMMA TypeInvTypes == TypeInv => TypeOK
<1> SUFFICES ASSUME NEW n \in Nat, TypedTo(n) PROVE TypeOK
  BY DEF TypeInv
<1>1. EntryTo(n) \subseteq Entry
  <2>1. 0..n \subseteq Indices
    BY DEF Indices
  <2> QED BY <2>1 DEF EntryTo, Entry
<1>2. ASSUME NEW r \in RowTo(n) PROVE IsRow(r)
  <2>1. r.history \in Seq(Entry)
    BY <1>1, RowParts, SeqMonotonic
  <2> QED BY <2>1 DEF RowTo, IsRow
<1>3. ASSUME NEW t \in Turns
      PROVE  /\ turn[t].step \in {"new", "begun", "prompt", "promptGot", "running", "answer", "answerGot",
                                  "over"}
             /\ turn[t].index \in Indices \cup {NoIndex}
             /\ {turn[t].streamed, turn[t].persisted, turn[t].aborted, turn[t].retried} \subseteq BOOLEAN
             /\ IsRow(turn[t].mine) /\ turn[t].columns \subseteq Columns
  <2>1. turn[t] \in TurnFields(n)
    BY DEF TypedTo, TurnTo
  <2> QED BY <1>2, <2>1 DEF TurnFields, Indices
<1>4. ASSUME NEW e \in Edits
      PROVE  /\ edit[e].step \in {"new", "loaded", "stopped", "got", "done"}
             /\ edit[e].op \in Ops \cup {"none"}
             /\ edit[e].index \in Indices \cup {NoIndex}
             /\ IsRow(edit[e].mine) /\ edit[e].columns \subseteq Columns
  <2>1. edit[e] \in EditFields(n)
    BY DEF TypedTo, EditTo
  <2> QED BY <1>2, <2>1 DEF EditFields, Indices
<1> QED BY <1>2, <1>3, <1>4 DEF TypedTo, TypeOK

\* The row, the copies and the requests keep their types, however many
\* requests load, re-read and write the conversation at once.
THEOREM HistoryTypeCorrect == Spec => []TypeOK
BY TypedInit, TypeStep, TypeInvTypes, PTL DEF Spec

-----------------------------------------------------------------------------
(* What is stored, and what it is about *)

\* Marking and settling leave what the entries are about.
Kin(g, h) ==
    /\ DOMAIN g = DOMAIN h
    /\ \A i \in DOMAIN h :
        /\ g[i].turn = h[i].turn /\ g[i].index = h[i].index /\ g[i].text = h[i].text
        /\ g[i].progress => h[i].progress
        /\ ~h[i].progress => g[i].status = h[i].status

LEMMA MarkedKin ==
    ASSUME NEW n \in Nat, NEW h \in Seq(EntryTo(n))
    PROVE  Kin(MarkInterrupted(h), h)
<1>1. CASE MarkInterrupted(h) = h
  BY <1>1 DEF Kin
<1>2. CASE /\ h # <<>> /\ h[Len(h)].progress
           /\ MarkInterrupted(h) = [h EXCEPT ![Len(h)] = [[h[Len(h)] EXCEPT !.progress = FALSE]
                                                            EXCEPT !.status = "interrupted"]]
  <2>1. Len(h) \in DOMAIN h /\ \A i \in DOMAIN h : h[i] \in EntryTo(n)
    BY <1>2, EmptySeq, LenProperties, ElementOfSeq
  <2> DEFINE m == [[h[Len(h)] EXCEPT !.progress = FALSE] EXCEPT !.status = "interrupted"]
  <2>2. m.turn = h[Len(h)].turn /\ m.index = h[Len(h)].index /\ m.text = h[Len(h)].text /\ ~m.progress
    BY <2>1 DEF EntryTo
  <2> HIDE DEF m
  <2>3. MarkInterrupted(h) = [h EXCEPT ![Len(h)] = m]
    BY <1>2 DEF m
  <2> QED BY <1>2, <2>1, <2>2, <2>3 DEF Kin
<1> QED BY <1>1, <1>2, MarkedIs

LEMMA SettledKin ==
    ASSUME NEW n \in Nat, NEW h \in Seq(EntryTo(n)), NEW turns
    PROVE  Kin(Settled(h, turns), h)
<1>1. ASSUME NEW i \in DOMAIN h
      PROVE  /\ Settled(h, turns)[i] = IF h[i].turn \in turns /\ ~h[i].progress
                                       THEN [h[i] EXCEPT !.pending = FALSE] ELSE h[i]
             /\ h[i] \in EntryTo(n)
  BY LenProperties, ElementOfSeq DEF Settled
<1>2. ASSUME NEW m \in EntryTo(n), NEW k, k = [m EXCEPT !.pending = FALSE] \/ k = m
      PROVE  /\ k.turn = m.turn /\ k.index = m.index /\ k.text = m.text
             /\ k.progress = m.progress /\ k.status = m.status
  BY <1>2 DEF EntryTo
<1>3. DOMAIN Settled(h, turns) = DOMAIN h
  BY DEF Settled
<1> QED BY <1>1, <1>2, <1>3 DEF Kin

LEMMA KinAnswers ==
    ASSUME NEW r, NEW q, Kin(r.history, q.history)
    PROVE  Answers(r) = Answers(q)
BY DEF Kin, Answers

\* What a save says of the row it replaces.
LEMMA StoredSlips ==
    ASSUME NEW n \in Nat, TypedTo(n), NEW t \in Turns, NEW entry \in EntryTo(n), Stored(t, entry)
    PROVE  /\ "reopened" \notin slips' => row'.finished = row.finished
           /\ "overwritten" \notin slips' => row.history = turn[t].mine.history
           /\ slips \subseteq slips'
<1>1. turn[t] \in TurnTo(n) /\ turn[t].mine \in RowTo(n) /\ row \in RowTo(n)
      /\ (turn[t].step \in {"promptGot", "answerGot"} => "history" \in turn[t].columns)
  BY DEF TypedTo, TurnTo, TurnFields
<1>2. Added(t, entry).finished = turn[t].mine.finished
  BY <1>1 DEF Added, RowTo
<1>3. CASE /\ turn[t].mine.exists /\ row.exists /\ turn[t].step \in {"promptGot", "answerGot"}
           /\ row' = Flushed(Added(t, entry), turn[t].columns)
           /\ slips' = slips \cup SlipsOf(turn[t].mine, turn[t].columns)
  <2>1. row'.finished = IF "finished" \in turn[t].columns THEN turn[t].mine.finished ELSE row.finished
    BY <1>2, <1>3 DEF Flushed
  <2> QED BY <1>1, <1>3, <2>1 DEF SlipsOf
<1>4. CASE /\ ~turn[t].mine.exists /\ ~row.exists
           /\ row' = [Added(t, entry) EXCEPT !.exists = TRUE]
           /\ UNCHANGED slips
  <2>1. row'.finished = Added(t, entry).finished
    <3> HIDE DEF Added
    <3>1. DOMAIN Added(t, entry) = {"exists", "finished", "history"}
      BY <1>1 DEF Added, RowTo
    <3> QED BY <1>4, <3>1
  <2>2. ~row.finished /\ ~turn[t].mine.finished /\ row.history = <<>> /\ turn[t].mine.history = <<>>
    BY <1>1, <1>4 DEF RowTo
  <2>3. row.finished \in BOOLEAN /\ turn[t].mine.finished \in BOOLEAN
    BY <1>1, RowParts
  <2> QED BY <1>2, <1>4, <2>1, <2>2, <2>3
<1> QED BY <1>3, <1>4 DEF Stored

-----------------------------------------------------------------------------
(* Finished once *)

\* As long as no copy's mark was written over the row's, the row counts its finish.
FinishCounted == "reopened" \notin slips => finishes = IF row.finished THEN 1 ELSE 0
FinishInv == TypeInv /\ FinishCounted

LEMMA FinishInit == Init => FinishInv
BY TypedInit DEF Init, FinishInv, FinishCounted, Gone

\* The mark of the row changes with the count, or a copy's mark is written over it.
LEMMA CountedStep ==
    ASSUME NEW n \in Nat, TypedTo(n), [Next]_vars
    PROVE  /\ slips \subseteq slips'
           /\ \/ UNCHANGED finishes /\ ("reopened" \notin slips' => row'.finished = row.finished)
              \/ ~row.finished /\ row'.finished /\ finishes' = finishes + 1
              \/ ~row'.finished /\ finishes' = 0
<1>1. row \in RowTo(n) /\ row.finished \in BOOLEAN /\ (row.finished => row.exists)
  <2>1. row \in RowTo(n)
    BY DEF TypedTo
  <2> QED BY <2>1, RowParts DEF RowTo
<1>2. ASSUME NEW t \in Turns, TurnStep(t)
      PROVE  /\ slips \subseteq slips' /\ UNCHANGED finishes
             /\ "reopened" \notin slips' => row'.finished = row.finished
  <2>1. TurnCase(t)
    BY <1>2, TurnCases
  <2>2. PICK r : TurnMoves(t, r)
    BY <2>1 DEF TurnCase
  <2>3. ASSUME NEW entry \in {PromptEntry(t), AnswerEntry(t)}, Stored(t, entry),
               turn[t].step \in {"prompt", "promptGot", "answer", "answerGot"}
        PROVE  slips \subseteq slips' /\ ("reopened" \notin slips' => row'.finished = row.finished)
    <3>1. turn[t].index # NoIndex
      BY <2>3 DEF TypedTo, TurnTo
    <3>2. entry \in EntryTo(n)
      BY <2>3, <3>1, EntriesTyped
    <3> QED BY <2>3, <3>2, StoredSlips
  <2>4. CASE TurnPlaces(t, r) \/ TurnAnswers(t, r)
    BY <2>1, <2>3, <2>4 DEF TurnPlaces, TurnAnswers, TurnCase
  <2>5. CASE TurnBegins(t, r) \/ TurnLoads(t, r) \/ TurnGets(t, r) \/ TurnFails(t, r)
    BY <2>1, <2>5 DEF TurnBegins, TurnLoads, TurnGets, TurnFails, TurnCase
  <2> QED BY <2>2, <2>4, <2>5 DEF TurnMoves
<1>3. ASSUME NEW e \in Edits, EditStep(e)
      PROVE  /\ slips \subseteq slips'
             /\ \/ UNCHANGED finishes /\ ("reopened" \notin slips' => row'.finished = row.finished)
                \/ ~row.finished /\ row'.finished /\ finishes' = finishes + 1
                \/ ~row'.finished /\ finishes' = 0
  <2>1. CASE LoadEdit(e) \/ LoadOther(e) \/ GetRow(e) \/ Stop(e)
    BY <2>1 DEF LoadEdit, LoadOther, GetRow, Stop
  <2>2. CASE Write(e)
    <3>1. ASSUME NEW h, Written(e, h)
          PROVE  slips \subseteq slips' /\ ("reopened" \notin slips' => row'.finished = row.finished)
      BY <3>1 DEF Written, SlipsOf
    <3> QED BY <2>2, <3>1, WriteIs
  <2>3. CASE Finish(e)
    <3>1. [row EXCEPT !.finished = TRUE].finished
      BY <1>1 DEF RowTo
    <3> QED BY <1>1, <2>3, <3>1 DEF Finish
  <2>4. CASE Settle(e)
    BY <2>4, AtOnceTyped DEF Settle
  <2>5. CASE Delete(e)
    BY <2>5 DEF Delete, Gone
  <2> QED BY <1>3, <2>1, <2>2, <2>3, <2>4, <2>5 DEF EditStep
<1>4. CASE UNCHANGED vars
  BY <1>4 DEF vars
<1> QED BY <1>2, <1>3, <1>4 DEF Next

LEMMA FinishStep == FinishInv /\ [Next]_vars => FinishInv'
<1> SUFFICES ASSUME FinishInv, [Next]_vars PROVE FinishInv'
  OBVIOUS
<1>1. PICK n \in Nat : TypedTo(n)
  BY DEF FinishInv, TypeInv
<1>2. row.finished \in BOOLEAN /\ finishes \in Nat
  BY <1>1, RowParts DEF TypedTo
<1>3. FinishCounted'
  <2>1. \/ UNCHANGED finishes /\ ("reopened" \notin slips' => row'.finished = row.finished)
        \/ ~row.finished /\ row'.finished /\ finishes' = finishes + 1
        \/ ~row'.finished /\ finishes' = 0
    BY <1>1, CountedStep
  <2>2. slips \subseteq slips'
    BY <1>1, CountedStep
  <2> QED BY <1>2, <2>1, <2>2 DEF FinishInv, FinishCounted
<1> QED BY <1>3, TypeStep DEF FinishInv

\* The conditional UPDATE finishes a conversation for one request, however
\* many finish it at once and whatever else runs, as long as no copy's mark was
\* written over the row's.
THEOREM FinishedByOneEver == Spec => []FinishedByOne
<1>1. FinishInv => FinishedByOne
  BY DEF FinishInv, FinishCounted, FinishedByOne
<1> QED BY <1>1, FinishInit, FinishStep, PTL DEF Spec

-----------------------------------------------------------------------------
(* A finished conversation keeps its answers *)

\* The guard lets no turn and no removal hold a copy of a finished conversation.
Saving(t) == turn[t].step \in {"prompt", "promptGot", "answer", "answerGot"}
Writing(e) == edit[e].op \in Updates /\ edit[e].step \in {"loaded", "stopped", "got"}
GuardedCopies ==
    /\ \A t \in Turns : Saving(t) => ~turn[t].mine.finished
    /\ \A e \in Edits : Writing(e) /\ edit[e].op \in {"remove", "clear", "edit"}
                           => ~edit[e].mine.finished
GuardInv == TypeInv /\ GuardedCopies

\* The copy a request holds afterwards is the one it held, or the row.
LEMMA TurnCopies ==
    ASSUME NEW n \in Nat, TypedTo(n), NEW t \in Turns, TurnCase(t), NEW u \in Turns, Saving(u)'
    PROVE  \/ Saving(u) /\ turn'[u].mine = turn[u].mine
           \/ turn'[u].mine = row /\ Unfinished(row)
<1>1. PICK r : turn' = [turn EXCEPT ![t] = r] /\ TurnMoves(t, r)
  BY DEF TurnCase
<1>2. turn \in [Turns -> TurnFields(n)] /\ turn[t] \in TurnFields(n)
  BY DEF TypedTo, TurnTo
<1>3. CASE u # t
  BY <1>1, <1>2, <1>3 DEF Saving
<1>4. ASSUME r.step \in {"prompt", "promptGot", "answer", "answerGot"}
      PROVE  \/ Saving(t) /\ r.mine = turn[t].mine
             \/ r.mine = row /\ Unfinished(row)
  <2>1. ~TurnBegins(t, r)
    BY <1>2, <1>4 DEF TurnBegins, TurnFields
  <2>2. r # Over /\ \A retried, persisted : r # Rested(turn[t], retried, persisted)
    BY <1>2, <1>4 DEF Over, NewTurn, Rested, TurnFields
  <2>3. TurnLoads(t, r) \/ TurnGets(t, r)
    BY <1>1, <2>1, <2>2 DEF TurnMoves, TurnFails, TurnPlaces, TurnAnswers
  <2>4. CASE TurnLoads(t, r)
    BY <1>2, <2>4 DEF TurnLoads, TurnFields
  <2>5. CASE TurnGets(t, r)
    BY <1>2, <2>5 DEF TurnGets, TurnFields, Saving
  <2> QED BY <2>3, <2>4, <2>5
<1>5. CASE u = t
  <2>1. turn'[u] = r
    BY <1>1, <1>2, <1>5
  <2> QED BY <1>4, <1>5, <2>1 DEF Saving
<1> QED BY <1>3, <1>5

LEMMA EditCopies ==
    ASSUME NEW n \in Nat, TypedTo(n), NEW e \in Edits, EditStep(e)
    PROVE  /\ \A f \in Edits : Writing(f)' =>
                 \/ Writing(f) /\ edit'[f].mine = edit[f].mine /\ edit'[f].op = edit[f].op
                 \/ /\ edit'[f].mine = row
                    /\ edit'[f].op \in {"remove", "clear", "edit"} => Unfinished(row)
           /\ \A t \in Turns : turn'[t].step = turn[t].step /\ turn'[t].mine = turn[t].mine
<1>1. PICK r : edit' = [edit EXCEPT ![e] = r] /\ EditCase(e, r)
  BY EditCases
<1>2. edit \in [Edits -> EditFields(n)] /\ edit[e] \in EditFields(n)
  BY DEF TypedTo, EditTo
<1>3. ASSUME NEW f \in Edits, Writing(f)'
      PROVE  \/ Writing(f) /\ edit'[f].mine = edit[f].mine /\ edit'[f].op = edit[f].op
             \/ /\ edit'[f].mine = row
                /\ edit'[f].op \in {"remove", "clear", "edit"} => Unfinished(row)
  <2>1. CASE f # e
    <3>1. edit'[f] = edit[f]
      BY <1>1, <1>2, <2>1
    <3> QED BY <1>3, <3>1 DEF Writing
  <2>2. CASE f = e
    <3>1. edit'[f] = r
      BY <1>1, <1>2, <2>2
    <3>2. r.op \in Updates /\ r.step \in {"loaded", "stopped", "got"}
      BY <1>3, <3>1 DEF Writing
    <3>3. CASE r.step = "stopped"
      <4>1. r = [edit[e] EXCEPT !.step = "stopped"]
        BY <1>1, <1>2, <3>3 DEF EditCase, EditRecord, Ended, NewEdit, EditFields
      <4>2. r.mine = edit[e].mine /\ r.op = edit[e].op
        BY <1>2, <4>1 DEF EditFields
      <4> QED BY <1>1, <2>2, <3>1, <3>2, <3>3, <4>2 DEF EditCase, Writing
    <3>4. CASE r.step = "got"
      BY <1>1, <2>2, <3>1, <3>2, <3>4 DEF EditCase, Writing
    <3>5. CASE r.step = "loaded"
      BY <1>1, <2>2, <3>1, <3>5 DEF EditCase
    <3> QED BY <3>2, <3>3, <3>4, <3>5
  <2> QED BY <2>1, <2>2
<1>4. ASSUME NEW t \in Turns
      PROVE  turn'[t].step = turn[t].step /\ turn'[t].mine = turn[t].mine
  <2>1. UNCHANGED turn \/ Stop(e)
    BY DEF EditStep, LoadEdit, LoadOther, GetRow, Write, Finish, Settle, Delete
  <2>2. turn'[t] = turn[t] \/ turn'[t] = [turn[t] EXCEPT !.aborted = TRUE]
    BY <2>1, StopIs DEF Marked
  <2>3. turn[t] \in TurnFields(n)
    BY DEF TypedTo, TurnTo
  <2> QED BY <2>2, <2>3 DEF TurnFields
<1> QED BY <1>3, <1>4

LEMMA GuardInit == Init => GuardInv
BY TypedInit DEF Init, GuardInv, GuardedCopies, Saving, Writing, NewTurn, NewEdit

LEMMA GuardStep == GuardInv /\ [Next]_vars => GuardInv'
<1> SUFFICES ASSUME GuardInv, [Next]_vars PROVE GuardInv'
  OBVIOUS
<1>1. PICK n \in Nat : TypedTo(n)
  BY DEF GuardInv, TypeInv
<1>2. Unfinished(row) => ~row.finished
  <2>1. row \in RowTo(n)
    BY <1>1 DEF TypedTo
  <2> QED BY <2>1 DEF RowTo, Unfinished
<1>3. GuardedCopies'
  <2>1. ASSUME NEW t \in Turns, TurnStep(t) PROVE GuardedCopies'
    <3>1. TurnCase(t)
      BY <1>1, <2>1, TurnCases
    <3>2. UNCHANGED edit
      BY <3>1 DEF TurnCase
    <3>3. \A u \in Turns : Saving(u)' => ~turn'[u].mine.finished
      BY <1>1, <1>2, <3>1, TurnCopies DEF GuardInv, GuardedCopies
    <3> QED BY <3>2, <3>3 DEF GuardInv, GuardedCopies, Writing
  <2>2. ASSUME NEW e \in Edits, EditStep(e) PROVE GuardedCopies'
    <3>1. \A t \in Turns : turn'[t].step = turn[t].step /\ turn'[t].mine = turn[t].mine
      BY <1>1, <2>2, EditCopies
    <3>2. \A f \in Edits : Writing(f)' =>
                 \/ Writing(f) /\ edit'[f].mine = edit[f].mine /\ edit'[f].op = edit[f].op
                 \/ /\ edit'[f].mine = row
                    /\ edit'[f].op \in {"remove", "clear", "edit"} => Unfinished(row)
      BY <1>1, <2>2, EditCopies
    <3> QED BY <1>2, <3>1, <3>2 DEF GuardInv, GuardedCopies, Saving
  <2>3. CASE UNCHANGED vars
    BY <2>3 DEF vars, GuardInv, GuardedCopies, Saving, Writing
  <2> QED BY <2>1, <2>2, <2>3 DEF Next
<1> QED BY <1>3, TypeStep DEF GuardInv

CopiesIs == Copies = {turn[t].mine : t \in {u \in Turns : Saving(u)}}
                       \cup {edit[e].mine : e \in {d \in Edits : Writing(d)}}
LEMMA CopiesAre == CopiesIs /\ CopiesIs'
BY DEF CopiesIs, Copies, Saving, Writing

\* No turn saves into a closed conversation, and nothing is removed from it.
LEMMA ClosedTo ==
    ASSUME NEW n \in Nat, TypedTo(n), GuardedCopies, Closed
    PROVE  /\ \A t \in Turns : ~Saving(t)
           /\ \A e \in Edits : Writing(e) => /\ edit[e].op \in {"abort", "settings"}
                                             /\ edit[e].mine.finished
                                             /\ Answers(edit[e].mine) = Answers(row)
           /\ ~Unfinished(row)
<1>1. \A copy \in Copies : copy.finished /\ Answers(copy) = Answers(row)
  BY DEF Closed
<1>2. ASSUME NEW t \in Turns PROVE ~Saving(t)
  BY <1>1, CopiesAre DEF CopiesIs, GuardedCopies
<1>3. ASSUME NEW e \in Edits, Writing(e)
      PROVE  /\ edit[e].op \in {"abort", "settings"} /\ edit[e].mine.finished
             /\ Answers(edit[e].mine) = Answers(row)
  BY <1>1, <1>3, CopiesAre DEF CopiesIs, GuardedCopies, Writing, Updates
<1> QED BY <1>2, <1>3 DEF Closed, Unfinished

\* An abort's mark and a change of settings keep the answers.
LEMMA QuietChange ==
    ASSUME NEW n \in Nat, TypedTo(n), NEW e \in Edits, edit[e].op \in {"abort", "settings"},
           NEW h \in Changed(e)
    PROVE  Kin(h, edit[e].mine.history)
<1>1. edit[e].mine.history \in Seq(EntryTo(n))
  BY RowParts DEF TypedTo, EditTo, EditFields
<1>2. Kin(edit[e].mine.history, edit[e].mine.history)
  BY DEF Kin
<1> QED BY <1>1, <1>2, MarkedKin DEF Changed

KeepsAnswers == Closed /\ ~Deleted' => Closed' /\ Answers(row') = Answers(row)
LEMMA KeepsAnswersStep == GuardInv /\ [Next]_vars => [KeepsAnswers]_vars
<1> SUFFICES ASSUME GuardInv, [Next]_vars, Closed, ~Deleted'
             PROVE  Closed' /\ Answers(row') = Answers(row)
  BY DEF KeepsAnswers
<1>1. PICK n \in Nat : TypedTo(n)
  BY DEF GuardInv, TypeInv
<1>2. /\ \A t \in Turns : ~Saving(t)
      /\ \A e \in Edits : Writing(e) => /\ edit[e].op \in {"abort", "settings"}
                                        /\ edit[e].mine.finished
                                        /\ Answers(edit[e].mine) = Answers(row)
      /\ ~Unfinished(row)
  BY <1>1, ClosedTo DEF GuardInv
<1>3. row.exists /\ row.finished /\ row \in RowTo(n)
  BY <1>1 DEF Closed, TypedTo
<1>4. ASSUME NEW t \in Turns, TurnStep(t)
      PROVE  /\ UNCHANGED row
             /\ \A c \in Copies' : c \in Copies
  <2>1. TurnCase(t)
    BY <1>1, <1>4, TurnCases
  <2>2. PICK r : TurnMoves(t, r)
    BY <2>1 DEF TurnCase
  <2>3. UNCHANGED row
    BY <1>2, <2>2 DEF TurnMoves, TurnBegins, TurnLoads, TurnGets, TurnFails, TurnPlaces, TurnAnswers,
       Saving
  <2>4. \A u \in Turns : ~Saving(u)'
    BY <1>1, <1>2, <2>1, TurnCopies
  <2>5. \A f \in Edits : (Writing(f)' <=> Writing(f)) /\ edit'[f] = edit[f]
    BY <2>1 DEF TurnCase, Writing
  <2> QED BY <2>3, <2>4, <2>5, CopiesAre DEF CopiesIs
<1>5. ASSUME NEW e \in Edits, EditStep(e)
      PROVE  /\ row'.exists /\ row'.finished /\ Answers(row') = Answers(row)
             /\ \A c \in Copies' : c \in Copies \/ c = row
  <2>1. \A c \in Copies' : c \in Copies \/ c = row
    <3>1. \A t \in Turns : Saving(t)' => Saving(t) /\ turn'[t].mine = turn[t].mine
      BY <1>1, <1>5, EditCopies DEF Saving
    <3>2. \A f \in Edits : Writing(f)' =>
                 \/ Writing(f) /\ edit'[f].mine = edit[f].mine
                 \/ edit'[f].mine = row
      BY <1>1, <1>5, EditCopies
    <3> QED BY <3>1, <3>2, CopiesAre DEF CopiesIs
  <2>2. CASE LoadEdit(e) \/ LoadOther(e) \/ GetRow(e) \/ Stop(e)
    BY <1>3, <2>1, <2>2 DEF LoadEdit, LoadOther, GetRow, Stop
  <2>3. CASE Write(e)
    <3>1. Writing(e)
      BY <1>1, <2>3 DEF Write, Writing, TypedTo, EditTo
    <3>2. ASSUME NEW h, Written(e, h)
          PROVE  row'.exists /\ row'.finished /\ Answers(row') = Answers(row)
      <4>1. Kin(h, edit[e].mine.history)
        BY <1>1, <1>2, <3>1, <3>2, QuietChange DEF Written
      <4>2. row'.exists /\ row'.finished
        BY <1>2, <1>3, <3>1, <3>2 DEF Written
      <4>3. row'.history = h \/ row'.history = row.history
        BY <3>2 DEF Written
      <4>4. ASSUME row'.history = h PROVE Answers(row') = Answers(row)
        <5>1. Answers(row') = Answers(edit[e].mine)
          BY <4>1, <4>4, KinAnswers
        <5> QED BY <1>2, <3>1, <5>1
      <4>5. ASSUME row'.history = row.history PROVE Answers(row') = Answers(row)
        BY <4>5 DEF Answers
      <4> QED BY <4>2, <4>3, <4>4, <4>5
    <3> QED BY <1>1, <1>3, <2>1, <2>3, <3>2, WriteIs
  <2>4. CASE Finish(e)
    BY <1>3, <2>1, <2>4 DEF Finish
  <2>5. CASE Settle(e)
    <3>1. /\ row'.history = Settled(row.history, SettledBy(e))
          /\ row'.finished = row.finished /\ row'.exists = row.exists
      BY <1>1, <2>5, AtOnceTyped
    <3>2. Kin(row'.history, row.history)
      BY <1>3, <3>1, RowParts, SettledKin
    <3> QED BY <1>3, <2>1, <3>1, <3>2, KinAnswers
  <2>6. CASE Delete(e)
    <3>1. edit'[e].op = "delete"
      BY <1>1, <2>6 DEF Delete, TypedTo, NewEdit
    <3> QED BY <3>1 DEF Deleted
  <2> QED BY <1>5, <2>2, <2>3, <2>4, <2>5, <2>6 DEF EditStep
<1>6. ASSUME row'.exists, row'.finished, Answers(row') = Answers(row),
             \A c \in Copies' : c \in Copies \/ c = row
      PROVE  Closed' /\ Answers(row') = Answers(row)
  <2>1. \A c \in Copies' : c.finished /\ Answers(c) = Answers(row)
    BY <1>3, <1>6 DEF Closed
  <2> QED BY <1>6, <2>1 DEF Closed
<1>7. CASE UNCHANGED vars
  <2>1. UNCHANGED <<row, turn, edit>>
    BY <1>7 DEF vars
  <2>2. Copies' = Copies /\ UNCHANGED row
    BY <2>1 DEF Copies
  <2> QED BY <1>3, <1>6, <2>2
<1> QED BY <1>3, <1>4, <1>5, <1>6, <1>7 DEF Next

\* Once a conversation is finished, and every copy that can still be written
\* back is of the finished conversation with its answers, it stays so until it
\* is deleted: the guard keeps turns and removals out, and what may still be
\* written (an abort's mark, settings, settled costs) keeps the answers.
THEOREM FinishedKeepsAnswersEver == Spec => FinishedKeepsAnswers
<1>1. FinishedKeepsAnswers <=> [][KeepsAnswers]_vars
  BY PTL DEF FinishedKeepsAnswers, KeepsAnswers
<1> QED BY <1>1, GuardInit, GuardStep, KeepsAnswersStep, PTL DEF Spec


-----------------------------------------------------------------------------
(* Settling changes only costs *)

\* What _write_settled_turns makes of an entry differs in its pending mark only.
LEMMA SettledAside ==
    ASSUME NEW h, NEW turns
    PROVE  /\ DOMAIN Settled(h, turns) = DOMAIN h
           /\ \A i \in DOMAIN h : [Settled(h, turns)[i] EXCEPT !.pending = FALSE]
                                   = [h[i] EXCEPT !.pending = FALSE]
<1>1. \A m : [[m EXCEPT !.pending = FALSE] EXCEPT !.pending = FALSE] = [m EXCEPT !.pending = FALSE]
  OBVIOUS
<1> QED BY <1>1 DEF Settled

SettleAside ==
    \A e \in Edits : Loaded(e, "settle") /\ edit'[e].step = "done" => CostsAside(row') = CostsAside(row)

LEMMA SettleStep == TypeInv /\ [Next]_vars => [SettleAside]_vars
<1> SUFFICES ASSUME TypeInv, [Next]_vars,
                    NEW e \in Edits, Loaded(e, "settle"), edit'[e].step = "done"
             PROVE  CostsAside(row') = CostsAside(row)
  BY DEF SettleAside
<1>1. PICK n \in Nat : TypedTo(n)
  BY DEF TypeInv
<1>2. edit'[e].step # edit[e].step
  BY DEF Loaded
<1>3. ASSUME NEW t \in Turns, TurnStep(t) PROVE FALSE
  <2>1. UNCHANGED edit
    BY <1>1, <1>3, TurnCases DEF TurnCase
  <2> QED BY <1>2, <2>1
<1>4. PICK f \in Edits : EditStep(f)
  BY <1>2, <1>3 DEF Next, vars
<1>5. f = e
  <2>1. PICK r : edit' = [edit EXCEPT ![f] = r]
    BY <1>1, <1>4, EditCases
  <2>2. edit \in [Edits -> EditTo(n)]
    BY <1>1 DEF TypedTo
  <2> QED BY <1>2, <2>1, <2>2
<1>6. Settle(e)
  BY <1>4, <1>5 DEF EditStep, LoadEdit, LoadOther, Stop, GetRow, Write, Finish, Delete, Loaded, Updates
<1>7. row' = [row EXCEPT !.history = Settled(row.history, SettledBy(e))]
  BY <1>6 DEF Settle
<1> DEFINE h == row.history
           after == Settled(h, SettledBy(e))
<1>8. [i \in DOMAIN after |-> [after[i] EXCEPT !.pending = FALSE]]
        = [i \in DOMAIN h |-> [h[i] EXCEPT !.pending = FALSE]]
  BY SettledAside
<1> QED BY <1>7, <1>8 DEF CostsAside

\* The write of settled costs goes through the row as it is, not as the reader
\* loaded it: whatever was saved since is still there.
THEOREM SettleKeepsTurnsEver == Spec => SettleKeepsTurns
<1>1. SettleKeepsTurns <=> [][SettleAside]_vars
  BY PTL DEF SettleKeepsTurns, SettleAside
<1> QED BY <1>1, TypedInit, TypeStep, SettleStep, PTL DEF Spec


-----------------------------------------------------------------------------
(* Histories and the turns in them *)

\* Nothing of a turn; its placeholder, last of its index, unless the index is
\* gone; an entry of its own last of its index; its answer, once, and no
\* placeholder; an answer of it; no answer in progress.
AbsentIn(h, t) == \A i \in DOMAIN h : h[i].turn # t
PlacedIn(h, t, x) ==
    \A i \in DOMAIN h :
        /\ h[i].turn = t => /\ h[i].index = x /\ h[i].text = ""
                            /\ \A j \in DOMAIN h : h[j].index = x => j <= i
        /\ h[i].index = x => ~AbsentIn(h, t)
OwnLast(h, t, x) == \A k : LastOf(h, x, k) => h[k].turn = t
IsAnswer(m, t) == m.turn = t /\ m.text = "answer"
OnceAt(h, t, k) ==
    /\ k \in DOMAIN h /\ IsAnswer(h[k], t)
    /\ \A i \in DOMAIN h : h[i].turn = t => h[i].text # "" /\ (IsAnswer(h[i], t) => i = k)
OnceIn(h, t) == \E k : OnceAt(h, t, k)
HasAnswer(h, t) == \E k \in DOMAIN h : IsAnswer(h[k], t)
OpenIn(h) == \A i \in DOMAIN h : h[i].progress => h[i].text # "answer"
OutcomeIn(h, t) == {h[i].status : i \in {j \in DOMAIN h : h[j].turn = t /\ h[j].text = "answer"}}

LEMMA KinKeeps ==
    ASSUME NEW g, NEW h, Kin(g, h)
    PROVE  /\ \A t : AbsentIn(h, t) => AbsentIn(g, t)
           /\ \A t, x : PlacedIn(h, t, x) => PlacedIn(g, t, x)
           /\ \A t : OnceIn(h, t) => OnceIn(g, t)
           /\ \A t, x : OwnLast(h, t, x) => OwnLast(g, t, x)
           /\ \A t : HasAnswer(h, t) => HasAnswer(g, t)
           /\ OpenIn(h) => OpenIn(g) /\ \A t : OutcomeIn(g, t) = OutcomeIn(h, t)
<1> USE DEF Kin
<1>6. ASSUME NEW t, NEW x, OwnLast(h, t, x) PROVE OwnLast(g, t, x)
  BY <1>6 DEF OwnLast, LastOf
<1>7. ASSUME NEW t, HasAnswer(h, t) PROVE HasAnswer(g, t)
  BY <1>7 DEF HasAnswer, IsAnswer
<1>1. ASSUME NEW t, AbsentIn(h, t) PROVE AbsentIn(g, t)
  BY <1>1 DEF AbsentIn
<1>2. ASSUME NEW t, NEW x, PlacedIn(h, t, x) PROVE PlacedIn(g, t, x)
  <2>1. AbsentIn(g, t) => AbsentIn(h, t)
    BY DEF AbsentIn
  <2> QED BY <1>2, <2>1 DEF PlacedIn
<1>3. ASSUME NEW t, OnceIn(h, t) PROVE OnceIn(g, t)
  <2>1. PICK k : OnceAt(h, t, k)
    BY <1>3 DEF OnceIn
  <2>2. OnceAt(g, t, k)
    BY <2>1 DEF OnceAt, IsAnswer
  <2> QED BY <2>2 DEF OnceIn
<1>4. ASSUME OpenIn(h) PROVE OpenIn(g)
  BY <1>4 DEF OpenIn
<1>5. ASSUME OpenIn(h), NEW t PROVE OutcomeIn(g, t) = OutcomeIn(h, t)
  <2>1. {j \in DOMAIN g : g[j].turn = t /\ g[j].text = "answer"}
          = {j \in DOMAIN h : h[j].turn = t /\ h[j].text = "answer"}
    OBVIOUS
  <2>2. \A i \in {j \in DOMAIN h : h[j].turn = t /\ h[j].text = "answer"} : g[i].status = h[i].status
    BY <1>5 DEF OpenIn
  <2> QED BY <2>1, <2>2 DEF OutcomeIn
<1> QED BY <1>1, <1>2, <1>3, <1>4, <1>5, <1>6, <1>7

\* A new last entry, with some of the others gone.
Keeps(g, h, entry, out) ==
    /\ \A t : AbsentIn(h, t) /\ entry.turn # t => AbsentIn(g, t)
    /\ \A t, x : (PlacedIn(h, t, x) /\ entry.turn # t /\ entry.index # x
                  /\ \A k \in out : h[k].index # x)
                    => PlacedIn(g, t, x)
    /\ \A t : OnceIn(h, t) /\ entry.turn # t /\ (\A k \in out : h[k].turn # t)
                 => OnceIn(g, t) /\ OutcomeIn(g, t) = OutcomeIn(h, t)
    /\ \A t, x : OwnLast(h, t, x) /\ entry.index # x /\ (\A k \in out : h[k].index # x)
                    => OwnLast(g, t, x)
    /\ OwnLast(g, entry.turn, entry.index)
    /\ \A t : HasAnswer(h, t) /\ (\A k \in out : h[k].turn # t) => HasAnswer(g, t)
    /\ \A t : IsAnswer(entry, t) => HasAnswer(g, t)
    /\ OpenIn(h) /\ (entry.progress => entry.text # "answer") => OpenIn(g)
    /\ \A t : (\A j \in DOMAIN h \ out : h[j].turn # t) /\ IsAnswer(entry, t) => OnceIn(g, t)
    /\ \A t : AbsentIn(h, t) /\ entry.turn = t /\ entry.text = "" => PlacedIn(g, t, entry.index)
LEMMA FollowsKeeps ==
    ASSUME NEW S, NEW h \in Seq(S), NEW g \in Seq(S), Len(g) \in Nat \ {0}, NEW entry,
           g[Len(g)] = entry, NEW out, NEW at, Follows(g, h, out, at)
    PROVE  Keeps(g, h, entry, out)
<1> DEFINE m == Len(g) - 1
<1>1. /\ m \in Nat /\ Len(g) = m + 1
      /\ DOMAIN h = 1..Len(h) /\ Len(h) \in Nat /\ DOMAIN g = 1..(m + 1)
      /\ g[m + 1] = entry
  BY LenProperties
<1>2. /\ \A i \in 1..m : at[i] \in DOMAIN h /\ at[i] \notin out /\ g[i] = h[at[i]]
      /\ \A i, j \in 1..m : i < j => at[i] < at[j]
      /\ \A j \in DOMAIN h \ out : \E i \in 1..m : at[i] = j
  BY DEF Follows
<1> HIDE DEF m
<1>3. \A i \in DOMAIN g : i \in 1..m \/ i = m + 1
  BY <1>1
<1>4. m + 1 \in DOMAIN g /\ \A i \in 1..m : i \in DOMAIN g
  BY <1>1
<1>5. ASSUME NEW t, AbsentIn(h, t), entry.turn # t PROVE AbsentIn(g, t)
  BY <1>1, <1>2, <1>3, <1>5 DEF AbsentIn
<1>6. \A i, j \in 1..m : at[j] <= at[i] => j <= i
  <2> SUFFICES ASSUME NEW i \in 1..m, NEW j \in 1..m, at[j] <= at[i], ~(j <= i) PROVE FALSE
    OBVIOUS
  <2>1. i < j
    BY <1>1
  <2>2. at[i] < at[j] /\ at[i] \in Int /\ at[j] \in Int
    BY <1>1, <1>2, <2>1
  <2> QED BY <2>2
<1>7. ASSUME NEW t, NEW x, PlacedIn(h, t, x), entry.turn # t, entry.index # x,
             \A k \in out : h[k].index # x
      PROVE  PlacedIn(g, t, x)
  <2>1. ASSUME NEW i \in DOMAIN g, g[i].turn = t
        PROVE  /\ g[i].index = x /\ g[i].text = ""
               /\ \A j \in DOMAIN g : g[j].index = x => j <= i
    <3>1. i \in 1..m /\ g[i] = h[at[i]] /\ at[i] \in DOMAIN h
      BY <1>1, <1>2, <1>3, <1>7, <2>1
    <3>2. ASSUME NEW j \in DOMAIN g, g[j].index = x PROVE j <= i
      <4>1. j \in 1..m /\ g[j] = h[at[j]] /\ at[j] \in DOMAIN h
        BY <1>1, <1>2, <1>3, <1>7, <3>2
      <4>2. at[j] <= at[i]
        BY <1>7, <2>1, <3>1, <3>2, <4>1 DEF PlacedIn
      <4> QED BY <1>6, <3>1, <4>1, <4>2
    <3> QED BY <1>7, <2>1, <3>1, <3>2 DEF PlacedIn
  <2>2. ASSUME NEW i \in DOMAIN g, g[i].index = x PROVE ~AbsentIn(g, t)
    <3>1. i \in 1..m /\ g[i] = h[at[i]] /\ at[i] \in DOMAIN h
      BY <1>1, <1>2, <1>3, <1>7, <2>2
    <3>2. PICK j \in DOMAIN h : h[j].turn = t
      BY <1>7, <2>2, <3>1 DEF PlacedIn, AbsentIn
    <3>3. j \notin out
      BY <1>7, <3>2 DEF PlacedIn
    <3>4. PICK l \in 1..m : at[l] = j
      BY <1>2, <3>3
    <3>5. g[l].turn = t
      BY <1>2, <3>2, <3>4
    <3> QED BY <1>4, <3>5 DEF AbsentIn
  <2> QED BY <2>1, <2>2 DEF PlacedIn
<1>8. ASSUME NEW t, OnceIn(h, t), entry.turn # t, \A k \in out : h[k].turn # t
      PROVE  OnceIn(g, t) /\ OutcomeIn(g, t) = OutcomeIn(h, t)
  <2>0. PICK k : OnceAt(h, t, k)
    BY <1>8 DEF OnceIn
  <2>1. /\ k \in DOMAIN h /\ IsAnswer(h[k], t)
        /\ \A i \in DOMAIN h : h[i].turn = t => h[i].text # "" /\ (IsAnswer(h[i], t) => i = k)
    BY <2>0 DEF OnceAt
  <2>2. k \notin out
    BY <1>8, <2>1 DEF IsAnswer
  <2>3. PICK l \in 1..m : at[l] = k
    BY <1>2, <2>1, <2>2
  <2>4. ASSUME NEW i \in DOMAIN g, g[i].turn = t
        PROVE  g[i].text # "" /\ (IsAnswer(g[i], t) => i = l)
    <3>1. i \in 1..m /\ g[i] = h[at[i]] /\ at[i] \in DOMAIN h
      BY <1>1, <1>2, <1>3, <1>8, <2>4
    <3>2. g[i].text # "" /\ (IsAnswer(g[i], t) => at[i] = k)
      BY <2>1, <2>4, <3>1
    <3>3. ASSUME at[i] = k PROVE i = l
      <4>1. at[i] \in Int /\ at[l] = at[i]
        BY <1>1, <2>3, <3>1, <3>3
      <4>2. i <= l /\ l <= i /\ i \in Int /\ l \in Int
        BY <1>1, <1>6, <2>3, <3>1, <4>1
      <4> QED BY <4>2
    <3> QED BY <3>2, <3>3
  <2>5. g[l] = h[k] /\ l \in DOMAIN g
    BY <1>2, <1>4, <2>3
  <2>6. OnceIn(g, t)
    BY <2>1, <2>4, <2>5 DEF OnceIn, OnceAt
  <2>7. {j \in DOMAIN h : h[j].turn = t /\ h[j].text = "answer"} = {k}
    BY <2>1 DEF IsAnswer
  <2>8. {j \in DOMAIN g : g[j].turn = t /\ g[j].text = "answer"} = {l}
    BY <2>1, <2>4, <2>5 DEF IsAnswer
  <2> QED BY <2>5, <2>6, <2>7, <2>8 DEF OutcomeIn
<1>9. ASSUME OpenIn(h), entry.progress => entry.text # "answer" PROVE OpenIn(g)
  BY <1>1, <1>2, <1>3, <1>9 DEF OpenIn
<1>10. ASSUME NEW t, \A j \in DOMAIN h \ out : h[j].turn # t, IsAnswer(entry, t) PROVE OnceIn(g, t)
  <2>1. \A i \in 1..m : g[i].turn # t
    BY <1>2, <1>10
  <2>2. OnceAt(g, t, m + 1)
    BY <1>1, <1>3, <1>4, <1>10, <2>1 DEF OnceAt, IsAnswer
  <2> QED BY <2>2 DEF OnceIn
<1>11. ASSUME NEW t, AbsentIn(h, t), entry.turn = t, entry.text = "" PROVE PlacedIn(g, t, entry.index)
  <2>1. \A i \in 1..m : g[i].turn # t
    BY <1>2, <1>11 DEF AbsentIn
  <2>2. \A i \in DOMAIN g : i <= m + 1
    BY <1>1
  <2>3. ~AbsentIn(g, t)
    BY <1>1, <1>4, <1>11 DEF AbsentIn
  <2> QED BY <1>1, <1>3, <1>11, <2>1, <2>2, <2>3 DEF PlacedIn
<1>12. \A t, x : (PlacedIn(h, t, x) /\ entry.turn # t /\ entry.index # x
                  /\ \A k \in out : h[k].index # x)
                    => PlacedIn(g, t, x)
  BY <1>7
<1>13. \A t : OnceIn(h, t) /\ entry.turn # t /\ (\A k \in out : h[k].turn # t)
                => OnceIn(g, t) /\ OutcomeIn(g, t) = OutcomeIn(h, t)
  BY <1>8
<1>14. \A t : (\A j \in DOMAIN h \ out : h[j].turn # t) /\ IsAnswer(entry, t) => OnceIn(g, t)
  BY <1>10
<1>15. \A t : AbsentIn(h, t) /\ entry.turn = t /\ entry.text = "" => PlacedIn(g, t, entry.index)
  BY <1>11
<1>16. ASSUME NEW t, NEW x, OwnLast(h, t, x), entry.index # x, \A k \in out : h[k].index # x
       PROVE  OwnLast(g, t, x)
  <2> SUFFICES ASSUME NEW k, LastOf(g, x, k) PROVE g[k].turn = t
    BY DEF OwnLast
  <2>1. k \in 1..m /\ g[k] = h[at[k]] /\ at[k] \in DOMAIN h
    BY <1>1, <1>2, <1>3, <1>16 DEF LastOf
  <2>2. ASSUME NEW j \in DOMAIN h, h[j].index = x PROVE j <= at[k]
    <3>1. PICK i \in 1..m : at[i] = j
      BY <1>2, <1>16, <2>2
    <3>2. i <= k
      BY <1>2, <1>4, <2>2, <3>1 DEF LastOf
    <3>3. i = k \/ i < k
      BY <2>1, <3>2
    <3>4. j \in Int /\ at[k] \in Int
      BY <1>1, <2>1
    <3>5. i < k => at[i] < at[k]
      BY <1>2, <2>1
    <3> QED BY <3>1, <3>3, <3>4, <3>5
  <2>3. LastOf(h, x, at[k])
    BY <2>1, <2>2 DEF LastOf
  <2> QED BY <1>16, <2>1, <2>3 DEF OwnLast
<1>17. OwnLast(g, entry.turn, entry.index)
  <2> SUFFICES ASSUME NEW k, LastOf(g, entry.index, k) PROVE k = m + 1
    BY <1>1 DEF OwnLast
  <2>1. k \in 1..(m + 1) /\ m + 1 <= k
    BY <1>1, <1>4 DEF LastOf
  <2> QED BY <1>1, <2>1
<1>18. ASSUME NEW t, HasAnswer(h, t), \A k \in out : h[k].turn # t PROVE HasAnswer(g, t)
  <2>1. PICK k \in DOMAIN h : IsAnswer(h[k], t)
    BY <1>18 DEF HasAnswer
  <2>2. PICK l \in 1..m : at[l] = k
    BY <1>2, <1>18, <2>1 DEF IsAnswer
  <2> QED BY <1>2, <1>4, <2>1, <2>2 DEF HasAnswer
<1>19. ASSUME NEW t, IsAnswer(entry, t) PROVE HasAnswer(g, t)
  BY <1>1, <1>4, <1>19 DEF HasAnswer
<1>20. \A t, x : OwnLast(h, t, x) /\ entry.index # x /\ (\A k \in out : h[k].index # x)
                    => OwnLast(g, t, x)
  BY <1>16
<1>21. \A t : HasAnswer(h, t) /\ (\A k \in out : h[k].turn # t) => HasAnswer(g, t)
  BY <1>18
<1>22. \A t : IsAnswer(entry, t) => HasAnswer(g, t)
  BY <1>19
<1> QED BY <1>5, <1>9, <1>12, <1>13, <1>14, <1>15, <1>17, <1>20, <1>21, <1>22 DEF Keeps

\* Of an index removed, what stays is as it was; an answer that is still there
\* is still there once.
LEMMA LeavesKeeps ==
    ASSUME NEW n \in Nat, NEW h \in Seq(EntryTo(n)), NEW g, NEW x, NEW m \in Nat, NEW at,
           Leaves(g, h, x, m, at)
    PROVE  /\ \A t : AbsentIn(h, t) => AbsentIn(g, t)
           /\ \A t : OnceIn(h, t) /\ (\E i \in DOMAIN g : IsAnswer(g[i], t))
                        => OnceIn(g, t) /\ OutcomeIn(g, t) = OutcomeIn(h, t)
           /\ OpenIn(h) => OpenIn(g)
<1>1. ASSUME NEW i \in DOMAIN g
      PROVE  /\ i \in 1..m /\ at[i] \in DOMAIN h
             /\ g[i].turn = h[at[i]].turn /\ g[i].text = h[at[i]].text
             /\ g[i].progress = h[at[i]].progress /\ g[i].status = h[at[i]].status
  <2>1. i \in 1..m /\ at[i] \in DOMAIN h
        /\ g[i] = [h[at[i]] EXCEPT !.index = IF @ < x THEN @ ELSE @ - 1]
    BY DEF Leaves
  <2>2. h[at[i]] \in EntryTo(n)
    BY <2>1, LenProperties, ElementOfSeq
  <2>3. \A e \in EntryTo(n) : \A y :
                        /\ [e EXCEPT !.index = y].turn = e.turn
                        /\ [e EXCEPT !.index = y].text = e.text
                        /\ [e EXCEPT !.index = y].progress = e.progress
                        /\ [e EXCEPT !.index = y].status = e.status
    BY DEF EntryTo
  <2> QED BY <2>1, <2>2, <2>3
<1>2. \A i, j \in DOMAIN g : at[i] = at[j] => i = j
  BY DEF Leaves
<1>3. ASSUME NEW t, AbsentIn(h, t) PROVE AbsentIn(g, t)
  BY <1>1, <1>3 DEF AbsentIn
<1>4. ASSUME OpenIn(h) PROVE OpenIn(g)
  BY <1>1, <1>4 DEF OpenIn
<1>5. ASSUME NEW t, OnceIn(h, t), NEW l \in DOMAIN g, IsAnswer(g[l], t)
      PROVE  OnceIn(g, t) /\ OutcomeIn(g, t) = OutcomeIn(h, t)
  <2>0. PICK k : OnceAt(h, t, k)
    BY <1>5 DEF OnceIn
  <2>1. /\ k \in DOMAIN h /\ IsAnswer(h[k], t)
        /\ \A i \in DOMAIN h : h[i].turn = t => h[i].text # "" /\ (IsAnswer(h[i], t) => i = k)
    BY <2>0 DEF OnceAt
  <2>2. at[l] = k
    BY <1>1, <1>5, <2>1 DEF IsAnswer
  <2>3. ASSUME NEW i \in DOMAIN g, g[i].turn = t
        PROVE  g[i].text # "" /\ (IsAnswer(g[i], t) => i = l)
    BY <1>1, <1>2, <2>1, <2>2, <2>3 DEF IsAnswer
  <2>4. OnceIn(g, t)
    BY <1>5, <2>3 DEF OnceIn, OnceAt
  <2>5. {j \in DOMAIN h : h[j].turn = t /\ h[j].text = "answer"} = {k}
    BY <2>1 DEF IsAnswer
  <2>6. {j \in DOMAIN g : g[j].turn = t /\ g[j].text = "answer"} = {l}
    BY <1>5, <2>3 DEF IsAnswer
  <2>7. g[l].status = h[k].status
    BY <1>1, <2>2
  <2> QED BY <2>4, <2>5, <2>6, <2>7 DEF OutcomeIn
<1> QED BY <1>3, <1>4, <1>5

\* A variant is not an answer, and belongs to the index of what it copies.
LEMMA EditedKeeps ==
    ASSUME NEW n \in Nat, NEW h \in Seq(EntryTo(n)), NEW i \in DOMAIN h, NEW g, g = WithEdited(h, i)
    PROVE  /\ \A t : AbsentIn(h, t) => AbsentIn(g, t)
           /\ \A t, x : PlacedIn(h, t, x) /\ h[i].index # x => PlacedIn(g, t, x)
           /\ \A t : OnceIn(h, t) => OnceIn(g, t) /\ OutcomeIn(g, t) = OutcomeIn(h, t)
           /\ \A t, x : OwnLast(h, t, x) /\ h[i].index # x => OwnLast(g, t, x)
           /\ \A t : HasAnswer(h, t) => HasAnswer(g, t)
           /\ OpenIn(h) => OpenIn(g)
<1> DEFINE m == [h[i] EXCEPT !.text = "edited"]
<1>1. Len(h) \in Nat /\ DOMAIN h = 1..Len(h) /\ h[i] \in EntryTo(n)
  BY LenProperties, ElementOfSeq
<1>2. m \in EntryTo(n) /\ m.text = "edited" /\ m.turn = h[i].turn /\ m.index = h[i].index
  BY <1>1 DEF EntryTo
<1> HIDE DEF m
<1>3. g = Append(h, m)
  BY DEF WithEdited, m
<1>4. /\ DOMAIN g = 1..(Len(h) + 1) /\ g[Len(h) + 1] = m
      /\ \A j \in 1..Len(h) : g[j] = h[j]
  BY <1>1, <1>2, <1>3, AppendProperties, LenProperties
<1>5. /\ \A j \in DOMAIN g : (j \in DOMAIN h /\ g[j] = h[j]) \/ (j = Len(h) + 1 /\ g[j] = m)
      /\ \A j \in DOMAIN h : j \in DOMAIN g /\ g[j] = h[j]
  BY <1>1, <1>4
<1>6. ASSUME NEW t, AbsentIn(h, t) PROVE AbsentIn(g, t)
  BY <1>2, <1>5, <1>6 DEF AbsentIn
<1>7. ASSUME NEW t, NEW x, PlacedIn(h, t, x), h[i].index # x PROVE PlacedIn(g, t, x)
  <2>1. h[i].turn # t
    BY <1>7 DEF PlacedIn
  <2>2. AbsentIn(g, t) => AbsentIn(h, t)
    BY <1>5 DEF AbsentIn
  <2> QED BY <1>2, <1>5, <1>7, <2>1, <2>2 DEF PlacedIn
<1>8. ASSUME NEW t, OnceIn(h, t) PROVE OnceIn(g, t) /\ OutcomeIn(g, t) = OutcomeIn(h, t)
  <2>0. PICK k : OnceAt(h, t, k)
    BY <1>8 DEF OnceIn
  <2>1. OnceAt(g, t, k)
    BY <1>2, <1>5, <2>0 DEF OnceAt, IsAnswer
  <2>2. {j \in DOMAIN g : g[j].turn = t /\ g[j].text = "answer"}
          = {j \in DOMAIN h : h[j].turn = t /\ h[j].text = "answer"}
    BY <1>2, <1>5
  <2>3. \A j \in {l \in DOMAIN h : h[l].turn = t /\ h[l].text = "answer"} : g[j].status = h[j].status
    BY <1>5
  <2> QED BY <2>1, <2>2, <2>3 DEF OnceIn, OutcomeIn
<1>9. ASSUME OpenIn(h) PROVE OpenIn(g)
  BY <1>2, <1>5, <1>9 DEF OpenIn
<1>10. ASSUME NEW t, NEW x, OwnLast(h, t, x), h[i].index # x PROVE OwnLast(g, t, x)
  <2> SUFFICES ASSUME NEW k, LastOf(g, x, k) PROVE g[k].turn = t
    BY DEF OwnLast
  <2>1. k \in DOMAIN h /\ g[k] = h[k]
    BY <1>2, <1>5, <1>10 DEF LastOf
  <2>2. LastOf(h, x, k)
    BY <1>5, <2>1 DEF LastOf
  <2> QED BY <1>10, <2>1, <2>2 DEF OwnLast
<1>11. ASSUME NEW t, HasAnswer(h, t) PROVE HasAnswer(g, t)
  BY <1>5, <1>11 DEF HasAnswer, IsAnswer
<1> QED BY <1>6, <1>7, <1>8, <1>9, <1>10, <1>11

-----------------------------------------------------------------------------
(* Answers are kept *)

\* A request that has loaded the row for an index, or has its placeholder there:
\* until its end no other one under way does so for that index.
Holding(t) == Saving(t) \/ turn[t].persisted
Begun(t) == turn[t].step = "new" \/ UnderWay(t)
TurnsInOrder ==
    /\ \A t \in saved : Begun(t) => t \in late
    /\ removed \subseteq saved
Apart ==
    \A t, u \in Turns : t # u /\ UnderWay(t) /\ UnderWay(u) /\ Holding(t) /\ Holding(u)
                           => turn[t].index # turn[u].index
NotYet ==
    \A t \in Turns \ late : Begun(t) /\ ~turn[t].persisted => AbsentIn(row.history, t)
Placed ==
    \A t \in Turns : UnderWay(t) /\ turn[t].persisted =>
        /\ OwnLast(row.history, t, turn[t].index)
        /\ t \notin late => PlacedIn(row.history, t, turn[t].index)
Answered ==
    \A t \in saved \ removed :
        /\ HasAnswer(row.history, t)
        /\ t \notin late => OnceIn(row.history, t)
CalmInv == Apart /\ NotYet /\ Placed /\ Answered /\ OpenIn(row.history)
KeptInv == TurnsInOrder /\ (Undisturbed => CalmInv)

\* The step keeps the status of every answer that stays.
Outcomes ==
    \A t \in saved \ (removed' \cup late') : OutcomeIn(row'.history, t) = OutcomeIn(row.history, t)

\* No turn begins, or places its entry, without the history following.
Onwards ==
    \A t \in Turns :
        /\ UnderWay(t)' /\ turn'[t].persisted =>
             UnderWay(t) /\ turn[t].persisted /\ turn'[t].index = turn[t].index
        /\ Begun(t)' /\ ~turn'[t].persisted => Begun(t) /\ ~turn[t].persisted
HoldsOn ==
    \A t \in Turns : UnderWay(t)' /\ Holding(t)' =>
                        UnderWay(t) /\ Holding(t) /\ turn'[t].index = turn[t].index

LEMMA KinStep ==
    ASSUME CalmInv, Onwards, Apart', Kin(row'.history, row.history), saved' = saved,
           late' = late, removed \subseteq removed'
    PROVE  CalmInv' /\ Outcomes
<1>1. NotYet'
  BY KinKeeps DEF CalmInv, NotYet, Onwards
<1>2. Placed'
  BY KinKeeps DEF CalmInv, Placed, Onwards
<1>3. Answered'
  BY KinKeeps DEF CalmInv, Answered
<1>4. OpenIn(row'.history) /\ Outcomes
  BY KinKeeps DEF CalmInv, Outcomes
<1> QED BY <1>1, <1>2, <1>3, <1>4 DEF CalmInv

LEMMA ApartHolds == ASSUME Apart, HoldsOn PROVE Apart'
BY DEF Apart, HoldsOn

\* Where the request's record goes.
LEMMA TurnGoes ==
    ASSUME NEW n \in Nat, TypedTo(n), NEW t \in Turns, NEW r, turn' = [turn EXCEPT ![t] = r],
           TurnMoves(t, r)
    PROVE  /\ \A u \in Turns \ {t} : turn'[u] = turn[u]
           /\ turn'[t] = r
           /\ turn[t].step # "over"
           /\ TurnBegins(t, r) =>
                /\ turn[t].step = "new" /\ r.step \in {"begun", "running"}
                /\ ~turn[t].persisted /\ ~r.persisted
           /\ TurnLoads(t, r) =>
                /\ turn[t].step \in {"begun", "running"} /\ r.step \in {"prompt", "answer"}
                /\ r.persisted = turn[t].persisted /\ r.index = IndexOf(t)
           /\ TurnGets(t, r) =>
                /\ turn[t].step \in {"prompt", "answer"} /\ r.step \in {"promptGot", "answerGot"}
                /\ r.persisted = turn[t].persisted /\ r.index = turn[t].index
           /\ TurnFails(t, r) \/ TurnAnswers(t, r) =>
                \/ r.step = "over" /\ ~r.persisted
                \/ /\ UnderWay(t) /\ r.step = "running" /\ r.index = turn[t].index
                   /\ r.persisted = turn[t].persisted
           /\ TurnPlaces(t, r) =>
                /\ r.step = "running" /\ r.index = turn[t].index /\ r.persisted \in BOOLEAN
                /\ r.persisted \/ t \in late'
<1>1. turn[t] \in TurnFields(n) /\ turn[t] \in TurnTo(n) /\ turn \in [Turns -> TurnTo(n)]
  BY DEF TypedTo, TurnTo
<1>2. (\A u \in Turns \ {t} : turn'[u] = turn[u]) /\ turn'[t] = r
  BY <1>1
<1>3. turn[t].step # "over"
  BY DEF TurnMoves, TurnBegins, TurnLoads, TurnGets, TurnFails, TurnPlaces, TurnAnswers
<1>4. ASSUME TurnBegins(t, r)
      PROVE  /\ turn[t].step = "new" /\ r.step \in {"begun", "running"}
             /\ ~turn[t].persisted /\ ~r.persisted
  <2>1. turn[t].step = "new" /\ ~turn[t].persisted
    BY <1>1, <1>4 DEF TurnBegins, TurnTo
  <2> QED BY <1>1, <1>4, <2>1 DEF TurnBegins, TurnFields
<1>5. ASSUME TurnLoads(t, r)
      PROVE  /\ turn[t].step \in {"begun", "running"} /\ r.step \in {"prompt", "answer"}
             /\ r.persisted = turn[t].persisted /\ r.index = IndexOf(t)
  BY <1>1, <1>5 DEF TurnLoads, TurnFields
<1>6. ASSUME TurnGets(t, r)
      PROVE  /\ turn[t].step \in {"prompt", "answer"} /\ r.step \in {"promptGot", "answerGot"}
             /\ r.persisted = turn[t].persisted /\ r.index = turn[t].index
  BY <1>1, <1>6 DEF TurnGets, TurnFields
<1>7. ASSUME NEW retried, NEW persisted \in BOOLEAN, r = Rested(turn[t], retried, persisted)
      PROVE  r.step = "running" /\ r.index = turn[t].index /\ r.persisted = persisted
  BY <1>1, <1>7 DEF Rested, TurnFields
<1>8. turn[t].persisted \in BOOLEAN /\ Over.step = "over" /\ ~Over.persisted
  BY <1>1 DEF TurnFields, Over, NewTurn
<1>9. ASSUME TurnFails(t, r)
      PROVE  \/ r.step = "over" /\ ~r.persisted
             \/ /\ UnderWay(t) /\ r.step = "running" /\ r.index = turn[t].index
                /\ r.persisted = turn[t].persisted
  BY <1>7, <1>8, <1>9 DEF TurnFails
<1>10. ASSUME TurnPlaces(t, r)
       PROVE  /\ r.step = "running" /\ r.index = turn[t].index /\ r.persisted \in BOOLEAN
              /\ r.persisted \/ t \in late'
  BY <1>7, <1>8, <1>10 DEF TurnPlaces
<1>11. ASSUME TurnAnswers(t, r)
       PROVE  \/ r.step = "over" /\ ~r.persisted
              \/ /\ UnderWay(t) /\ r.step = "running" /\ r.index = turn[t].index
                 /\ r.persisted = turn[t].persisted
  <2>1. CASE r = Over
    BY <1>8, <2>1
  <2>2. CASE r = Rested(turn[t], TRUE, turn[t].persisted)
    BY <1>7, <1>8, <1>11, <2>2 DEF TurnAnswers, UnderWay
  <2> QED BY <1>11, <2>1, <2>2 DEF TurnAnswers
<1> QED BY <1>2, <1>3, <1>4, <1>5, <1>6, <1>9, <1>10, <1>11

LEMMA OrderTurn ==
    ASSUME NEW n \in Nat, TypedTo(n), TurnsInOrder, NEW t \in Turns, TurnCase(t)
    PROVE  TurnsInOrder'
<1>1. PICK r : turn' = [turn EXCEPT ![t] = r] /\ TurnMoves(t, r)
  BY DEF TurnCase
<1>2. /\ \A u \in Turns \ {t} : turn'[u] = turn[u]
      /\ turn'[t] = r /\ turn[t].step # "over" /\ turn[t] \in TurnFields(n)
  BY <1>1, TurnGoes DEF TypedTo, TurnTo
<1>3. late \subseteq late' /\ removed' = removed /\ saved \subseteq Turns
  BY <1>1 DEF TurnCase, TurnMoves, TurnBegins, TurnLoads, TurnGets, TurnFails, TurnPlaces,
     TurnAnswers, TypedTo
<1>4. Begun(t)
  BY <1>2 DEF Begun, UnderWay, TurnFields
<1>5. ASSUME TurnAnswers(t, r), Begun(t)' PROVE t \in late'
  <2>1. r.step # "over"
    BY <1>2, <1>5 DEF Begun, UnderWay
  <2> QED BY <1>5, <2>1 DEF TurnAnswers, Over, NewTurn
<1>6. \/ saved' = saved \cup {t} /\ TurnAnswers(t, r)
      \/ saved' = saved
  BY <1>1 DEF TurnMoves, TurnBegins, TurnLoads, TurnGets, TurnFails, TurnPlaces, TurnAnswers
<1>7. ASSUME NEW u \in saved', Begun(u)' PROVE u \in late'
  <2>1. CASE u # t
    <3>1. u \in saved /\ Begun(u)
      BY <1>2, <1>3, <1>6, <1>7, <2>1 DEF Begun, UnderWay
    <3> QED BY <1>3, <3>1 DEF TurnsInOrder
  <2>2. CASE u = t
    BY <1>3, <1>4, <1>5, <1>6, <1>7, <2>2 DEF TurnsInOrder
  <2> QED BY <2>1, <2>2
<1> QED BY <1>3, <1>6, <1>7 DEF TurnsInOrder

\* A chat request's own step, when it writes nothing.
LEMMA TurnQuiet ==
    ASSUME NEW n \in Nat, TypedTo(n), TurnsInOrder, CalmInv, NEW t \in Turns, TurnCase(t),
           NEW r, turn' = [turn EXCEPT ![t] = r], "clash" \notin slips',
           TurnBegins(t, r) \/ TurnLoads(t, r) \/ TurnGets(t, r) \/ TurnFails(t, r)
    PROVE  CalmInv' /\ Outcomes
<1>1. /\ \A u \in Turns \ {t} : turn'[u] = turn[u]
      /\ turn'[t] = r
      /\ UNCHANGED <<row, saved, removed, late>>
  BY TurnGoes DEF TurnCase, TurnMoves, TurnBegins, TurnLoads, TurnGets, TurnFails
<1>6. TurnMoves(t, r)
  BY DEF TurnMoves
<1>2. CASE TurnBegins(t, r)
  <2>1. /\ turn[t].step = "new" /\ turn'[t].step \in {"begun", "running"}
        /\ ~turn[t].persisted /\ ~turn'[t].persisted
    BY <1>1, <1>2, TurnGoes DEF TurnMoves
  <2>2. Onwards
    BY <1>1, <2>1 DEF Onwards, Begun, UnderWay
  <2>3. HoldsOn
    BY <1>1, <2>1 DEF HoldsOn, Holding, Saving, UnderWay
  <2> QED BY <1>1, <2>2, <2>3, ApartHolds, KinStep DEF CalmInv, Kin
<1>3. CASE TurnFails(t, r)
  <2>1. \/ turn'[t].step = "over" /\ ~turn'[t].persisted
        \/ /\ UnderWay(t) /\ turn'[t].step = "running" /\ turn'[t].index = turn[t].index
           /\ turn'[t].persisted = turn[t].persisted
    <3>1. \/ r.step = "over" /\ ~r.persisted
          \/ /\ UnderWay(t) /\ r.step = "running" /\ r.index = turn[t].index
             /\ r.persisted = turn[t].persisted
      BY <1>3, <1>6, TurnGoes
    <3> QED BY <1>1, <3>1
  <2>2. Onwards
    BY <1>1, <2>1 DEF Onwards, Begun, UnderWay
  <2>3. HoldsOn
    BY <1>1, <2>1 DEF HoldsOn, Holding, Saving, UnderWay
  <2> QED BY <1>1, <2>2, <2>3, ApartHolds, KinStep DEF CalmInv, Kin
<1>4. CASE TurnGets(t, r)
  <2>1. /\ UnderWay(t) /\ Saving(t) /\ Saving(t)'
        /\ turn'[t].persisted = turn[t].persisted /\ turn'[t].index = turn[t].index
    BY <1>1, <1>4, TurnGoes DEF TurnMoves, UnderWay, Saving
  <2>2. Onwards
    BY <1>1, <2>1 DEF Onwards, Begun, UnderWay
  <2>3. HoldsOn
    BY <1>1, <2>1 DEF HoldsOn, Holding, Saving, UnderWay
  <2> QED BY <1>1, <2>2, <2>3, ApartHolds, KinStep DEF CalmInv, Kin
<1>5. CASE TurnLoads(t, r)
  <2>1. /\ UnderWay(t) /\ turn'[t].persisted = turn[t].persisted /\ turn'[t].index = IndexOf(t)
        /\ turn[t].persisted => turn'[t].index = turn[t].index
    <3>1. turn[t].persisted => IndexOf(t) = turn[t].index
      BY DEF TypedTo, TurnTo, IndexOf
    <3>2. /\ turn[t].step \in {"begun", "running"}
          /\ r.persisted = turn[t].persisted /\ r.index = IndexOf(t)
      BY <1>5, <1>6, TurnGoes
    <3> QED BY <1>1, <3>1, <3>2 DEF UnderWay
  <2>2. Onwards
    BY <1>1, <2>1 DEF Onwards, Begun, UnderWay
  <2>3. \A u \in Turns \ {t} : UnderWay(u) => turn[u].index # turn'[t].index
    BY <1>5, <2>1 DEF TurnLoads
  <2>4. \A u \in Turns \ {t} : UnderWay(u)' => UnderWay(u)
    BY <1>1 DEF UnderWay
  <2>5. Apart'
    <3> SUFFICES ASSUME NEW u \in Turns, NEW v \in Turns, u # v, UnderWay(u)', UnderWay(v)',
                        Holding(u)', Holding(v)'
                 PROVE  turn'[u].index # turn'[v].index
      BY DEF Apart
    <3>1. CASE u # t /\ v # t
      BY <1>1, <3>1 DEF CalmInv, Apart, UnderWay, Holding, Saving
    <3> QED BY <1>1, <2>3, <2>4, <3>1
  <2> QED BY <1>1, <2>2, <2>5, KinStep DEF CalmInv, Kin
<1> QED BY <1>2, <1>3, <1>4, <1>5

\* What a save that saw the history makes of it.
LEMMA StoredIs ==
    ASSUME NEW n \in Nat, TypedTo(n), NEW t \in Turns, NEW entry \in EntryTo(n), Stored(t, entry),
           "overwritten" \notin slips'
    PROVE  /\ row.history \in Seq(EntryTo(n)) /\ row'.history \in Seq(EntryTo(n))
           /\ Saves(row'.history, row.history, entry, turn[t].persisted)
<1>1. turn[t].persisted \in BOOLEAN
  BY DEF TypedTo, TurnTo, TurnFields
<1>2. row.history \in Seq(EntryTo(n))
  BY RowParts DEF TypedTo
<1>3. row'.history = Append(Retained(row.history, entry.index, turn[t].persisted), entry)
  <2>1. row.history = turn[t].mine.history
    BY StoredSlips
  <2>2. row'.history = Append(Retained(turn[t].mine.history, entry.index, turn[t].persisted), entry)
    BY StoredTypes
  <2> QED BY <2>1, <2>2
<1>4. /\ Append(Retained(row.history, entry.index, turn[t].persisted), entry) \in Seq(EntryTo(n))
      /\ Saves(Append(Retained(row.history, entry.index, turn[t].persisted), entry),
               row.history, entry, turn[t].persisted)
  BY <1>1, <1>2, SavedHistory
<1> QED BY <1>2, <1>3, <1>4

\* The placeholder comes last of its index, which no other turn under way holds.
LEMMA TurnPlaced ==
    ASSUME NEW n \in Nat, TypedTo(n), TurnsInOrder, CalmInv, NEW t \in Turns, TurnCase(t),
           NEW r, turn' = [turn EXCEPT ![t] = r], TurnPlaces(t, r), "overwritten" \notin slips'
    PROVE  CalmInv' /\ Outcomes
<1> DEFINE h == row.history
           g == row'.history
           entry == PromptEntry(t)
<1>0. TurnMoves(t, r)
  BY DEF TurnMoves
<1>1. /\ \A u \in Turns \ {t} : turn'[u] = turn[u]
      /\ turn'[t].step = "running" /\ turn'[t].index = turn[t].index
      /\ turn'[t].persisted \in BOOLEAN /\ (turn'[t].persisted \/ t \in late')
  <2> HIDE DEF h, g, entry
  <2>1. /\ \A u \in Turns \ {t} : turn'[u] = turn[u]
        /\ turn'[t] = r
    BY <1>0, TurnGoes
  <2>2. /\ r.step = "running" /\ r.index = turn[t].index /\ r.persisted \in BOOLEAN
        /\ r.persisted \/ t \in late'
    BY <1>0, TurnGoes
  <2> QED BY <2>1, <2>2
<1>2. /\ UNCHANGED <<saved, removed>> /\ late \subseteq late' /\ late' \subseteq late \cup {t}
      /\ turn[t].step \in {"prompt", "promptGot"}
      /\ Stored(t, entry)
  BY DEF TurnCase, TurnPlaces
<1>3. ~turn[t].persisted /\ turn[t].index # NoIndex
  BY <1>2 DEF TypedTo, TurnTo
<1>4. /\ entry.turn = t /\ entry.text = "" /\ entry.index = turn[t].index
      /\ entry \in EntryTo(n)
  BY <1>3, EntriesTyped DEF PromptEntry, EntryOf
<1>5. h \in Seq(EntryTo(n)) /\ g \in Seq(EntryTo(n)) /\ Saves(g, h, entry, turn[t].persisted)
  <2> HIDE DEF entry
  <2> QED BY <1>2, <1>4, StoredIs
<1>6. Len(g) \in Nat \ {0} /\ g[Len(g)] = entry /\ \E at : Follows(g, h, {}, at)
  BY <1>3, <1>5 DEF Saves
<1> HIDE DEF g, h, entry
<1>7. Keeps(g, h, entry, {})
  BY <1>5, <1>6, FollowsKeeps
<1>8. /\ \A u : AbsentIn(h, u) /\ t # u => AbsentIn(g, u)
      /\ \A u, x : PlacedIn(h, u, x) /\ t # u /\ turn[t].index # x => PlacedIn(g, u, x)
      /\ \A u : OnceIn(h, u) /\ t # u => OnceIn(g, u) /\ OutcomeIn(g, u) = OutcomeIn(h, u)
      /\ \A u, x : OwnLast(h, u, x) /\ turn[t].index # x => OwnLast(g, u, x)
      /\ OwnLast(g, t, turn[t].index)
      /\ \A u : HasAnswer(h, u) => HasAnswer(g, u)
      /\ OpenIn(h) => OpenIn(g)
      /\ AbsentIn(h, t) => PlacedIn(g, t, turn[t].index)
  BY <1>4, <1>7 DEF Keeps
<1>9. /\ \A u \in Turns \ late : Begun(u) /\ ~turn[u].persisted => AbsentIn(h, u)
      /\ \A u \in Turns : UnderWay(u) /\ turn[u].persisted =>
            /\ OwnLast(h, u, turn[u].index)
            /\ u \notin late => PlacedIn(h, u, turn[u].index)
      /\ \A u \in saved \ removed : HasAnswer(h, u) /\ (u \notin late => OnceIn(h, u))
      /\ OpenIn(h) /\ Apart
  BY DEF CalmInv, NotYet, Placed, Answered, h
<1>10. Begun(t) /\ UnderWay(t) /\ Holding(t)
  BY <1>2 DEF Begun, UnderWay, Holding, Saving
<1>11. \A u \in Turns \ {t} : (UnderWay(u)' => UnderWay(u)) /\ (Begun(u)' => Begun(u))
                              /\ (Holding(u)' => Holding(u))
  BY <1>1 DEF Begun, UnderWay, Holding, Saving
<1>12. Apart'
  BY <1>1, <1>9, <1>10, <1>11, ApartHolds DEF HoldsOn
<1>13. NotYet'
  BY <1>1, <1>2, <1>8, <1>9, <1>11 DEF NotYet, g
<1>14. \A u \in Turns \ {t} : UnderWay(u) /\ turn[u].persisted => turn[u].index # turn[t].index
  BY <1>9, <1>10 DEF Apart, Holding
<1>15. Placed'
  <2>1. \A u \in Turns \ {t} : UnderWay(u) /\ turn[u].persisted =>
            /\ OwnLast(g, u, turn[u].index)
            /\ u \notin late => PlacedIn(g, u, turn[u].index)
    BY <1>8, <1>9, <1>14
  <2>2. t \notin late => PlacedIn(g, t, turn[t].index)
    BY <1>3, <1>8, <1>9, <1>10
  <2> QED BY <1>1, <1>2, <1>8, <1>11, <2>1, <2>2 DEF Placed, g
<1>16. \A u \in saved \ removed : u # t \/ u \in late
  BY <1>10 DEF TurnsInOrder
<1>17. Answered' /\ Outcomes
  BY <1>2, <1>8, <1>9, <1>16 DEF Answered, Outcomes, g, h
<1> QED BY <1>8, <1>9, <1>12, <1>13, <1>15, <1>17 DEF CalmInv, g

\* The answer takes the place of what its turn had at the index, if anything.
LEMMA TurnAnswered ==
    ASSUME NEW n \in Nat, TypedTo(n), TurnsInOrder, CalmInv, NEW t \in Turns, TurnCase(t),
           NEW r, turn' = [turn EXCEPT ![t] = r], TurnAnswers(t, r), "overwritten" \notin slips'
    PROVE  CalmInv' /\ Outcomes
<1> DEFINE h == row.history
           g == row'.history
           entry == AnswerEntry(t)
<1>0. TurnMoves(t, r)
  BY DEF TurnMoves
<1>1. /\ \A u \in Turns \ {t} : turn'[u] = turn[u]
      /\ \/ turn'[t].step = "over" /\ ~turn'[t].persisted
         \/ /\ turn'[t].step = "running" /\ turn'[t].index = turn[t].index
            /\ turn'[t].persisted = turn[t].persisted
  BY <1>0, TurnGoes
<1>2. /\ saved' = saved \cup {t} /\ UNCHANGED removed
      /\ late \subseteq late' /\ late' \subseteq late \cup {t}
      /\ turn[t].step \in {"answer", "answerGot"}
      /\ Stored(t, entry)
  BY DEF TurnCase, TurnAnswers
<1>3. turn[t].index # NoIndex /\ turn[t].persisted \in BOOLEAN
  BY <1>2 DEF TypedTo, TurnTo, TurnFields
<1>4. /\ entry.turn = t /\ entry.text = "answer" /\ ~entry.progress
      /\ entry.index = turn[t].index /\ entry \in EntryTo(n)
  BY <1>3, EntriesTyped DEF AnswerEntry, EntryOf
<1>5. h \in Seq(EntryTo(n)) /\ g \in Seq(EntryTo(n)) /\ Saves(g, h, entry, turn[t].persisted)
  <2> HIDE DEF entry
  <2> QED BY <1>2, <1>4, StoredIs
<1>6. PICK at, out :
           /\ Follows(g, h, out, at)
           /\ \/ /\ out = {}
                 /\ turn[t].persisted => \A i \in DOMAIN h : h[i].index # entry.index
              \/ \E k : turn[t].persisted /\ out = {k} /\ LastOf(h, entry.index, k)
  BY <1>5 DEF Saves
<1>20. Len(g) \in Nat \ {0} /\ g[Len(g)] = entry
  BY <1>5 DEF Saves
<1> HIDE DEF g, h, entry
<1>7. /\ \A u \in Turns \ late : Begun(u) /\ ~turn[u].persisted => AbsentIn(h, u)
      /\ \A u \in Turns : UnderWay(u) /\ turn[u].persisted =>
            /\ OwnLast(h, u, turn[u].index)
            /\ u \notin late => PlacedIn(h, u, turn[u].index)
      /\ \A u \in saved \ removed : HasAnswer(h, u) /\ (u \notin late => OnceIn(h, u))
      /\ OpenIn(h) /\ Apart
  BY DEF CalmInv, NotYet, Placed, Answered, h
<1>8. Begun(t) /\ UnderWay(t) /\ Holding(t)
  BY <1>2 DEF Begun, UnderWay, Holding, Saving
<1>9. \A k \in out : h[k].turn = t /\ h[k].index = turn[t].index
  <2>1. \A k \in out : turn[t].persisted /\ LastOf(h, turn[t].index, k)
    BY <1>4, <1>6
  <2> QED BY <1>7, <1>8, <2>1 DEF OwnLast, LastOf
<1>10. t \notin late => \A j \in DOMAIN h \ out : h[j].turn # t
  <2> SUFFICES ASSUME t \notin late, NEW j \in DOMAIN h \ out, h[j].turn = t PROVE FALSE
    OBVIOUS
  <2>1. CASE ~turn[t].persisted
    BY <1>7, <1>8, <2>1 DEF AbsentIn
  <2>2. CASE turn[t].persisted
    <3>1. PlacedIn(h, t, turn[t].index)
      BY <1>7, <1>8, <2>2
    <3>2. h[j].index = turn[t].index /\ \A i \in DOMAIN h : h[i].index = turn[t].index => i <= j
      BY <3>1 DEF PlacedIn
    <3>3. PICK k : out = {k} /\ LastOf(h, turn[t].index, k)
      BY <1>4, <1>6, <2>2, <3>2
    <3>4. j <= k /\ k <= j /\ k \in DOMAIN h
      BY <3>2, <3>3 DEF LastOf
    <3>5. DOMAIN h \subseteq Int
      <4>1. Len(h) \in Nat /\ DOMAIN h = 1..Len(h)
        BY <1>5, LenProperties
      <4> QED BY <4>1
    <3>6. j = k
      BY <3>4, <3>5
    <3> QED BY <3>3, <3>6
  <2> QED BY <1>3, <2>1, <2>2
<1>11. Keeps(g, h, entry, out)
  BY <1>5, <1>6, <1>20, FollowsKeeps
<1>12. /\ \A u : AbsentIn(h, u) /\ t # u => AbsentIn(g, u)
       /\ \A u, x : PlacedIn(h, u, x) /\ t # u /\ turn[t].index # x => PlacedIn(g, u, x)
       /\ \A u : OnceIn(h, u) /\ t # u => OnceIn(g, u) /\ OutcomeIn(g, u) = OutcomeIn(h, u)
       /\ \A u, x : OwnLast(h, u, x) /\ turn[t].index # x => OwnLast(g, u, x)
       /\ OwnLast(g, t, turn[t].index)
       /\ \A u : HasAnswer(h, u) /\ t # u => HasAnswer(g, u)
       /\ HasAnswer(g, t)
       /\ OpenIn(h) => OpenIn(g)
       /\ t \notin late => OnceIn(g, t)
  <2>1. IsAnswer(entry, t)
    BY <1>4 DEF IsAnswer
  <2> QED BY <1>4, <1>9, <1>10, <1>11, <2>1 DEF Keeps
<1>13. \A u \in Turns \ {t} : (UnderWay(u)' => UnderWay(u)) /\ (Begun(u)' => Begun(u))
                              /\ (Holding(u)' => Holding(u))
  BY <1>1 DEF Begun, UnderWay, Holding, Saving
<1>14. Apart'
  <2>1. UnderWay(t)' => turn'[t].index = turn[t].index
    BY <1>1 DEF UnderWay
  <2> QED BY <1>1, <1>7, <1>8, <1>13, <2>1, ApartHolds DEF HoldsOn
<1>15. Begun(t)' => t \in late'
  <2>1. TurnsInOrder'
    BY OrderTurn
  <2> QED BY <1>2, <2>1 DEF TurnsInOrder
<1>16. NotYet'
  BY <1>1, <1>2, <1>7, <1>12, <1>13, <1>15 DEF NotYet, g
<1>17. \A u \in Turns \ {t} : UnderWay(u) /\ turn[u].persisted => turn[u].index # turn[t].index
  BY <1>7, <1>8 DEF Apart, Holding
<1>18. Placed'
  <2>1. \A u \in Turns \ {t} : UnderWay(u) /\ turn[u].persisted =>
            /\ OwnLast(g, u, turn[u].index)
            /\ u \notin late => PlacedIn(g, u, turn[u].index)
    BY <1>7, <1>12, <1>17
  <2>2. UnderWay(t)' => t \in late' /\ turn'[t].index = turn[t].index
    BY <1>1, <1>15 DEF Begun, UnderWay
  <2> QED BY <1>1, <1>2, <1>12, <1>13, <2>1, <2>2 DEF Placed, g
<1>19. Answered' /\ Outcomes
  <2>1. \A u \in saved : u = t => u \in late
    BY <1>8 DEF TurnsInOrder
  <2>2. Outcomes
    BY <1>2, <1>7, <1>12, <2>1 DEF Outcomes, g, h
  <2>3. Answered'
    BY <1>2, <1>7, <1>12 DEF Answered, g
  <2> QED BY <2>2, <2>3
<1> QED BY <1>7, <1>12, <1>14, <1>16, <1>18, <1>19 DEF CalmInv, g

\* What another request makes of the history, when it overwrites nothing it had
\* not seen and disturbs no turn.
Removes == removed' = removed \cup (saved \cap (Answers(row) \ Answers(row')))
HistoryAfter ==
    \/ Kin(row'.history, row.history)
    \/ \E i \in DOMAIN row.history :
          /\ row'.history = WithEdited(row.history, i)
          /\ \A t \in Turns : UnderWay(t) => turn[t].index # row.history[i].index
    \/ /\ \E x : row'.history = WithoutIndex(row.history, x)
       /\ (\A t \in Turns : ~UnderWay(t)) /\ Removes
    \/ row'.history = <<>> /\ Removes
EditAfter ==
    /\ \A t \in Turns : /\ turn'[t].step = turn[t].step /\ turn'[t].persisted = turn[t].persisted
                        /\ turn'[t].index = turn[t].index
    /\ UNCHANGED <<late, saved>>
    /\ removed \subseteq removed' /\ removed' \subseteq removed \cup saved
    /\ Undisturbed' => HistoryAfter

LEMMA WriteAfter ==
    ASSUME NEW n \in Nat, TypedTo(n), NEW e \in Edits, Write(e), Undisturbed'
    PROVE  HistoryAfter
<1>1. Kin(row.history, row.history)
  BY DEF Kin
<1>2. CASE row'.history = row.history
  BY <1>1, <1>2 DEF HistoryAfter
<1>3. ASSUME NEW h, Written(e, h), row'.history # row.history,
             IF edit[e].op \in {"remove", "clear"} THEN GoneWith(row') ELSE UNCHANGED removed
      PROVE  HistoryAfter
  <2>1. h \in Changed(e) /\ row'.history = h /\ "history" \in edit[e].columns
    BY <1>3 DEF Written
  <2>2. row.history = edit[e].mine.history
    BY <1>3, <2>1 DEF Written, SlipsOf, Undisturbed
  <2>3. ~Disturbs(e)
    BY <1>3 DEF Written, Undisturbed
  <2>4. edit[e].op \in {"remove", "clear"} => Removes
    BY <1>3 DEF GoneWith, Removes
  <2>5. row.history \in Seq(EntryTo(n))
    BY RowParts DEF TypedTo
  <2>6. CASE edit[e].op = "abort"
    <3>1. h = MarkInterrupted(row.history)
      BY <2>1, <2>2, <2>6 DEF Changed
    <3> QED BY <2>1, <2>5, <3>1, MarkedKin DEF HistoryAfter
  <2>7. CASE edit[e].op = "remove"
    <3>1. h = WithoutIndex(row.history, edit[e].index)
      BY <2>1, <2>2, <2>7 DEF Changed
    <3>2. \A t \in Turns : ~UnderWay(t)
      BY <2>3, <2>7 DEF Disturbs
    <3> QED BY <2>1, <2>4, <2>7, <3>1, <3>2 DEF HistoryAfter
  <2>8. CASE edit[e].op = "clear"
    <3>1. h = <<>>
      BY <2>1, <2>8 DEF Changed
    <3> QED BY <2>1, <2>4, <2>8, <3>1 DEF HistoryAfter
  <2>9. CASE edit[e].op = "edit"
    <3>1. PICK i \in DOMAIN row.history :
             row.history[i].index = edit[e].index /\ h = WithEdited(row.history, i)
      BY <2>1, <2>2, <2>9 DEF Changed
    <3>2. \A t \in Turns : UnderWay(t) => turn[t].index # edit[e].index
      BY <2>3, <2>9 DEF Disturbs
    <3> QED BY <2>1, <3>1, <3>2 DEF HistoryAfter
  <2>10. CASE edit[e].op \notin {"abort", "remove", "clear", "edit"}
    <3>1. h = edit[e].mine.history
      BY <2>1, <2>10 DEF Changed
    <3> QED BY <1>3, <2>1, <2>2, <3>1
  <2> QED BY <2>6, <2>7, <2>8, <2>9, <2>10
<1>4. CASE UNCHANGED <<row, slips, removed>>
  BY <1>2, <1>4
<1> QED BY <1>2, <1>3, <1>4, WriteIs

LEMMA EditAfters ==
    ASSUME NEW n \in Nat, TypedTo(n), NEW e \in Edits, EditStep(e)
    PROVE  EditAfter
<1>1. ASSUME NEW t \in Turns
      PROVE  /\ turn'[t].step = turn[t].step /\ turn'[t].persisted = turn[t].persisted
             /\ turn'[t].index = turn[t].index
  <2>1. UNCHANGED turn \/ Stop(e)
    BY DEF EditStep, LoadEdit, LoadOther, GetRow, Write, Finish, Settle, Delete
  <2>2. turn'[t] = turn[t] \/ turn'[t] = [turn[t] EXCEPT !.aborted = TRUE]
    BY <2>1, StopIs DEF Marked
  <2>3. turn[t] \in TurnFields(n)
    BY DEF TypedTo, TurnTo
  <2> QED BY <2>2, <2>3 DEF TurnFields
<1>2. UNCHANGED <<late, saved>>
  BY DEF EditStep, LoadEdit, LoadOther, Stop, GetRow, Write, Finish, Settle, Delete
<1>3. Kin(row.history, row.history)
  BY DEF Kin
<1>4. removed \subseteq removed' /\ removed' \subseteq removed \cup saved
  <2>1. \A r : GoneWith(r) => removed \subseteq removed' /\ removed' \subseteq removed \cup saved
    BY DEF GoneWith
  <2>2. CASE Write(e)
    <3>1. GoneWith(row') \/ UNCHANGED removed
      BY <2>2, WriteIs
    <3> QED BY <3>1 DEF GoneWith
  <2>3. CASE Delete(e)
    BY <2>1, <2>3 DEF Delete
  <2> QED BY <2>2, <2>3 DEF EditStep, LoadEdit, LoadOther, Stop, GetRow, Finish, Settle
<1>5. ASSUME Undisturbed' PROVE HistoryAfter
  <2>1. CASE LoadEdit(e) \/ LoadOther(e) \/ Stop(e) \/ GetRow(e)
    BY <1>3, <2>1 DEF LoadEdit, LoadOther, Stop, GetRow, HistoryAfter
  <2>2. CASE Write(e)
    BY <1>5, <2>2, WriteAfter
  <2>3. CASE Finish(e)
    <3>1. row'.history = row.history
      BY <2>3, AtOnceTyped
    <3> QED BY <1>3, <3>1 DEF HistoryAfter
  <2>4. CASE Settle(e)
    <3>1. row'.history = Settled(row.history, SettledBy(e))
      BY <2>4, AtOnceTyped
    <3>2. row.history \in Seq(EntryTo(n))
      BY RowParts DEF TypedTo
    <3> QED BY <3>1, <3>2, SettledKin DEF HistoryAfter
  <2>5. CASE Delete(e)
    <3>1. row' = Gone /\ row'.history = <<>>
      BY <2>5 DEF Delete, Gone
    <3>2. Removes
      BY <2>5, <3>1 DEF Delete, GoneWith, Removes
    <3> QED BY <3>1, <3>2 DEF HistoryAfter
  <2> QED BY <2>1, <2>2, <2>3, <2>4, <2>5 DEF EditStep
<1> QED BY <1>1, <1>2, <1>4, <1>5 DEF EditAfter

LEMMA EditQuiet ==
    ASSUME NEW n \in Nat, TypedTo(n), CalmInv, EditAfter, Undisturbed'
    PROVE  CalmInv' /\ Outcomes
<1> DEFINE h == row.history
           g == row'.history
<1>1. /\ \A u \in Turns : /\ turn'[u].step = turn[u].step /\ turn'[u].persisted = turn[u].persisted
                          /\ turn'[u].index = turn[u].index
      /\ late' = late /\ saved' = saved /\ removed \subseteq removed' /\ HistoryAfter
  BY DEF EditAfter
<1>2. \A u \in Turns : (UnderWay(u)' <=> UnderWay(u)) /\ (Begun(u)' <=> Begun(u))
                       /\ (Holding(u)' <=> Holding(u))
  BY <1>1 DEF UnderWay, Begun, Holding, Saving
<1>3. Onwards /\ Apart'
  BY <1>1, <1>2, ApartHolds DEF Onwards, HoldsOn, CalmInv
<1>4. /\ \A u \in Turns \ late : Begun(u) /\ ~turn[u].persisted => AbsentIn(h, u)
      /\ \A u \in Turns : UnderWay(u) /\ turn[u].persisted =>
            /\ OwnLast(h, u, turn[u].index)
            /\ u \notin late => PlacedIn(h, u, turn[u].index)
      /\ \A u \in saved \ removed : HasAnswer(h, u) /\ (u \notin late => OnceIn(h, u))
      /\ OpenIn(h)
  BY DEF CalmInv, NotYet, Placed, Answered
<1>5. h \in Seq(EntryTo(n))
  BY RowParts DEF TypedTo
<1>6. ASSUME \A u \in Turns : AbsentIn(h, u) => AbsentIn(g, u),
             \A u \in Turns : UnderWay(u) =>
                /\ OwnLast(h, u, turn[u].index) => OwnLast(g, u, turn[u].index)
                /\ PlacedIn(h, u, turn[u].index) => PlacedIn(g, u, turn[u].index),
             \A u \in saved \ removed' :
                /\ HasAnswer(g, u)
                /\ u \notin late => OnceIn(g, u) /\ OutcomeIn(g, u) = OutcomeIn(h, u),
             OpenIn(g)
      PROVE  CalmInv' /\ Outcomes
  <2>1. NotYet' /\ Placed'
    BY <1>1, <1>2, <1>4, <1>6 DEF NotYet, Placed
  <2>2. Answered' /\ Outcomes
    BY <1>1, <1>6 DEF Answered, Outcomes
  <2> QED BY <1>3, <1>6, <2>1, <2>2 DEF CalmInv
<1>7. CASE Kin(g, h)
  BY <1>1, <1>3, <1>7, KinStep
<1> HIDE DEF g, h
<1>8. ASSUME NEW i \in DOMAIN h, g = WithEdited(h, i),
             \A u \in Turns : UnderWay(u) => turn[u].index # h[i].index
      PROVE  CalmInv' /\ Outcomes
  <2>1. /\ \A u : AbsentIn(h, u) => AbsentIn(g, u)
        /\ \A u, x : PlacedIn(h, u, x) /\ h[i].index # x => PlacedIn(g, u, x)
        /\ \A u : OnceIn(h, u) => OnceIn(g, u) /\ OutcomeIn(g, u) = OutcomeIn(h, u)
        /\ \A u, x : OwnLast(h, u, x) /\ h[i].index # x => OwnLast(g, u, x)
        /\ \A u : HasAnswer(h, u) => HasAnswer(g, u)
        /\ OpenIn(h) => OpenIn(g)
    BY <1>5, <1>8, EditedKeeps
  <2>2. \A u \in Turns : UnderWay(u) =>
                /\ OwnLast(h, u, turn[u].index) => OwnLast(g, u, turn[u].index)
                /\ PlacedIn(h, u, turn[u].index) => PlacedIn(g, u, turn[u].index)
    BY <1>8, <2>1
  <2>3. \A u \in saved \ removed' :
                /\ HasAnswer(g, u)
                /\ u \notin late => OnceIn(g, u) /\ OutcomeIn(g, u) = OutcomeIn(h, u)
    BY <1>1, <1>4, <2>1
  <2> QED BY <1>4, <1>6, <2>1, <2>2, <2>3
<1>9. ASSUME Removes, NEW u \in saved \ removed'
      PROVE  HasAnswer(g, u)
  <2>1. HasAnswer(h, u)
    BY <1>1, <1>4
  <2>2. u \in Answers(row)
    BY <2>1 DEF Answers, HasAnswer, IsAnswer, h
  <2>3. u \in Answers(row')
    BY <1>9, <2>2 DEF Removes
  <2> QED BY <2>3 DEF Answers, HasAnswer, IsAnswer, g
<1>10. ASSUME NEW x, g = WithoutIndex(h, x), \A u \in Turns : ~UnderWay(u), Removes
       PROVE  CalmInv' /\ Outcomes
  <2>1. PICK m \in Nat : \E at : Leaves(g, h, x, m, at)
    BY <1>5, <1>10, WithoutIs
  <2>2. PICK at : Leaves(g, h, x, m, at)
    BY <2>1
  <2>4. /\ \A u : AbsentIn(h, u) => AbsentIn(g, u)
        /\ \A u : OnceIn(h, u) /\ HasAnswer(g, u)
                     => OnceIn(g, u) /\ OutcomeIn(g, u) = OutcomeIn(h, u)
        /\ OpenIn(h) => OpenIn(g)
    BY <1>5, <2>2, LeavesKeeps DEF HasAnswer
  <2>5. \A u \in saved \ removed' :
                /\ HasAnswer(g, u)
                /\ u \notin late => OnceIn(g, u) /\ OutcomeIn(g, u) = OutcomeIn(h, u)
    BY <1>1, <1>4, <1>9, <1>10, <2>4
  <2> QED BY <1>4, <1>6, <1>10, <2>4, <2>5
<1>11. ASSUME g = <<>>, Removes PROVE CalmInv' /\ Outcomes
  <2>1. DOMAIN g = {}
    BY <1>11
  <2>2. saved \ removed' = {}
    BY <1>9, <1>11, <2>1 DEF HasAnswer
  <2>3. OpenIn(g) /\ (\A u : AbsentIn(g, u)) /\ \A u, x : PlacedIn(g, u, x) /\ OwnLast(g, u, x)
    BY <2>1 DEF OpenIn, AbsentIn, PlacedIn, OwnLast, LastOf
  <2> QED BY <1>6, <2>2, <2>3
<1> QED BY <1>1, <1>7, <1>8, <1>10, <1>11 DEF HistoryAfter, g, h

LEMMA CalmStep ==
    ASSUME NEW n \in Nat, TypedTo(n), TurnsInOrder, Undisturbed => CalmInv, [Next]_vars, Undisturbed'
    PROVE  CalmInv' /\ Outcomes
<1>0. /\ Undisturbed /\ CalmInv
      /\ "overwritten" \notin slips' /\ "clash" \notin slips'
  <2>1. slips \subseteq slips'
    BY CountedStep
  <2> QED BY <2>1 DEF Undisturbed
<1>1. ASSUME NEW t \in Turns, TurnStep(t) PROVE CalmInv' /\ Outcomes
  <2>1. TurnCase(t)
    BY <1>1, TurnCases
  <2>2. PICK r : turn' = [turn EXCEPT ![t] = r] /\ TurnMoves(t, r)
    BY <2>1 DEF TurnCase
  <2>3. CASE TurnPlaces(t, r)
    BY <1>0, <2>1, <2>2, <2>3, TurnPlaced
  <2>4. CASE TurnAnswers(t, r)
    BY <1>0, <2>1, <2>2, <2>4, TurnAnswered
  <2>5. CASE TurnBegins(t, r) \/ TurnLoads(t, r) \/ TurnGets(t, r) \/ TurnFails(t, r)
    BY <1>0, <2>1, <2>2, <2>5, TurnQuiet
  <2> QED BY <2>2, <2>3, <2>4, <2>5 DEF TurnMoves
<1>2. ASSUME NEW e \in Edits, EditStep(e) PROVE CalmInv' /\ Outcomes
  BY <1>0, <1>2, EditAfters, EditQuiet
<1>3. CASE UNCHANGED vars
  <2>1. UNCHANGED <<row, turn, late, saved, removed>>
    BY <1>3 DEF vars
  <2>2. CalmInv' /\ Outcomes
    BY <1>0, <2>1 DEF CalmInv, Apart, NotYet, Placed, Answered, UnderWay, Begun, Holding, Saving,
       Outcomes
  <2> QED BY <2>2
<1> QED BY <1>1, <1>2, <1>3 DEF Next

KeptTyped == TypeInv /\ KeptInv
LEMMA KeptInit == Init => KeptTyped
<1> SUFFICES ASSUME Init PROVE KeptInv
  BY TypedInit DEF KeptTyped
<1>1. \A t \in Turns : turn[t].step = "new" /\ ~turn[t].persisted
  BY DEF Init, NewTurn
<1>2. saved = {} /\ removed = {}
  BY DEF Init
<1>3. \A i \in DOMAIN row.history : row.history[i] = OldEntry
  BY DEF Init, Gone
<1>4. OpenIn(row.history) /\ \A t \in Turns : AbsentIn(row.history, t)
  BY <1>3, HistoryAssumption DEF OldEntry, OpenIn, AbsentIn
<1> QED BY <1>1, <1>2, <1>4
        DEF KeptInv, TurnsInOrder, CalmInv, Apart, NotYet, Placed, Answered, UnderWay

LEMMA KeptStep == KeptTyped /\ [Next]_vars => KeptTyped'
<1> SUFFICES ASSUME KeptTyped, [Next]_vars PROVE KeptTyped'
  OBVIOUS
<1>1. PICK n \in Nat : TypedTo(n)
  BY DEF KeptTyped, TypeInv
<1>2. TurnsInOrder'
  <2>1. TurnsInOrder
    BY DEF KeptTyped, KeptInv
  <2>2. ASSUME NEW t \in Turns, TurnStep(t) PROVE TurnsInOrder'
    BY <1>1, <2>1, <2>2, TurnCases, OrderTurn
  <2>3. ASSUME NEW e \in Edits, EditStep(e) PROVE TurnsInOrder'
    <3>1. EditAfter /\ saved \subseteq Turns
      BY <1>1, <2>3, EditAfters DEF TypedTo
    <3> QED BY <2>1, <3>1 DEF EditAfter, TurnsInOrder, Begun, UnderWay
  <2>4. CASE UNCHANGED vars
    BY <2>1, <2>4 DEF vars, TurnsInOrder, Begun, UnderWay
  <2> QED BY <2>2, <2>3, <2>4 DEF Next
<1>3. Undisturbed' => CalmInv'
  BY <1>1, CalmStep DEF KeptTyped, KeptInv
<1> QED BY <1>2, <1>3, TypeStep DEF KeptTyped, KeptInv

LEMMA KeptKeeps == KeptTyped => AnswersKept
<1> SUFFICES ASSUME KeptTyped, Undisturbed, NEW t \in saved \ removed,
                    NEW answers, answers = {i \in DOMAIN row.history :
                                   row.history[i].turn = t /\ row.history[i].text = "answer"}
             PROVE  /\ answers # {}
                    /\ t \notin late =>
                        /\ Cardinality(answers) = 1
                        /\ \A i \in DOMAIN row.history :
                              row.history[i].turn = t => row.history[i].text # ""
  BY DEF AnswersKept
<1>1. HasAnswer(row.history, t) /\ (t \notin late => OnceIn(row.history, t))
  BY DEF KeptTyped, KeptInv, CalmInv, Answered
<1>2. answers # {}
  BY <1>1 DEF HasAnswer, IsAnswer
<1>3. ASSUME NEW k, OnceAt(row.history, t, k)
      PROVE  /\ Cardinality(answers) = 1
             /\ \A i \in DOMAIN row.history : row.history[i].turn = t => row.history[i].text # ""
  <2>1. answers = {k}
    BY <1>3 DEF OnceAt, IsAnswer
  <2>2. Cardinality({k}) = 1
    BY FS_Singleton
  <2> QED BY <1>3, <2>1, <2>2 DEF OnceAt
<1> QED BY <1>1, <1>2, <1>3 DEF OnceIn

\* As long as no history is written over one its copy had not seen, no entry is
\* removed (or variant added) under a turn that keeps its index and no two turns
\* are at once on one index, a saved answer is in the history until a user
\* removes it, and unless a save of its turn raised after its commit it is there
\* once and its in_progress entry is gone.  A turn under way either has nothing
\* in the history or its in_progress entry as the last one of an index it shares
\* with no other turn under way, which is the entry its answer replaces.
THEOREM AnswersKeptEver == Spec => []AnswersKept
BY KeptInit, KeptStep, KeptKeeps, PTL DEF Spec

Settles == Undisturbed' => \A t \in saved \ (removed' \cup late') :
                              Outcome(row', t) = Outcome(row, t)
LEMMA SettlesStep == KeptTyped /\ [Next]_vars => [Settles]_vars
<1> SUFFICES ASSUME KeptTyped, [Next]_vars, Undisturbed', NEW t \in saved \ (removed' \cup late')
             PROVE  Outcome(row', t) = Outcome(row, t)
  BY DEF Settles
<1>1. PICK n \in Nat : TypedTo(n)
  BY DEF KeptTyped, TypeInv
<1>2. Outcomes
  BY <1>1, CalmStep DEF KeptTyped, KeptInv
<1> QED BY <1>2 DEF Outcomes, Outcome, OutcomeIn

\* Under the same conditions what was stored of a saved answer keeps its
\* status at every step, unless a save of its turn raised after its commit: an
\* abort that comes late marks an in_progress entry or nothing, and no other
\* turn's save takes the answer's place.
THEOREM OutcomesStayEver == Spec => OutcomesStay
<1>1. OutcomesStay <=> [][Settles]_vars
  BY PTL DEF OutcomesStay, Settles
<1> QED BY <1>1, KeptInit, KeptStep, SettlesStep, PTL DEF Spec

=============================================================================
