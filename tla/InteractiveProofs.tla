--------------------------- MODULE InteractiveProofs ---------------------------
(***************************************************************************)
(* Proofs about the two programs a user talks to while they work behind    *)
(* his back: LanguageServer, for any finite set of documents, any load     *)
(* graph (cycles included), any contents and any number of client actions; *)
(* and PartSearch, for any modes, indexes, texts and number of inputs.     *)
(***************************************************************************)
EXTENDS LanguageServer, PartSearch, FiniteSetTheorems, WellFoundedInduction, TLAPS

-----------------------------------------------------------------------------
(* Closure, by induction over its steps.                                   *)

LEMMA SmallestExists ==
  ASSUME NEW S \in SUBSET Nat, S # {}
  PROVE  \E n \in S : \A m \in S : n <= m
<1> DEFINE less == {ss \in Nat \X Nat : ss[1] < ss[2]}
<1>1. IsWellFoundedOn(less, Nat)
  BY NatLessThanWellFounded DEF OpToRel
<1>2. \E n \in S : \A m \in S : ~(<<m, n>> \in less)
  <2> HIDE DEF less
  <2> QED BY <1>1, WFMin
<1>3. PICK n \in S : \A m \in S : ~(<<m, n>> \in less)
  BY <1>2
<1>4. ASSUME NEW m \in S PROVE n <= m
  <2>1. m \in Nat /\ n \in Nat
    OBVIOUS
  <2>2. m < n => <<m, n>> \in less
    BY <2>1
  <2> QED BY <1>3, <2>1, <2>2
<1> QED BY <1>4

Within(next, docs, f, n) ==
  IF n = 0 THEN docs ELSE f[n - 1] \cup UNION {next[d] : d \in f[n - 1]}

Grows(next, docs, f, N) == f = [n \in 0..N |-> Within(next, docs, f, n)]

LEMMA WithinExists ==
  ASSUME NEW next, NEW docs, NEW N \in Nat
  PROVE  \E f : Grows(next, docs, f, N)
<1> DEFINE bad == {k \in Nat : ~\E f : Grows(next, docs, f, k)}
<1> SUFFICES ASSUME bad # {} PROVE FALSE
  OBVIOUS
<1>1. PICK k \in bad : \A m \in bad : k <= m
  <2>1. bad \in SUBSET Nat
    OBVIOUS
  <2> HIDE DEF bad
  <2> QED BY <2>1, SmallestExists
<1>2. CASE k = 0
  <2> DEFINE f == [n \in 0..0 |-> docs]
  <2>1. Grows(next, docs, f, 0)
    BY DEF Grows, Within
  <2> QED BY <1>2, <2>1
<1>3. CASE k # 0
  <2>1. k - 1 \in Nat /\ ~(k <= k - 1)
    BY <1>3
  <2>2. k - 1 \notin bad
    BY <1>1, <2>1
  <2>3. PICK g : Grows(next, docs, g, k - 1)
    BY <2>1, <2>2
  <2> DEFINE f == [n \in 0..k |-> IF n = k THEN Within(next, docs, g, k) ELSE g[n]]
  <2>4. \A n \in 0..(k - 1) : f[n] = g[n]
    BY <2>1
  <2>5. f[k] = Within(next, docs, f, k)
    <3>1. f[k] = Within(next, docs, g, k) /\ f[k - 1] = g[k - 1]
      BY <2>1, <2>4
    <3> HIDE DEF f
    <3> QED BY <1>3, <3>1 DEF Within
  <2>6. ASSUME NEW n \in 0..(k - 1) PROVE f[n] = Within(next, docs, f, n)
    <3>1. g[n] = Within(next, docs, g, n)
      BY <2>3 DEF Grows
    <3>2. n # 0 => n - 1 \in 0..(k - 1)
      OBVIOUS
    <3>3. f[n] = g[n] /\ (n # 0 => f[n - 1] = g[n - 1])
      BY <2>4, <3>2
    <3> HIDE DEF f
    <3> QED BY <3>1, <3>3 DEF Within
  <2>7. Grows(next, docs, f, k)
    <3>1. f = [n \in 0..k |-> f[n]]
      OBVIOUS
    <3>2. \A n \in 0..k : n = k \/ n \in 0..(k - 1)
      BY <2>1
    <3> HIDE DEF f
    <3>3. \A n \in 0..k : f[n] = Within(next, docs, f, n)
      BY <2>5, <2>6, <3>2
    <3> QED BY <3>1, <3>3 DEF Grows
  <2> HIDE DEF f
  <2> QED BY <2>7
<1> QED BY <1>2, <1>3

LEMMA ClosureGrows ==
  ASSUME NEW next, NEW docs
  PROVE  \E f : Grows(next, docs, f, Cardinality(Docs)) /\ Closure(next, docs) = f[Cardinality(Docs)]
<1> DEFINE N == Cardinality(Docs)
           f == CHOOSE g : g = [n \in 0..N |-> Within(next, docs, g, n)]
<1>1. N \in Nat
  BY LanguageServerAssumption, FS_CardinalityType DEF LanguageServerAssumption
<1>2. f = [n \in 0..N |-> Within(next, docs, f, n)]
  <2>1. \E g : g = [n \in 0..N |-> Within(next, docs, g, n)]
    BY <1>1, WithinExists DEF Grows
  <2> QED BY <2>1
<1>3. Closure(next, docs) = f[N]
  BY DEF Closure, Within
<1> HIDE DEF f
<1> QED BY <1>2, <1>3 DEF Grows

(* More edges and more documents reach more.                               *)
LEMMA ClosureRises ==
  ASSUME NEW few, NEW many, NEW docs \in SUBSET Docs, NEW others, docs \subseteq others,
         \A d \in Docs : few[d] \subseteq Docs /\ few[d] \subseteq many[d]
  PROVE  Closure(few, docs) \subseteq Docs /\ Closure(few, docs) \subseteq Closure(many, others)
<1> DEFINE N == Cardinality(Docs)
<1>1. N \in Nat
  BY LanguageServerAssumption, FS_CardinalityType DEF LanguageServerAssumption
<1>2. PICK f : Grows(few, docs, f, N) /\ Closure(few, docs) = f[N]
  BY ClosureGrows
<1>3. PICK g : Grows(many, others, g, N) /\ Closure(many, others) = g[N]
  BY ClosureGrows
<1> HIDE DEF N
<1>4. \A n \in 0..N : f[n] = Within(few, docs, f, n) /\ g[n] = Within(many, others, g, n)
  BY <1>2, <1>3 DEF Grows
<1> DEFINE good(n) == f[n] \subseteq Docs /\ f[n] \subseteq g[n]
           bad == {n \in Nat : n <= N /\ ~good(n)}
<1>5. bad = {}
  <2> SUFFICES ASSUME bad # {} PROVE FALSE
    OBVIOUS
  <2>1. PICK n \in bad : \A m \in bad : n <= m
    <3>1. bad \in SUBSET Nat
      OBVIOUS
    <3> HIDE DEF bad
    <3> QED BY <3>1, SmallestExists
  <2>2. n \in 0..N /\ ~good(n)
    BY <1>1, <2>1
  <2>3. CASE n = 0
    BY <1>4, <2>2, <2>3 DEF Within
  <2>4. CASE n # 0
    <3>1. n - 1 \in 0..N /\ ~(n <= n - 1)
      BY <1>1, <2>2, <2>4
    <3>2. good(n - 1)
      BY <2>1, <3>1
    <3>3. /\ f[n] = f[n - 1] \cup UNION {few[d] : d \in f[n - 1]}
          /\ g[n] = g[n - 1] \cup UNION {many[d] : d \in g[n - 1]}
      BY <1>4, <2>2, <2>4 DEF Within
    <3>4. good(n)
      BY <3>2, <3>3
    <3> QED BY <2>2, <3>4
  <2> QED BY <2>3, <2>4
<1>6. good(N)
  <2>1. N \notin bad
    BY <1>5
  <2> QED BY <1>1, <2>1
<1> QED BY <1>2, <1>3, <1>6

(* Nothing leaves a set that holds where it starts and its successors.     *)
LEMMA ClosureStays ==
  ASSUME NEW next, NEW docs, NEW S, docs \subseteq S, \A d \in S : next[d] \subseteq S
  PROVE  Closure(next, docs) \subseteq S /\ docs \subseteq Closure(next, docs)
<1> DEFINE N == Cardinality(Docs)
<1>1. N \in Nat
  BY LanguageServerAssumption, FS_CardinalityType DEF LanguageServerAssumption
<1>2. PICK f : Grows(next, docs, f, N) /\ Closure(next, docs) = f[N]
  BY ClosureGrows
<1> HIDE DEF N
<1>3. \A n \in 0..N : f[n] = Within(next, docs, f, n)
  BY <1>2 DEF Grows
<1> DEFINE good(n) == f[n] \subseteq S /\ docs \subseteq f[n]
           bad == {n \in Nat : n <= N /\ ~good(n)}
<1>4. bad = {}
  <2> SUFFICES ASSUME bad # {} PROVE FALSE
    OBVIOUS
  <2>1. PICK n \in bad : \A m \in bad : n <= m
    <3>1. bad \in SUBSET Nat
      OBVIOUS
    <3> HIDE DEF bad
    <3> QED BY <3>1, SmallestExists
  <2>2. n \in 0..N /\ ~good(n)
    BY <1>1, <2>1
  <2>3. CASE n = 0
    BY <1>3, <2>2, <2>3 DEF Within
  <2>4. CASE n # 0
    <3>1. n - 1 \in 0..N /\ ~(n <= n - 1)
      BY <1>1, <2>2, <2>4
    <3>2. good(n - 1)
      BY <2>1, <3>1
    <3>3. f[n] = f[n - 1] \cup UNION {next[d] : d \in f[n - 1]}
      BY <1>3, <2>2, <2>4 DEF Within
    <3>4. good(n)
      BY <3>2, <3>3
    <3> QED BY <2>2, <3>4
  <2> QED BY <2>3, <2>4
<1>5. good(N)
  <2>1. N \notin bad
    BY <1>4
  <2> QED BY <1>1, <2>1
<1> QED BY <1>2, <1>5

-----------------------------------------------------------------------------
(* The inductive invariant.                                                *)

Queue == pending \o inbox

(* A message that says what a document's buffer is.                        *)
Touches(m, d) == m.is \in {"open", "change", "close"} /\ m.doc = d
Leaves(m) == IF m.is = "close" THEN Closed ELSE m.text

LastAbout(q, d, i) == Touches(q[i], d) /\ \A j \in 1..Len(q) : j > i => ~Touches(q[j], d)

(* A buffer is what the last message about it under way leaves, or what    *)
(* the server has when there is none.                                      *)
Accounts(q, over, buf) ==
  \A d \in Docs :
    /\ (\A i \in 1..Len(q) : ~Touches(q[i], d)) => over[d] = buf[d]
    /\ \A i \in 1..Len(q) : LastAbout(q, d, i) => buf[d] = Leaves(q[i])

(* A document is open in the server when the turn of its save comes.       *)
SaveOpen(q, over, i, d) ==
  /\ (\A j \in 1..Len(q) : j < i => ~Touches(q[j], d)) => over[d] # Closed
  /\ \A j \in 1..Len(q) :
       /\ j < i /\ Touches(q[j], d)
       /\ \A k \in 1..Len(q) : j < k /\ k < i => ~Touches(q[k], d)
       => q[j].is # "close"

SavesOpen(q, over) ==
  \A i \in 1..Len(q), d \in Docs : q[i].is = "save" /\ q[i].doc = d => SaveOpen(q, over, i, d)

Arriving == Accounts(Queue, overlay, buffer) /\ SavesOpen(Queue, overlay)

(* Only open documents have an AST and diagnostics; what is shown at a     *)
(* document merges all origins.                                            *)
OnlyOpen ==
  /\ \A d \in Docs : parsed[d] # Unparsed => d \in Open(overlay)
  /\ \A d \in Docs : d \notin Open(overlay) => published[d] = {}

ShownIsMerged == \A t \in Docs : shown[t] = Merged(published, t)

Published == OnlyOpen /\ ShownIsMerged /\ CleanDocsAreParsed

IInv == TypeOK /\ Arriving /\ Published

-----------------------------------------------------------------------------
(* Messages.                                                               *)

LEMMA TextIsNoMark ==
  ASSUME NEW t \in Text
  PROVE  /\ t # Closed /\ t # Unparsed /\ t # Absent
         /\ t.loads \in SUBSET Docs /\ t.mods \in SUBSET Docs
<1>1. t \in TextShape
  BY LanguageServerAssumption DEF LanguageServerAssumption
<1>2. t.is \in {"ok", "lint", "broken", "raises"} /\ t.loads \in SUBSET Docs /\ t.mods \in SUBSET Docs
  BY <1>1 DEF TextShape
<1>3. Closed.is = "closed" /\ Unparsed.is = "unparsed" /\ Absent.is = "absent"
  BY DEF Closed, Unparsed, Absent
<1> QED BY <1>2, <1>3

LEMMA MessageShape ==
  ASSUME NEW m \in Message
  PROVE  /\ m.is \in {"open", "change", "save", "close", "watched"}
         /\ m.is # "watched" => m.doc \in Docs
         /\ m.is \in {"open", "change"} => m.text \in Text
<1>1. CASE m \in [is : {"open", "change"}, doc : Docs, text : Text]
  BY <1>1
<1>2. CASE m \in [is : {"save", "close"}, doc : Docs]
  BY <1>2
<1>3. CASE m \in [is : {"watched"}]
  BY <1>3
<1> QED BY <1>1, <1>2, <1>3 DEF Message

(* One more message is sent.                                               *)
LEMMA MessageSent ==
  ASSUME NEW q \in Seq(Message), NEW r \in Seq(Message), NEW over, NEW old, NEW new,
         Accounts(q, over, old), SavesOpen(q, over),
         Len(r) = Len(q) + 1, \A i \in 1..Len(q) : r[i] = q[i],
         \A d \in Docs : new[d] = IF Touches(r[Len(r)], d) THEN Leaves(r[Len(r)]) ELSE old[d],
         \A d \in Docs : r[Len(r)].is = "save" /\ r[Len(r)].doc = d => old[d] # Closed
  PROVE  Accounts(r, over, new) /\ SavesOpen(r, over)
<1> DEFINE n == Len(q)
           m == r[n + 1]
<1>1. n \in Nat /\ Len(r) = n + 1 /\ \A i \in 1..(n + 1) : i \in 1..n \/ i = n + 1
  OBVIOUS
<1>2. \A d \in Docs : new[d] = IF Touches(m, d) THEN Leaves(m) ELSE old[d]
  OBVIOUS
<1>3. \A d \in Docs : m.is = "save" /\ m.doc = d => old[d] # Closed
  OBVIOUS
<1>4. \A i \in 1..n : r[i] = q[i]
  OBVIOUS
<1> HIDE DEF n, m
<1>5. \A i \in 1..n : i \in 1..(n + 1) /\ n + 1 > i
  BY <1>1
<1>6. n + 1 \in 1..(n + 1) /\ r[n + 1] = m
  BY <1>1 DEF m
<1>7. Accounts(r, over, new)
  <2> SUFFICES ASSUME NEW d \in Docs
               PROVE  /\ (\A i \in 1..(n + 1) : ~Touches(r[i], d)) => over[d] = new[d]
                      /\ \A i \in 1..(n + 1) : LastAbout(r, d, i) => new[d] = Leaves(r[i])
    BY <1>1 DEF Accounts
  <2>1. ASSUME \A i \in 1..(n + 1) : ~Touches(r[i], d) PROVE over[d] = new[d]
    <3>1. \A i \in 1..n : ~Touches(q[i], d)
      BY <1>4, <1>5, <2>1
    <3>2. ~Touches(m, d)
      BY <1>6, <2>1
    <3> QED BY <1>2, <3>1, <3>2 DEF Accounts, n
  <2>2. ASSUME NEW i \in 1..(n + 1), LastAbout(r, d, i) PROVE new[d] = Leaves(r[i])
    <3>1. CASE i = n + 1
      BY <1>2, <1>6, <2>2, <3>1 DEF LastAbout
    <3>2. CASE i \in 1..n
      <4>1. ~Touches(m, d)
        BY <1>1, <1>5, <1>6, <2>2, <3>2 DEF LastAbout
      <4>2. LastAbout(q, d, i)
        BY <1>1, <1>4, <1>5, <2>2, <3>2 DEF LastAbout, n
      <4> QED BY <1>2, <1>4, <3>2, <4>1, <4>2 DEF Accounts, n
    <3> QED BY <1>1, <3>1, <3>2
  <2> QED BY <2>1, <2>2
<1>8. SavesOpen(r, over)
  <2> SUFFICES ASSUME NEW i \in 1..(n + 1), NEW d \in Docs, r[i].is = "save", r[i].doc = d
               PROVE  SaveOpen(r, over, i, d)
    BY <1>1 DEF SavesOpen
  <2>1. CASE i \in 1..n
    <3>1. q[i].is = "save" /\ q[i].doc = d
      BY <1>4, <2>1
    <3>2. \A j \in 1..(n + 1) : j < i => j \in 1..n
      BY <1>1, <2>1
    <3>3. /\ (\A j \in 1..n : j < i => ~Touches(q[j], d)) => over[d] # Closed
          /\ \A j \in 1..n :
               /\ j < i /\ Touches(q[j], d)
               /\ \A k \in 1..n : j < k /\ k < i => ~Touches(q[k], d)
               => q[j].is # "close"
      BY <2>1, <3>1 DEF SavesOpen, SaveOpen, n
    <3> QED BY <1>1, <1>4, <1>5, <3>2, <3>3 DEF SaveOpen
  <2>2. CASE i = n + 1
    <3>1. old[d] # Closed
      BY <1>3, <1>6, <2>2
    <3>2. ASSUME \A j \in 1..(n + 1) : j < i => ~Touches(r[j], d) PROVE over[d] # Closed
      <4>1. \A j \in 1..n : ~Touches(q[j], d)
        BY <1>4, <1>5, <2>2, <3>2
      <4> QED BY <3>1, <4>1 DEF Accounts, n
    <3>3. ASSUME NEW j \in 1..(n + 1), j < i, Touches(r[j], d),
                 \A k \in 1..(n + 1) : j < k /\ k < i => ~Touches(r[k], d)
          PROVE  r[j].is # "close"
      <4>1. j \in 1..n
        BY <1>1, <2>2, <3>3
      <4>2. LastAbout(q, d, j)
        BY <1>1, <1>4, <1>5, <2>2, <3>3, <4>1 DEF LastAbout, n
      <4>3. old[d] = Leaves(q[j])
        BY <4>1, <4>2 DEF Accounts, n
      <4> QED BY <1>4, <3>1, <4>1, <4>3 DEF Leaves
    <3> QED BY <1>1, <3>2, <3>3 DEF SaveOpen
  <2> QED BY <1>1, <2>1, <2>2
<1> QED BY <1>7, <1>8

(* The first n messages of q are taken; h, the last of them, is handled.   *)
Takes(q, r, n, h) ==
  /\ n \in 1..Len(q) /\ h = q[n]
  /\ Len(r) = Len(q) - n /\ \A i \in 1..Len(r) : r[i] = q[i + n]
  /\ \A i \in 1..n : i # n => q[i].is = "change" /\ h.is = "change" /\ q[i].doc = h.doc

LEMMA MessageTaken ==
  ASSUME NEW q \in Seq(Message), NEW r \in Seq(Message), NEW n, NEW h, Takes(q, r, n, h),
         NEW buf, NEW old, NEW new, Accounts(q, old, buf), SavesOpen(q, old),
         \A d \in Docs : new[d] = IF Touches(h, d) THEN Leaves(h) ELSE old[d]
  PROVE  /\ Accounts(r, new, buf) /\ SavesOpen(r, new)
         /\ \A d \in Docs : h.is = "save" /\ h.doc = d => old[d] # Closed
<1> DEFINE N == Len(q)
<1>1. /\ N \in Nat /\ n \in 1..N /\ Len(r) = N - n /\ h = q[n] /\ h \in Message
      /\ \A i \in 1..(N - n) : r[i] = q[i + n]
  BY DEF Takes
<1>2. \A i \in 1..n : i # n => q[i].is = "change" /\ h.is = "change" /\ q[i].doc = h.doc
  BY DEF Takes
<1> HIDE DEF N
<1>3. /\ n \in Nat /\ n >= 1 /\ n <= N /\ N - n \in Nat
      /\ \A i \in 1..(N - n) : i + n \in 1..N /\ i + n > n
      /\ \A i \in 1..N : i \in 1..n \/ (i - n \in 1..(N - n) /\ (i - n) + n = i /\ i > n)
      /\ \A i \in 1..n : i \in 1..N /\ ~(i > n) /\ (i = n \/ i < n)
  BY <1>1
<1>4. ASSUME NEW d \in Docs, NEW i \in 1..n, Touches(q[i], d) PROVE Touches(h, d)
  BY <1>1, <1>2, <1>4 DEF Touches
<1>5. Accounts(r, new, buf)
  <2> SUFFICES ASSUME NEW d \in Docs
               PROVE  /\ (\A i \in 1..(N - n) : ~Touches(r[i], d)) => new[d] = buf[d]
                      /\ \A i \in 1..(N - n) : LastAbout(r, d, i) => buf[d] = Leaves(r[i])
    BY <1>1 DEF Accounts
  <2>1. ASSUME \A i \in 1..(N - n) : ~Touches(r[i], d) PROVE new[d] = buf[d]
    <3>1. \A j \in 1..N : j > n => ~Touches(q[j], d)
      <4> SUFFICES ASSUME NEW j \in 1..N, j > n PROVE ~Touches(q[j], d)
        OBVIOUS
      <4>1. j - n \in 1..(N - n) /\ (j - n) + n = j
        BY <1>3
      <4>2. r[j - n] = q[j]
        BY <1>1, <4>1
      <4> QED BY <2>1, <4>1, <4>2
    <3>2. CASE Touches(h, d)
      <4>1. LastAbout(q, d, n)
        BY <1>1, <3>1, <3>2 DEF LastAbout, N
      <4>2. buf[d] = Leaves(h)
        BY <1>1, <4>1 DEF Accounts, N
      <4> QED BY <3>2, <4>2
    <3>3. CASE ~Touches(h, d)
      <4>1. \A j \in 1..N : ~Touches(q[j], d)
        BY <1>3, <1>4, <3>1, <3>3
      <4> QED BY <3>3, <4>1 DEF Accounts, N
    <3> QED BY <3>2, <3>3
  <2>2. ASSUME NEW i \in 1..(N - n), LastAbout(r, d, i) PROVE buf[d] = Leaves(r[i])
    <3>1. i + n \in 1..N /\ r[i] = q[i + n]
      BY <1>1, <1>3
    <3>2. LastAbout(q, d, i + n)
      <4>1. Touches(q[i + n], d)
        BY <2>2, <3>1 DEF LastAbout
      <4>2. ASSUME NEW j \in 1..N, j > i + n PROVE ~Touches(q[j], d)
        <5>1. j - n \in 1..(N - n) /\ (j - n) + n = j /\ j - n > i
          BY <1>3, <4>2
        <5>2. r[j - n] = q[j]
          BY <1>1, <5>1
        <5> QED BY <1>1, <2>2, <5>1, <5>2 DEF LastAbout
      <4> QED BY <4>1, <4>2 DEF LastAbout, N
    <3> QED BY <3>1, <3>2 DEF Accounts, N
  <2> QED BY <2>1, <2>2
<1>6. SavesOpen(r, new)
  <2> SUFFICES ASSUME NEW i \in 1..(N - n), NEW d \in Docs, r[i].is = "save", r[i].doc = d
               PROVE  SaveOpen(r, new, i, d)
    BY <1>1 DEF SavesOpen
  <2>1. i + n \in 1..N /\ q[i + n].is = "save" /\ q[i + n].doc = d /\ n < i + n
    BY <1>1, <1>3
  <2>2. /\ (\A j \in 1..N : j < i + n => ~Touches(q[j], d)) => old[d] # Closed
        /\ \A j \in 1..N :
             /\ j < i + n /\ Touches(q[j], d)
             /\ \A k \in 1..N : j < k /\ k < i + n => ~Touches(q[k], d)
             => q[j].is # "close"
    BY <2>1 DEF SavesOpen, SaveOpen, N
  <2>3. ASSUME \A j \in 1..(N - n) : j < i => ~Touches(r[j], d) PROVE new[d] # Closed
    <3>1. \A k \in 1..N : n < k /\ k < i + n => ~Touches(q[k], d)
      <4> SUFFICES ASSUME NEW k \in 1..N, n < k, k < i + n PROVE ~Touches(q[k], d)
        OBVIOUS
      <4>1. k - n \in 1..(N - n) /\ (k - n) + n = k /\ k - n < i
        BY <1>3
      <4>2. r[k - n] = q[k]
        BY <1>1, <4>1
      <4> QED BY <2>3, <4>1, <4>2
    <3>2. CASE Touches(h, d)
      <4>1. h.is # "close"
        BY <1>1, <2>1, <2>2, <3>1, <3>2
      <4>2. new[d] = h.text /\ h.is \in {"open", "change"}
        BY <3>2, <4>1 DEF Touches, Leaves
      <4> QED BY <1>1, <4>2, MessageShape, TextIsNoMark
    <3>3. CASE ~Touches(h, d)
      <4>1. \A j \in 1..N : j < i + n => ~Touches(q[j], d)
        BY <1>3, <1>4, <3>1, <3>3
      <4> QED BY <2>2, <3>3, <4>1
    <3> QED BY <3>2, <3>3
  <2>4. ASSUME NEW j \in 1..(N - n), j < i, Touches(r[j], d),
               \A k \in 1..(N - n) : j < k /\ k < i => ~Touches(r[k], d)
        PROVE  r[j].is # "close"
    <3>1. j + n \in 1..N /\ r[j] = q[j + n] /\ j + n < i + n /\ j + n > n
      BY <1>1, <1>3, <2>4
    <3>2. \A k \in 1..N : j + n < k /\ k < i + n => ~Touches(q[k], d)
      <4> SUFFICES ASSUME NEW k \in 1..N, j + n < k, k < i + n PROVE ~Touches(q[k], d)
        OBVIOUS
      <4>1. k - n \in 1..(N - n) /\ (k - n) + n = k /\ j < k - n /\ k - n < i
        BY <1>3
      <4>2. r[k - n] = q[k]
        BY <1>1, <4>1
      <4> QED BY <2>4, <4>1, <4>2
    <3> QED BY <2>2, <2>4, <3>1, <3>2
  <2> QED BY <1>1, <2>3, <2>4 DEF SaveOpen
<1>7. ASSUME NEW d \in Docs, h.is = "save", h.doc = d PROVE old[d] # Closed
  <2>1. n = 1
    <3>1. n # 1 => 1 \in 1..n /\ 1 # n
      BY <1>3
    <3> QED BY <1>2, <1>7, <3>1
  <2>2. \A j \in 1..N : ~(j < n)
    BY <1>3, <2>1
  <2> QED BY <1>1, <1>7, <2>2 DEF SavesOpen, SaveOpen, N
<1> QED BY <1>5, <1>6, <1>7

(* Sequences joined and cut.                                               *)
LEMMA Joined ==
  ASSUME NEW S, NEW s \in Seq(S), NEW t \in Seq(S)
  PROVE  /\ s \o t \in Seq(S) /\ Len(s) \in Nat /\ Len(t) \in Nat /\ Len(s \o t) = Len(s) + Len(t)
         /\ \A i \in 1..Len(s) : (s \o t)[i] = s[i]
         /\ \A i \in 1..Len(t) : (s \o t)[Len(s) + i] = t[i]
         /\ s = <<>> <=> Len(s) = 0
OBVIOUS

LEMMA Rest ==
  ASSUME NEW S, NEW s \in Seq(S), NEW a \in Nat, a <= Len(s)
  PROVE  /\ SubSeq(s, a + 1, Len(s)) \in Seq(S) /\ Len(SubSeq(s, a + 1, Len(s))) = Len(s) - a
         /\ \A i \in 1..(Len(s) - a) : SubSeq(s, a + 1, Len(s))[i] = s[i + a]
OBVIOUS

(* What is taken when the server serves.                                   *)
LEMMA RunLengthIs ==
  ASSUME NEW m, NEW s \in Seq(Message)
  PROVE  RunLength(m, s) \in 0..Len(s) /\ \A i \in 1..RunLength(m, s) : SameDocument(m, s[i])
<1> DEFINE N == Len(s)
           P(k) == /\ \A i \in 1..k : SameDocument(m, s[i])
                   /\ k < N => ~SameDocument(m, s[k + 1])
           S == {j \in Nat : j >= 1 /\ j <= N /\ ~SameDocument(m, s[j])}
<1>1. N \in Nat
  OBVIOUS
<1> HIDE DEF N
<1>2. \E k \in 0..N : P(k)
  <2>1. CASE S = {}
    <3>1. P(N) /\ N \in 0..N
      BY <1>1, <2>1
    <3> QED BY <3>1
  <2>2. CASE S # {}
    <3>1. S \in SUBSET Nat
      OBVIOUS
    <3>2. PICK j \in S : \A i \in S : j <= i
      <4> HIDE DEF S
      <4> QED BY <2>2, <3>1, SmallestExists
    <3>3. j - 1 \in 0..N /\ (j - 1) + 1 = j
      BY <1>1, <3>2
    <3>4. ASSUME NEW i \in 1..(j - 1) PROVE SameDocument(m, s[i])
      <4>1. i \in Nat /\ i >= 1 /\ i <= N /\ ~(j <= i)
        BY <1>1, <3>2
      <4> QED BY <3>2, <4>1
    <3>5. P(j - 1)
      BY <3>2, <3>3, <3>4
    <3> HIDE DEF P
    <3> QED BY <3>3, <3>5
  <2> QED BY <2>1, <2>2
<1>3. RunLength(m, s) = CHOOSE k \in 0..N : P(k)
  BY DEF RunLength, N
<1>4. RunLength(m, s) \in 0..N /\ P(RunLength(m, s))
  <2> HIDE DEF P
  <2> QED BY <1>2, <1>3
<1> QED BY <1>4 DEF N

LEMMA QueueIsSplit ==
  ASSUME TypeOK, Queue # <<>>
  PROVE  LET m == Head(Queue)
             queue == IF pending = <<>> THEN Tail(inbox) ELSE inbox
         IN  /\ Queue \in Seq(Message) /\ Len(Queue) \in Nat \ {0} /\ m = Queue[1]
             /\ queue \in Seq(Message) /\ Len(queue) = Len(Queue) - 1
             /\ \A i \in 1..Len(queue) : queue[i] = Queue[i + 1]
<1>1. pending \in Seq(Message) /\ inbox \in Seq(Message) /\ Len(pending) <= 1
  BY DEF TypeOK
<1> HIDE DEF TypeOK
<1>2. CASE pending = <<>>
  <2>1. Queue = inbox
    BY <1>1, <1>2 DEF Queue
  <2> QED BY <1>1, <1>2, <2>1
<1>3. CASE pending # <<>>
  <2>0. /\ Queue \in Seq(Message) /\ Len(pending) \in Nat /\ Len(inbox) \in Nat
        /\ Len(Queue) = Len(pending) + Len(inbox) /\ Len(pending) # 0
        /\ \A i \in 1..Len(inbox) : Queue[Len(pending) + i] = inbox[i]
    BY <1>1, <1>3, Joined DEF Queue
  <2>1. Len(pending) = 1
    <3>1. \A n \in Nat : n <= 1 /\ n # 0 => n = 1
      OBVIOUS
    <3> QED BY <1>1, <2>0, <3>1
  <2>2. Queue \in Seq(Message) /\ Len(Queue) = Len(inbox) + 1
    BY <2>0, <2>1
  <2>3. \A i \in 1..Len(inbox) : Queue[i + 1] = inbox[i]
    BY <2>0, <2>1
  <2> QED BY <1>1, <1>3, <2>1, <2>2, <2>3
<1> QED BY <1>2, <1>3

(* What is left of a queue after its first k messages.                     *)
LEMMA RestIs ==
  ASSUME NEW q \in Seq(Message), NEW k \in 0..Len(q)
  PROVE  LET rest == SubSeq(q, k + 1, Len(q))
         IN  /\ rest \in Seq(Message) /\ Len(rest) = Len(q) - k
             /\ \A i \in 1..(Len(q) - k) : rest[i] = q[i + k]
<1>1. Len(q) \in Nat /\ k \in Nat /\ k <= Len(q)
  OBVIOUS
<1>2. Len(SubSeq(q, k + 1, Len(q))) = Len(q) - k
  BY <1>1
<1>3. \A i \in 1..(Len(q) - k) : SubSeq(q, k + 1, Len(q))[i] = q[i + k]
  BY <1>1
<1> QED BY <1>1, <1>2, <1>3

LEMMA ServeTakes ==
  ASSUME TypeOK, Serve
  PROVE  /\ Queue \in Seq(Message) /\ Queue' \in Seq(Message)
         /\ pending' \in Seq(Message) /\ inbox' \in Seq(Message) /\ Len(pending') <= 1
         /\ \E n, h : Takes(Queue, Queue', n, h) /\ Handled(h)
                      /\ (Head(Queue).is # "change" => h = Head(Queue))
                      /\ (Head(Queue).is = "change" => h.is = "change")
<1> DEFINE m == Head(Queue)
           queue == IF pending = <<>> THEN Tail(inbox) ELSE inbox
           N == Len(Queue)
<1>1. /\ Queue # <<>>
      /\ IF m.is = "change" THEN Coalesce(m, queue)
         ELSE Handled(m) /\ pending' = <<>> /\ inbox' = queue
  BY DEF Serve, Queue
<1>2. /\ Queue \in Seq(Message) /\ N \in Nat \ {0} /\ m = Queue[1]
      /\ queue \in Seq(Message) /\ Len(queue) = N - 1
      /\ \A i \in 1..(N - 1) : queue[i] = Queue[i + 1]
  BY <1>1, QueueIsSplit
<1> HIDE DEF m, queue, N
<1>3. CASE m.is # "change"
  <2>1. Handled(m) /\ pending' = <<>> /\ inbox' = queue
    BY <1>1, <1>3
  <2>2. Queue' = queue
    BY <1>2, <2>1 DEF Queue
  <2>3. Takes(Queue, Queue', 1, m)
    BY <1>2, <2>2 DEF Takes, N
  <2> QED BY <1>2, <1>3, <2>1, <2>2, <2>3 DEF m
<1>4. CASE m.is = "change"
  <2>1. Coalesce(m, queue)
    BY <1>1, <1>4
  <2>2. PICK arrived \in 0..(N - 1) :
          LET here == SubSeq(queue, 1, arrived)
              k == RunLength(m, here)
              other == IF k = arrived THEN <<>> ELSE <<queue[k + 1]>>
          IN  /\ Handled(IF k = 0 THEN m ELSE queue[k])
              /\ pending' = other
              /\ inbox' = SubSeq(queue, k + 1 + Len(other), Len(queue))
    BY <1>2, <2>1 DEF Coalesce, SetAside
  <2> DEFINE here == SubSeq(queue, 1, arrived)
             k == RunLength(m, here)
  <2>3. here \in Seq(Message) /\ Len(here) = arrived /\ \A i \in 1..arrived : here[i] = queue[i]
    BY <1>2
  <2>4. k \in 0..arrived /\ \A i \in 1..k : SameDocument(m, here[i])
    BY <2>3, RunLengthIs
  <2> DEFINE other == IF k = arrived THEN <<>> ELSE <<queue[k + 1]>>
             h == IF k = 0 THEN m ELSE queue[k]
  <2>5. /\ Handled(h) /\ pending' = other
        /\ inbox' = SubSeq(queue, k + 1 + Len(other), N - 1)
    BY <1>2, <2>2
  <2> HIDE DEF here, k
  <2>6. /\ k \in Nat /\ k <= N - 1 /\ N - 1 \in Nat /\ N \in Nat
        /\ \A i \in 1..k : i \in 1..(N - 1) /\ queue[i].is = "change" /\ queue[i].doc = m.doc
    BY <1>2, <2>3, <2>4 DEF SameDocument
  <2>7. /\ pending' \in Seq(Message) /\ Len(pending') <= 1 /\ inbox' \in Seq(Message)
        /\ Queue' \in Seq(Message) /\ Len(Queue') = N - (k + 1)
        /\ \A i \in 1..(N - (k + 1)) : Queue'[i] = queue[i + k]
    <3>1. CASE k = arrived
      <4>1. other = <<>>
        BY <3>1
      <4>2. pending' = <<>> /\ inbox' = SubSeq(queue, k + 1, N - 1)
        BY <2>5, <2>6, <4>1
      <4>3. /\ inbox' \in Seq(Message) /\ Len(inbox') = N - (k + 1)
            /\ \A i \in 1..(N - (k + 1)) : inbox'[i] = queue[i + k]
        <5>1. queue \in Seq(Message) /\ Len(queue) = N - 1
          BY <1>2
        <5>2. inbox' = SubSeq(queue, k + 1, Len(queue)) /\ k \in 0..Len(queue)
          BY <2>6, <4>2, <5>1
        <5>3. /\ inbox' \in Seq(Message) /\ Len(inbox') = Len(queue) - k
              /\ \A i \in 1..(Len(queue) - k) : inbox'[i] = queue[i + k]
          BY <5>1, <5>2, RestIs
        <5> QED BY <2>6, <5>1, <5>3
      <4>4. Queue' = inbox'
        BY <4>2, <4>3 DEF Queue
      <4> QED BY <4>2, <4>3, <4>4
    <3>2. CASE k # arrived
      <4>1. other = <<queue[k + 1]>> /\ k + 1 \in 1..(N - 1)
        BY <2>4, <2>6, <3>2
      <4>2. queue[k + 1] \in Message
        BY <1>2, <4>1
      <4>3. pending' = <<queue[k + 1]>> /\ inbox' = SubSeq(queue, k + 2, N - 1)
        <5>1. Len(<<queue[k + 1]>>) = 1 /\ k + 1 + 1 = k + 2
          BY <2>6
        <5>2. Len(other) = 1
          BY <4>1, <5>1
        <5> HIDE DEF other
        <5>3. k + 1 + Len(other) = k + 2
          BY <5>1, <5>2
        <5> QED BY <2>5, <4>1, <5>3
      <4>4. /\ inbox' \in Seq(Message) /\ Len(inbox') = N - (k + 2)
            /\ \A i \in 1..(N - (k + 2)) : inbox'[i] = queue[i + (k + 1)]
        <5> DEFINE a == k + 1
        <5>1. a \in Nat /\ a <= Len(queue) /\ Len(queue) = N - 1 /\ a + 1 = k + 2
              /\ (N - 1) - a = N - (k + 2)
          BY <1>2, <2>6, <4>1
        <5>2. inbox' = SubSeq(queue, a + 1, Len(queue))
          BY <4>3, <5>1
        <5> HIDE DEF a
        <5>3. queue \in Seq(Message)
          BY <1>2
        <5> DEFINE b == SubSeq(queue, a + 1, Len(queue))
        <5>4. /\ b \in Seq(Message) /\ Len(b) = Len(queue) - a
              /\ \A i \in 1..(Len(queue) - a) : b[i] = queue[i + a]
          BY <5>1, <5>3, Rest
        <5> HIDE DEF b
        <5>5. inbox' = b /\ Len(queue) - a = N - (k + 2)
          BY <5>1, <5>2 DEF b
        <5> QED BY <5>4, <5>5 DEF a
      <4>5. pending' \in Seq(Message) /\ Len(pending') = 1 /\ pending'[1] = queue[k + 1]
        BY <4>2, <4>3
      <4>6. /\ Queue' \in Seq(Message) /\ Len(Queue') = N - (k + 1)
            /\ Queue'[1] = queue[1 + k]
            /\ \A i \in 2..(N - (k + 1)) : Queue'[i] = inbox'[i - 1]
        <5>1. /\ Queue' \in Seq(Message) /\ Len(Queue') = 1 + Len(inbox')
              /\ Queue'[1] = pending'[1]
              /\ \A i \in 1..Len(inbox') : Queue'[1 + i] = inbox'[i]
          <6> DEFINE a == pending'
                     b == inbox'
          <6>0. a \in Seq(Message) /\ b \in Seq(Message)
            BY <4>4, <4>5
          <6>1. Len(a) = 1 /\ Queue' = a \o b
            BY <4>5 DEF Queue
          <6> HIDE DEF a, b
          <6>2. /\ a \o b \in Seq(Message) /\ Len(a \o b) = Len(a) + Len(b)
                /\ \A i \in 1..Len(a) : (a \o b)[i] = a[i]
                /\ \A i \in 1..Len(b) : (a \o b)[Len(a) + i] = b[i]
            BY <6>0, Joined
          <6>3. (a \o b)[1] = a[1]
            BY <6>1, <6>2
          <6> QED BY <6>1, <6>2, <6>3 DEF a, b
        <5>2. ASSUME NEW i \in 2..(N - (k + 1)) PROVE Queue'[i] = inbox'[i - 1]
          <6>1. i - 1 \in 1..Len(inbox') /\ 1 + (i - 1) = i
            BY <2>6, <4>4
          <6> QED BY <5>1, <6>1
        <5>3. 1 + (N - (k + 2)) = N - (k + 1)
          BY <2>6
        <5>4. k + 1 = 1 + k
          BY <2>6
        <5> QED BY <4>4, <4>5, <5>1, <5>2, <5>3, <5>4
      <4>7. \A i \in 2..(N - (k + 1)) : inbox'[i - 1] = queue[i + k]
        <5> SUFFICES ASSUME NEW i \in 2..(N - (k + 1)) PROVE inbox'[i - 1] = queue[i + k]
          OBVIOUS
        <5>1. i - 1 \in 1..(N - (k + 2)) /\ (i - 1) + (k + 1) = i + k
          BY <2>6, <4>1
        <5> QED BY <4>4, <5>1
      <4>8. \A i \in 1..(N - (k + 1)) : i = 1 \/ i \in 2..(N - (k + 1))
        BY <2>6
      <4>9. \A i \in 1..(N - (k + 1)) : Queue'[i] = queue[i + k]
        BY <4>6, <4>7, <4>8
      <4> QED BY <4>4, <4>5, <4>6, <4>9
    <3> QED BY <3>1, <3>2
  <2>8. h = Queue[k + 1] /\ h.is = "change" /\ h.doc = m.doc
    <3>1. CASE k = 0
      BY <1>2, <1>4, <3>1
    <3>2. CASE k # 0
      <4>1. k \in 1..k /\ k \in 1..(N - 1)
        BY <2>6, <3>2
      <4> QED BY <1>2, <2>6, <3>2, <4>1
    <3> QED BY <3>1, <3>2
  <2> HIDE DEF h, other
  <2>9. Takes(Queue, Queue', k + 1, h)
    <3>1. k + 1 \in 1..N
      BY <2>6
    <3>2. ASSUME NEW i \in 1..(N - (k + 1)) PROVE Queue'[i] = Queue[i + (k + 1)]
      <4>1. i + k \in 1..(N - 1) /\ (i + k) + 1 = i + (k + 1)
        BY <2>6
      <4> QED BY <1>2, <2>7, <4>1
    <3>3. ASSUME NEW i \in 1..(k + 1), i # k + 1 PROVE Queue[i].is = "change" /\ Queue[i].doc = m.doc
      <4>1. CASE i = 1
        BY <1>2, <1>4, <4>1
      <4>2. CASE i # 1
        <5>1. i - 1 \in 1..k /\ (i - 1) + 1 = i
          BY <2>6, <3>3, <4>2
        <5> QED BY <1>2, <2>6, <5>1
      <4> QED BY <4>1, <4>2
    <3> QED BY <2>7, <2>8, <3>1, <3>2, <3>3 DEF Takes, N
  <2> QED BY <1>2, <1>4, <2>5, <2>7, <2>8, <2>9 DEF m
<1> QED BY <1>3, <1>4

-----------------------------------------------------------------------------
(* Publishing and validation.                                              *)

(* A target that is not sent again has the same diagnostics as before.     *)
LEMMA PublishMerges ==
  ASSUME published \in [Docs -> SUBSET Diagnostic], shown \in [Docs -> SUBSET Kinds], ShownIsMerged,
         NEW new \in [Docs -> SUBSET Diagnostic], Publish(new)
  PROVE  published' = new /\ shown' \in [Docs -> SUBSET Kinds] /\ ShownIsMerged'
<1> DEFINE affected == UNION {AffectedTargets(o, published[o], new[o]) :
                                o \in {x \in Docs : new[x] # published[x]}}
<1>1. /\ published' = new
      /\ shown' = [t \in Docs |-> IF t \in affected THEN Merged(new, t) ELSE shown[t]]
  BY DEF Publish
<1>2. ASSUME NEW t \in Docs PROVE Merged(new, t) \subseteq Kinds
  <2>1. \A g : g \in UNION {new[o] : o \in Docs} => g.is \in Kinds
    BY DEF Diagnostic
  <2> QED BY <2>1 DEF Merged
<1>3. ASSUME NEW t \in Docs, t \notin affected PROVE Merged(new, t) = Merged(published, t)
  <2>1. ASSUME NEW o \in Docs, NEW x, x.at = t PROVE x \in new[o] <=> x \in published[o]
    <3>1. CASE new[o] = published[o]
      BY <3>1
    <3>2. CASE new[o] # published[o]
      <4>1. t \notin AffectedTargets(o, published[o], new[o])
        BY <1>3, <3>2
      <4> QED BY <2>1, <4>1 DEF AffectedTargets
    <3> QED BY <3>1, <3>2
  <2>2. {x \in UNION {new[o] : o \in Docs} : x.at = t}
          = {x \in UNION {published[o] : o \in Docs} : x.at = t}
    BY <2>1
  <2> QED BY <2>2 DEF Merged
<1> HIDE DEF affected
<1>4. \A t \in Docs : shown'[t] = Merged(new, t)
  BY <1>1, <1>3 DEF ShownIsMerged
<1>5. shown' \in [Docs -> SUBSET Kinds]
  BY <1>1, <1>2
<1>6. ShownIsMerged'
  BY <1>1, <1>4 DEF ShownIsMerged
<1> QED BY <1>1, <1>5, <1>6

Views == [Docs -> Text \cup {Absent}]

LEMMA DiagnosedIsOfDocs ==
  ASSUME NEW view \in Views, NEW res, NEW d \in Docs
  PROVE  Diagnosed(view, res, d) \in SUBSET Diagnostic
<1> DEFINE next == [v \in Docs |-> IF view[v] = Absent THEN {} ELSE view[v].mods]
<1>1. \A v \in Docs : next[v] \subseteq Docs
  BY TextIsNoMark DEF Views
<1>2. Linted(view, d) \subseteq Docs
  <2> HIDE DEF next
  <2>1. Closure(next, {d}) \subseteq Docs
    BY <1>1, ClosureStays
  <2> USE DEF next
  <2> QED BY <2>1 DEF Linted
<1>3. ErrorAt(view, res, d) \in Docs
  <2>1. ASSUME Runs(view, res, d) PROVE Raising(view, d) \subseteq Docs
    <3>1. view[d] \in Text
      BY <2>1 DEF Runs, Views
    <3>2. view[d].loads \subseteq Docs
      BY <3>1, TextIsNoMark
    <3> QED BY <3>2 DEF Raising
  <2> QED BY <2>1 DEF ErrorAt
<1> QED BY <1>2, <1>3 DEF Diagnosed, Diagnostic, Kinds

LEMMA FailureIsAnError ==
  ASSUME NEW view, NEW res, NEW d, ~Evaluates(view, res, d)
  PROVE  \E x \in Diagnosed(view, res, d) : x.is = "error"
BY DEF Diagnosed

(* Documents that may be validated are open, and only open ones change.    *)
LEMMA ValidationPublishes ==
  ASSUME TypeOK, Published,
         NEW over \in [Docs -> Text \cup {Closed}], NEW res,
         NEW docs \in SUBSET Open(over), NEW probed \in SUBSET Open(over),
         \A d \in Docs \ docs : over[d] = overlay[d],
         overlay' = over, ValidateAll(over, res, docs, probed)
  PROVE  /\ parsed' \in [Docs -> Text \cup {Unparsed}] /\ modDeps' \in [Docs -> SUBSET Docs]
         /\ published' \in [Docs -> SUBSET Diagnostic] /\ shown' \in [Docs -> SUBSET Kinds]
         /\ Published'
         /\ \A d \in docs : published'[d] = Diagnosed(View(over), res, d)
<1> DEFINE view == View(over)
           ok == {d \in docs \cup probed : Evaluates(view, res, d)}
           new == [d \in Docs |-> IF d \in docs THEN Diagnosed(view, res, d) ELSE published[d]]
<1>1. /\ parsed' = [d \in Docs |-> IF d \in docs \cap ok THEN view[d] ELSE parsed[d]]
      /\ modDeps' = [d \in Docs |-> IF d \in ok THEN view[d].mods ELSE modDeps[d]]
      /\ Publish(new)
  BY DEF ValidateAll, KeptAst
<1>2. /\ parsed \in [Docs -> Text \cup {Unparsed}] /\ modDeps \in [Docs -> SUBSET Docs]
      /\ published \in [Docs -> SUBSET Diagnostic] /\ shown \in [Docs -> SUBSET Kinds]
      /\ disk \in [Docs -> Text \cup {Absent}]
  BY DEF TypeOK
<1>3. view \in Views /\ \A d \in Open(over) : view[d] = over[d] /\ view[d] \in Text
  BY <1>2 DEF View, Open, Views
<1>4. Open(over) \subseteq Docs /\ ok \subseteq Open(over)
  BY DEF Open
<1>5. \A d \in docs : d \notin ok => \E x \in Diagnosed(view, res, d) : x.is = "error"
  BY FailureIsAnError
<1>6. new \in [Docs -> SUBSET Diagnostic]
  <2> HIDE DEF view
  <2> QED BY <1>2, <1>3, DiagnosedIsOfDocs
<1> HIDE DEF view, ok
<1>7. published' = new /\ shown' \in [Docs -> SUBSET Kinds] /\ ShownIsMerged'
  <2> HIDE DEF new
  <2> QED BY <1>1, <1>2, <1>6, PublishMerges DEF Published
<1>8. \A d \in Docs : d \notin docs => published'[d] = published[d] /\ over[d] = overlay[d]
  BY <1>7
<1>9. \A d \in docs : published'[d] = Diagnosed(view, res, d)
  BY <1>4, <1>7
<1>10. parsed' \in [Docs -> Text \cup {Unparsed}] /\ modDeps' \in [Docs -> SUBSET Docs]
  BY <1>1, <1>2, <1>3, <1>4, TextIsNoMark
<1>11. OnlyOpen'
  <2>1. ASSUME NEW d \in Docs, parsed'[d] # Unparsed PROVE over[d] # Closed
    BY <1>1, <1>8, <2>1 DEF Published, OnlyOpen, Open
  <2>2. ASSUME NEW d \in Docs, over[d] = Closed PROVE published'[d] = {}
    BY <1>8, <2>2 DEF Published, OnlyOpen, Open
  <2> QED BY <2>1, <2>2 DEF OnlyOpen, Open
<1>12. CleanDocsAreParsed'
  <2> SUFFICES ASSUME NEW d \in Docs, over[d] # Closed, \A x \in published'[d] : x.is # "error"
               PROVE  parsed'[d] = over[d] /\ modDeps'[d] = over[d].mods
    BY DEF CleanDocsAreParsed, Open
  <2>1. view[d] = over[d]
    BY <1>3 DEF Open
  <2>2. CASE d \in docs
    <3>1. d \in ok
      BY <1>5, <1>9, <2>2
    <3> QED BY <1>1, <2>1, <2>2, <3>1
  <2>3. CASE d \notin docs
    <3>1. parsed[d] = over[d] /\ modDeps[d] = over[d].mods
      BY <1>8, <2>3 DEF Published, CleanDocsAreParsed, Open
    <3> QED BY <1>1, <2>1, <2>3, <3>1
  <2> QED BY <2>2, <2>3
<1>13. Published'
  BY <1>7, <1>11, <1>12 DEF Published
<1> QED BY <1>6, <1>7, <1>9, <1>10, <1>13 DEF view

-----------------------------------------------------------------------------
(* Handling one message.                                                   *)

(* The parts of the invariant that handling a message may disturb.         *)
HandlingKeeps ==
  /\ overlay' \in [Docs -> Text \cup {Closed}]
  /\ parsed' \in [Docs -> Text \cup {Unparsed}] /\ modDeps' \in [Docs -> SUBSET Docs]
  /\ resolved' \in ManifestStates \cup {Unresolved}
  /\ published' \in [Docs -> SUBSET Diagnostic] /\ shown' \in [Docs -> SUBSET Kinds]
  /\ Published'

LEMMA ResolutionIsState ==
  ASSUME TypeOK, NEW cache \in ManifestStates \cup {Unresolved}
  PROVE  Cached(cache) \in ManifestStates \cup {Unresolved}
BY LanguageServerAssumption DEF LanguageServerAssumption, TypeOK, Cached, Resolution

LEMMA TrackedIsOpen ==
  ASSUME TypeOK, Published, NEW over, \A d \in Open(overlay) : over[d] # Closed
  PROVE  Tracked(over) = Open(over)
BY DEF Published, OnlyOpen, Tracked, Open

(* A change of a document reaches it and tracked documents only.           *)
LEMMA DependentsAreTracked ==
  ASSUME NEW over, NEW res, NEW d \in Docs
  PROVE  d \in Dependents(over, res, d) /\ Dependents(over, res, d) \subseteq {d} \cup Tracked(over)
<1> DEFINE importers == [c \in Docs |-> {u \in Tracked(over) : c \in DependsOn(View(over), res, u)}]
           S == {d} \cup Tracked(over)
<1>1. S \subseteq Docs /\ \A c \in S : importers[c] \subseteq S
  BY DEF Tracked, Open
<1> HIDE DEF importers
<1>2. Closure(importers, {d}) \subseteq S /\ {d} \subseteq Closure(importers, {d})
  <2> HIDE DEF S
  <2>1. {d} \subseteq S
    BY DEF S
  <2> QED BY <1>1, <2>1, ClosureStays
<1> USE DEF importers
<1> QED BY <1>2 DEF Dependents

(* did_change refreshes what is known to load the document, directly or    *)
(* through other documents: a known document's AST and module edges are    *)
(* those of its text.                                                      *)
LEMMA KnownLoadersDepend ==
  ASSUME TypeOK, NEW over, NEW res, NEW d \in Docs
  PROVE  KnownLoaders(d) \subseteq Dependents(over, res, d)
<1> DEFINE few == [c \in Docs |-> {u \in Open(overlay) : Known(u) /\ c \in Uses(overlay[u])}]
           many == [c \in Docs |-> {u \in Tracked(over) : c \in DependsOn(View(over), res, u)}]
<1>1. ASSUME NEW u \in Open(overlay), Known(u)
      PROVE  u \in Tracked(over) /\ Uses(overlay[u]) = DependsOn(View(over), res, u)
  <2>1. overlay[u] \in Text /\ u \in Docs
    BY <1>1 DEF TypeOK, Open
  <2>2. parsed[u] = overlay[u] /\ modDeps[u] = overlay[u].mods
    BY <1>1 DEF Known
  <2>3. overlay[u] # Unparsed /\ overlay[u] # Absent
    BY <2>1, TextIsNoMark
  <2> QED BY <2>1, <2>2, <2>3 DEF Tracked, Uses, DependsOn
<1>2. \A c \in Docs : few[c] \subseteq Docs /\ few[c] \subseteq many[c]
  BY <1>1 DEF Open
<1>3. Closure(few, {d}) \subseteq Closure(many, {d})
  <2> HIDE DEF few, many
  <2> QED BY <1>2, ClosureRises
<1> QED BY <1>3 DEF KnownLoaders, Dependents

LEMMA TextHandled ==
  ASSUME TypeOK, Published, NEW m \in Message, HandleText(m)
  PROVE  /\ HandlingKeeps
         /\ \A d \in Docs : overlay'[d] = IF Touches(m, d) THEN Leaves(m) ELSE overlay[d]
         /\ \A d \in Docs : d # m.doc => overlay'[d] = overlay[d]
         /\ \A u \in KnownLoaders(m.doc) :
              published'[u] = Diagnosed(View(overlay'), Resolution(resolved), u)
<1> DEFINE over == [overlay EXCEPT ![m.doc] = m.text]
           res == Resolution(resolved)
           docs == {m.doc} \cup Dependents(over, res, m.doc)
           probed == {u \in Tracked(over) : parsed[u] = Unparsed}
<1>1. /\ m.is \in {"open", "change"} /\ overlay' = over /\ resolved' = Cached(resolved)
      /\ ValidateAll(over, res, docs, probed)
  BY DEF HandleText
<1>2. m.doc \in Docs /\ m.text \in Text /\ m.text # Closed
  BY <1>1, MessageShape, TextIsNoMark
<1>3. /\ overlay \in [Docs -> Text \cup {Closed}] /\ resolved \in ManifestStates \cup {Unresolved}
      /\ over \in [Docs -> Text \cup {Closed}] /\ over[m.doc] = m.text
      /\ \A d \in Docs : d # m.doc => over[d] = overlay[d]
  BY <1>2 DEF TypeOK
<1>4. \A d \in Docs : overlay'[d] = IF Touches(m, d) THEN Leaves(m) ELSE overlay[d]
  BY <1>1, <1>2, <1>3 DEF Touches, Leaves
<1> HIDE DEF over
<1>5. Tracked(over) = Open(over) /\ m.doc \in Open(over)
  <2>1. \A d \in Open(overlay) : over[d] # Closed
    BY <1>2, <1>3 DEF Open
  <2> QED BY <1>2, <1>3, <2>1, TrackedIsOpen DEF Open
<1>6. docs \in SUBSET Open(over) /\ probed \in SUBSET Open(over)
  BY <1>2, <1>5, DependentsAreTracked
<1>7. \A d \in Docs \ docs : over[d] = overlay[d]
  BY <1>3
<1>8. KnownLoaders(m.doc) \subseteq docs
  BY <1>2, KnownLoadersDepend
<1> HIDE DEF docs, probed, res
<1>9. /\ parsed' \in [Docs -> Text \cup {Unparsed}] /\ modDeps' \in [Docs -> SUBSET Docs]
      /\ published' \in [Docs -> SUBSET Diagnostic] /\ shown' \in [Docs -> SUBSET Kinds]
      /\ Published'
      /\ \A d \in docs : published'[d] = Diagnosed(View(over), res, d)
  BY <1>1, <1>3, <1>6, <1>7, ValidationPublishes
<1>10. HandlingKeeps
  BY <1>1, <1>3, <1>9, ResolutionIsState DEF HandlingKeeps
<1> QED BY <1>1, <1>3, <1>4, <1>8, <1>9, <1>10 DEF res

(* A save and a change of the manifest: every open document is refreshed   *)
(* against the manifest as it is.                                          *)
LEMMA SaveHandled ==
  ASSUME TypeOK, Published, NEW m \in Message, HandleSave(m),
         \A d \in Docs : m.is = "save" /\ m.doc = d => overlay[d] # Closed
  PROVE  /\ HandlingKeeps /\ m.is = "save" /\ overlay' = overlay
         /\ \A d \in Open(overlay) : published'[d] = Diagnosed(View(overlay), manifest, d)
<1> DEFINE docs == {m.doc} \cup Tracked(overlay)
<1>1. /\ m.is = "save" /\ overlay' = overlay /\ resolved' = Cached(Unresolved)
      /\ ValidateAll(overlay, manifest, docs, {})
  BY DEF HandleSave, Invalidated, Swept, Resolution
<1>2. m.doc \in Docs /\ overlay \in [Docs -> Text \cup {Closed}]
  BY <1>1, MessageShape DEF TypeOK
<1>3. docs = Open(overlay)
  <2>1. Tracked(overlay) = Open(overlay)
    BY TrackedIsOpen DEF Open
  <2> QED BY <1>1, <1>2, <2>1 DEF Open
<1> HIDE DEF docs
<1>4. /\ parsed' \in [Docs -> Text \cup {Unparsed}] /\ modDeps' \in [Docs -> SUBSET Docs]
      /\ published' \in [Docs -> SUBSET Diagnostic] /\ shown' \in [Docs -> SUBSET Kinds]
      /\ Published'
      /\ \A d \in docs : published'[d] = Diagnosed(View(overlay), manifest, d)
  BY <1>1, <1>2, <1>3, ValidationPublishes
<1> QED BY <1>1, <1>2, <1>3, <1>4, ResolutionIsState DEF HandlingKeeps

LEMMA WatchedHandled ==
  ASSUME TypeOK, Published, NEW m \in Message, HandleWatched(m)
  PROVE  /\ HandlingKeeps /\ m.is = "watched" /\ overlay' = overlay
         /\ \A d \in Open(overlay) : published'[d] = Diagnosed(View(overlay), manifest, d)
<1>1. /\ m.is = "watched" /\ overlay' = overlay /\ resolved' \in {Unresolved, Cached(Unresolved)}
      /\ ValidateAll(overlay, manifest, Tracked(overlay), {})
  BY DEF HandleWatched, Invalidated, Resolution
<1>2. Tracked(overlay) = Open(overlay) /\ overlay \in [Docs -> Text \cup {Closed}]
  BY TrackedIsOpen DEF Open, TypeOK
<1>3. /\ parsed' \in [Docs -> Text \cup {Unparsed}] /\ modDeps' \in [Docs -> SUBSET Docs]
      /\ published' \in [Docs -> SUBSET Diagnostic] /\ shown' \in [Docs -> SUBSET Kinds]
      /\ Published'
      /\ \A d \in Open(overlay) : published'[d] = Diagnosed(View(overlay), manifest, d)
  BY <1>1, <1>2, ValidationPublishes
<1> QED BY <1>1, <1>2, <1>3, ResolutionIsState DEF HandlingKeeps

(* What a closed document put anywhere is taken back.                      *)
LEMMA CloseHandled ==
  ASSUME TypeOK, Published, NEW m \in Message, HandleClose(m)
  PROVE  /\ HandlingKeeps
         /\ \A d \in Docs : overlay'[d] = IF Touches(m, d) THEN Leaves(m) ELSE overlay[d]
         /\ m.is = "close" /\ \A d \in Docs : overlay'[d] \in {overlay[d], Closed}
<1>1. /\ m.is = "close" /\ overlay' = [overlay EXCEPT ![m.doc] = Closed]
      /\ parsed' = [parsed EXCEPT ![m.doc] = Unparsed]
      /\ Publish(WithoutOrigin(m.doc)) /\ modDeps' = modDeps /\ resolved' = resolved
  BY DEF HandleClose
<1>2. /\ m.doc \in Docs /\ overlay \in [Docs -> Text \cup {Closed}]
      /\ parsed \in [Docs -> Text \cup {Unparsed}] /\ modDeps \in [Docs -> SUBSET Docs]
      /\ resolved \in ManifestStates \cup {Unresolved}
      /\ published \in [Docs -> SUBSET Diagnostic] /\ shown \in [Docs -> SUBSET Kinds]
  BY <1>1, MessageShape DEF TypeOK
<1>3. published' = WithoutOrigin(m.doc) /\ shown' \in [Docs -> SUBSET Kinds] /\ ShownIsMerged'
  <2>1. WithoutOrigin(m.doc) \in [Docs -> SUBSET Diagnostic]
    BY <1>2 DEF WithoutOrigin
  <2> QED BY <1>1, <1>2, <2>1, PublishMerges DEF Published
<1>4. /\ overlay'[m.doc] = Closed /\ parsed'[m.doc] = Unparsed /\ published'[m.doc] = {}
      /\ \A d \in Docs : d # m.doc => /\ overlay'[d] = overlay[d] /\ parsed'[d] = parsed[d]
                                      /\ published'[d] = published[d]
  BY <1>1, <1>2, <1>3 DEF WithoutOrigin
<1>5. \A d \in Docs : overlay'[d] = IF Touches(m, d) THEN Leaves(m) ELSE overlay[d]
  BY <1>1, <1>4 DEF Touches, Leaves
<1>6. OnlyOpen'
  BY <1>4 DEF Published, OnlyOpen, Open
<1>7. CleanDocsAreParsed'
  BY <1>1, <1>4 DEF Published, CleanDocsAreParsed, Open
<1>8. /\ overlay' \in [Docs -> Text \cup {Closed}] /\ parsed' \in [Docs -> Text \cup {Unparsed}]
      /\ published' \in [Docs -> SUBSET Diagnostic]
  BY <1>1, <1>2, <1>3 DEF WithoutOrigin
<1>9. \A d \in Docs : overlay'[d] \in {overlay[d], Closed}
  BY <1>4
<1> QED BY <1>1, <1>2, <1>3, <1>5, <1>6, <1>7, <1>8, <1>9 DEF HandlingKeeps, Published

-----------------------------------------------------------------------------
(* The steps of the server.                                                *)

(* What serving does: h is the message that is handled.                    *)
Serves(h) ==
  /\ HandlingKeeps
  /\ \A d \in Docs : overlay'[d] = IF Touches(h, d) THEN Leaves(h) ELSE overlay[d]
  /\ h.is \in {"save", "watched"} =>
       /\ overlay' = overlay
       /\ \A d \in Open(overlay) : published'[d] = Diagnosed(View(overlay), manifest, d)
  /\ \A d \in Docs : overlay'[d] \notin {overlay[d], Closed} =>
       \A u \in KnownLoaders(d) :
         published'[u] = Diagnosed(View(overlay'), Resolution(resolved), u)

LEMMA HandledServes ==
  ASSUME TypeOK, Published, NEW h \in Message, Handled(h),
         \A d \in Docs : h.is = "save" /\ h.doc = d => overlay[d] # Closed
  PROVE  Serves(h)
<1>1. CASE HandleText(h)
  <2>1. h.is \in {"open", "change"}
    BY <1>1 DEF HandleText
  <2>2. /\ HandlingKeeps
        /\ \A d \in Docs : overlay'[d] = IF Touches(h, d) THEN Leaves(h) ELSE overlay[d]
        /\ \A d \in Docs : d # h.doc => overlay'[d] = overlay[d]
        /\ \A u \in KnownLoaders(h.doc) :
             published'[u] = Diagnosed(View(overlay'), Resolution(resolved), u)
    BY <1>1, TextHandled
  <2> QED BY <2>1, <2>2 DEF Serves
<1>2. CASE HandleSave(h)
  <2>1. /\ HandlingKeeps /\ h.is = "save" /\ overlay' = overlay
        /\ \A d \in Open(overlay) : published'[d] = Diagnosed(View(overlay), manifest, d)
    BY <1>2, SaveHandled
  <2> QED BY <2>1 DEF Serves, Touches
<1>3. CASE HandleWatched(h)
  <2>1. /\ HandlingKeeps /\ h.is = "watched" /\ overlay' = overlay
        /\ \A d \in Open(overlay) : published'[d] = Diagnosed(View(overlay), manifest, d)
    BY <1>3, WatchedHandled
  <2> QED BY <2>1 DEF Serves, Touches
<1>4. CASE HandleClose(h)
  <2>1. /\ HandlingKeeps
        /\ \A d \in Docs : overlay'[d] = IF Touches(h, d) THEN Leaves(h) ELSE overlay[d]
        /\ h.is = "close" /\ \A d \in Docs : overlay'[d] \in {overlay[d], Closed}
    BY <1>4, CloseHandled
  <2> QED BY <2>1 DEF Serves
<1> QED BY <1>1, <1>2, <1>3, <1>4 DEF Handled

LEMMA ServeKeeps ==
  ASSUME IInv, Serve
  PROVE  /\ IInv'
         /\ \E h : /\ Serves(h)
                   /\ Head(Queue).is # "change" => h = Head(Queue)
                   /\ Head(Queue).is = "change" => h.is = "change"
<1>1. TypeOK /\ Arriving /\ Published
  BY DEF IInv
<1>2. UNCHANGED client
  BY DEF Serve
<1>3. PICK n, h : /\ Takes(Queue, Queue', n, h) /\ Handled(h)
                  /\ (Head(Queue).is # "change" => h = Head(Queue))
                  /\ (Head(Queue).is = "change" => h.is = "change")
  BY <1>1, ServeTakes
<1>4. /\ Queue \in Seq(Message) /\ Queue' \in Seq(Message)
      /\ pending' \in Seq(Message) /\ inbox' \in Seq(Message) /\ Len(pending') <= 1
  BY <1>1, ServeTakes
<1>5. h \in Message
  BY <1>3, <1>4 DEF Takes
<1>6. \A d \in Docs : h.is = "save" /\ h.doc = d => overlay[d] # Closed
  <2> DEFINE new == [d \in Docs |-> IF Touches(h, d) THEN Leaves(h) ELSE overlay[d]]
  <2>1. \A d \in Docs : new[d] = IF Touches(h, d) THEN Leaves(h) ELSE overlay[d]
    OBVIOUS
  <2>2. Accounts(Queue, overlay, buffer) /\ SavesOpen(Queue, overlay)
    BY <1>1 DEF Arriving
  <2>3. Takes(Queue, Queue', n, h) /\ Queue \in Seq(Message) /\ Queue' \in Seq(Message)
    BY <1>3, <1>4
  <2> HIDE DEF new
  <2>4. /\ Accounts(Queue', new, buffer) /\ SavesOpen(Queue', new)
        /\ \A d \in Docs : h.is = "save" /\ h.doc = d => overlay[d] # Closed
    BY <2>1, <2>2, <2>3, MessageTaken
  <2> QED BY <2>4
<1>7. Serves(h)
  BY <1>1, <1>3, <1>5, <1>6, HandledServes
<1>8. /\ HandlingKeeps
      /\ \A d \in Docs : overlay'[d] = IF Touches(h, d) THEN Leaves(h) ELSE overlay[d]
  BY <1>7 DEF Serves
<1>9. Accounts(Queue', overlay', buffer) /\ SavesOpen(Queue', overlay')
  BY <1>1, <1>3, <1>4, <1>8, MessageTaken DEF Arriving
<1>10. Arriving'
  BY <1>2, <1>9 DEF Arriving, client
<1>11. TypeOK'
  BY <1>1, <1>2, <1>4, <1>8 DEF TypeOK, HandlingKeeps, client
<1>12. IInv'
  BY <1>8, <1>10, <1>11 DEF IInv, HandlingKeeps
<1> QED BY <1>3, <1>7, <1>12

-----------------------------------------------------------------------------
(* The steps of the client.                                                *)

LEMMA ClientSends ==
  ASSUME IInv, NEW m \in Message, Acts(<<m>>),
         disk' \in [Docs -> Text \cup {Absent}], manifest' \in Manifests,
         buffer' \in [Docs -> Text \cup {Closed}],
         \A d \in Docs : buffer'[d] = IF Touches(m, d) THEN Leaves(m) ELSE buffer[d],
         \A d \in Docs : m.is = "save" /\ m.doc = d => buffer[d] # Closed
  PROVE  IInv'
<1>1. TypeOK /\ Arriving /\ Published /\ MaxActions \in Nat
  BY LanguageServerAssumption DEF IInv, LanguageServerAssumption
<1>2. /\ actions < MaxActions /\ actions' = actions + 1 /\ inbox' = inbox \o <<m>>
      /\ UNCHANGED <<pending, server>>
  BY DEF Acts
<1>3. inbox \in Seq(Message) /\ pending \in Seq(Message) /\ actions \in 0..MaxActions
  BY <1>1 DEF TypeOK
<1>4. actions' \in 0..MaxActions
  BY <1>1, <1>2, <1>3
<1>5. /\ inbox' \in Seq(Message) /\ Queue \in Seq(Message) /\ Queue' \in Seq(Message)
      /\ Len(Queue') = Len(Queue) + 1 /\ Queue'[Len(Queue')] = m
      /\ \A i \in 1..Len(Queue) : Queue'[i] = Queue[i]
  <2>1. inbox' \in Seq(Message) /\ pending' = pending
    BY <1>2, <1>3
  <2>2. Queue \in Seq(Message)
    BY <1>3 DEF Queue
  <2>3. Queue' = Append(Queue, m)
    BY <1>2, <1>3 DEF Queue
  <2> HIDE DEF Queue
  <2>4. /\ Append(Queue, m) \in Seq(Message) /\ Len(Append(Queue, m)) = Len(Queue) + 1
        /\ \A i \in 1..Len(Queue) : Append(Queue, m)[i] = Queue[i]
        /\ Append(Queue, m)[Len(Queue) + 1] = m
    BY <2>2
  <2> QED BY <2>1, <2>2, <2>3, <2>4
<1>6. Accounts(Queue, overlay, buffer) /\ SavesOpen(Queue, overlay)
  BY <1>1 DEF Arriving
<1>7. Accounts(Queue', overlay, buffer') /\ SavesOpen(Queue', overlay)
  <2>1. /\ \A d \in Docs : buffer'[d] = IF Touches(Queue'[Len(Queue')], d)
                                     THEN Leaves(Queue'[Len(Queue')]) ELSE buffer[d]
        /\ \A d \in Docs : Queue'[Len(Queue')].is = "save" /\ Queue'[Len(Queue')].doc = d =>
                           buffer[d] # Closed
    BY <1>5
  <2>2. /\ Queue \in Seq(Message) /\ Queue' \in Seq(Message) /\ Len(Queue') = Len(Queue) + 1
        /\ \A i \in 1..Len(Queue) : Queue'[i] = Queue[i]
    BY <1>5
  <2> QED BY <1>6, <2>1, <2>2, MessageSent
<1>8. Arriving'
  BY <1>2, <1>7 DEF Arriving, server
<1>9. TypeOK'
  BY <1>1, <1>2, <1>4, <1>5 DEF TypeOK, server
<1>10. Published'
  BY <1>1, <1>2 DEF Published, OnlyOpen, ShownIsMerged, Merged, CleanDocsAreParsed, Open, server
<1> QED BY <1>8, <1>9, <1>10 DEF IInv

LEMMA ClientKeeps == ASSUME IInv, NEW d \in Docs, ClientActs(d) PROVE IInv'
<1>1. /\ disk \in [Docs -> Text \cup {Absent}] /\ manifest \in Manifests
      /\ buffer \in [Docs -> Text \cup {Closed}] /\ inbox \in Seq(Message)
      /\ actions \in 0..MaxActions
  BY DEF IInv, TypeOK
<1>2. Fits[d] \subseteq Text /\ MaxActions \in Nat
  BY LanguageServerAssumption DEF LanguageServerAssumption
<1>3. CASE OpenDocument(d)
  <2> DEFINE m == [is |-> "open", doc |-> d, text |-> disk[d]]
  <2>1. /\ disk[d] \in Text /\ buffer' = [buffer EXCEPT ![d] = disk[d]] /\ Acts(<<m>>)
        /\ disk' = disk /\ manifest' = manifest
    BY <1>1, <1>3 DEF OpenDocument
  <2>2. m \in Message
    BY <2>1 DEF Message
  <2>3. \A e \in Docs : buffer'[e] = IF Touches(m, e) THEN Leaves(m) ELSE buffer[e]
    BY <1>1, <2>1 DEF Touches, Leaves
  <2>4. buffer' \in [Docs -> Text \cup {Closed}] /\ m.is # "save"
    BY <1>1, <2>1
  <2> HIDE DEF m
  <2> QED BY <1>1, <2>1, <2>2, <2>3, <2>4, ClientSends
<1>4. CASE SaveDocument(d)
  <2> DEFINE m == [is |-> "save", doc |-> d]
  <2>1. /\ buffer[d] # Closed /\ disk' = [disk EXCEPT ![d] = buffer[d]] /\ Acts(<<m>>)
        /\ buffer' = buffer /\ manifest' = manifest
    BY <1>4 DEF SaveDocument
  <2>2. m \in Message /\ m.doc = d
    BY DEF Message
  <2>3. \A e \in Docs : buffer'[e] = IF Touches(m, e) THEN Leaves(m) ELSE buffer[e]
    BY <2>1 DEF Touches
  <2>4. disk' \in [Docs -> Text \cup {Absent}]
    BY <1>1, <2>1
  <2> HIDE DEF m
  <2> QED BY <1>1, <2>1, <2>2, <2>3, <2>4, ClientSends
<1>5. CASE CloseDocument(d)
  <2> DEFINE m == [is |-> "close", doc |-> d]
  <2>1. /\ buffer' = [buffer EXCEPT ![d] = Closed] /\ Acts(<<m>>)
        /\ disk' = disk /\ manifest' = manifest
    BY <1>5 DEF CloseDocument
  <2>2. m \in Message
    BY DEF Message
  <2>3. \A e \in Docs : buffer'[e] = IF Touches(m, e) THEN Leaves(m) ELSE buffer[e]
    BY <1>1, <2>1 DEF Touches, Leaves
  <2>4. buffer' \in [Docs -> Text \cup {Closed}] /\ m.is # "save"
    BY <1>1, <2>1
  <2> HIDE DEF m
  <2> QED BY <1>1, <2>1, <2>2, <2>3, <2>4, ClientSends
<1>6. ASSUME NEW t \in Fits[d], EditDocument(d, t) PROVE IInv'
  <2> DEFINE m == [is |-> "change", doc |-> d, text |-> t]
  <2>1. /\ t \in Text /\ buffer' = [buffer EXCEPT ![d] = t] /\ Acts(<<m>>)
        /\ disk' = disk /\ manifest' = manifest
    BY <1>2, <1>6 DEF EditDocument
  <2>2. m \in Message
    BY <2>1 DEF Message
  <2>3. \A e \in Docs : buffer'[e] = IF Touches(m, e) THEN Leaves(m) ELSE buffer[e]
    BY <1>1, <2>1 DEF Touches, Leaves
  <2>4. buffer' \in [Docs -> Text \cup {Closed}] /\ m.is # "save"
    BY <1>1, <2>1
  <2> HIDE DEF m
  <2> QED BY <1>1, <2>1, <2>2, <2>3, <2>4, ClientSends
<1>7. ASSUME NEW t \in Fits[d] \cup {Absent}, WriteFile(d, t) PROVE IInv'
  <2>1. /\ disk' = [disk EXCEPT ![d] = t] /\ actions < MaxActions /\ actions' = actions + 1
        /\ inbox' = inbox \o <<>> /\ UNCHANGED <<pending, server>> /\ UNCHANGED <<buffer, manifest>>
    BY <1>7 DEF WriteFile, Acts
  <2>2. disk' \in [Docs -> Text \cup {Absent}] /\ actions' \in 0..MaxActions /\ inbox' = inbox
    BY <1>1, <1>2, <2>1
  <2>3. TypeOK'
    BY <2>1, <2>2 DEF IInv, TypeOK, server
  <2>4. Arriving'
    <3>1. Queue' = Queue /\ overlay' = overlay /\ buffer' = buffer
      BY <2>1, <2>2 DEF Queue, server
    <3> QED BY <3>1 DEF IInv, Arriving
  <2>5. Published'
    BY <2>1 DEF IInv, Published, OnlyOpen, ShownIsMerged, Merged, CleanDocsAreParsed, Open, server
  <2> QED BY <2>3, <2>4, <2>5 DEF IInv
<1> QED BY <1>3, <1>4, <1>5, <1>6, <1>7 DEF ClientActs

LEMMA ManifestKeeps == ASSUME IInv, NEW m \in Manifests, WriteManifest(m) PROVE IInv'
<1> DEFINE w == [is |-> "watched"]
<1>1. manifest' = m /\ Acts(<<w>>) /\ disk' = disk /\ buffer' = buffer
  BY DEF WriteManifest
<1>2. disk \in [Docs -> Text \cup {Absent}] /\ buffer \in [Docs -> Text \cup {Closed}]
  BY DEF IInv, TypeOK
<1>3. w \in Message /\ w.is # "save"
  BY DEF Message
<1>4. \A e \in Docs : buffer'[e] = IF Touches(w, e) THEN Leaves(w) ELSE buffer[e]
  BY <1>1 DEF Touches
<1> HIDE DEF w
<1> QED BY <1>1, <1>2, <1>3, <1>4, ClientSends

-----------------------------------------------------------------------------
(* The invariant holds, and what follows from it.                          *)

LEMMA InitInvariant == Init => IInv
<1> SUFFICES ASSUME Init PROVE IInv
  OBVIOUS
<1>1. /\ disk \in [Docs -> Text] /\ manifest \in Manifests /\ inbox = <<>> /\ pending = <<>>
      /\ overlay = buffer /\ shown = [t \in Docs |-> Merged(published, t)] /\ actions = 0
      /\ published = [d \in Docs |-> IF d \in Open(buffer) THEN Diagnosed(disk, manifest, d) ELSE {}]
  BY DEF Init
<1>2. PICK opened \in SUBSET Docs : buffer = [d \in Docs |-> IF d \in opened THEN disk[d] ELSE Closed]
  BY DEF Init
<1>3. /\ buffer \in [Docs -> Text \cup {Closed}]
      /\ \A d \in Docs : d \in Open(buffer) => buffer[d] = disk[d] /\ disk[d] \in Text
  BY <1>1, <1>2 DEF Open
<1> DEFINE ok == {d \in Open(buffer) : Evaluates(disk, manifest, d)}
<1>4. /\ parsed = [d \in Docs |-> IF d \in ok THEN disk[d] ELSE Unparsed]
      /\ modDeps = [d \in Docs |-> IF d \in ok THEN disk[d].mods ELSE {}]
      /\ resolved \in {Unresolved, Cached(Unresolved)}
  BY DEF Init
<1>5. \A d \in Open(buffer) : d \notin ok =>
        \E x \in Diagnosed(disk, manifest, d) : x.is = "error"
  BY FailureIsAnError
<1>6. ok \subseteq Open(buffer)
  OBVIOUS
<1> HIDE DEF ok
<1>7. published \in [Docs -> SUBSET Diagnostic]
  <2>1. disk \in Views
    BY <1>1 DEF Views
  <2> QED BY <1>1, <2>1, DiagnosedIsOfDocs
<1>8. shown \in [Docs -> SUBSET Kinds]
  <2>1. ASSUME NEW t \in Docs PROVE Merged(published, t) \subseteq Kinds
    <3>1. \A g : g \in UNION {published[o] : o \in Docs} => g.is \in Kinds
      BY <1>7 DEF Diagnostic
    <3> QED BY <3>1 DEF Merged
  <2> QED BY <1>1, <2>1
<1>9. TypeOK
  <2>1. parsed \in [Docs -> Text \cup {Unparsed}] /\ modDeps \in [Docs -> SUBSET Docs]
    BY <1>1, <1>4, TextIsNoMark
  <2>2. resolved \in ManifestStates \cup {Unresolved}
    BY <1>1, <1>4, LanguageServerAssumption DEF LanguageServerAssumption, Cached, Resolution
  <2>3. actions \in 0..MaxActions
    BY <1>1, LanguageServerAssumption DEF LanguageServerAssumption
  <2>4. inbox \in Seq(Message) /\ pending \in Seq(Message) /\ Len(pending) <= 1
    BY <1>1
  <2>5. disk \in [Docs -> Text \cup {Absent}]
    BY <1>1
  <2> QED BY <1>1, <1>3, <1>7, <1>8, <2>1, <2>2, <2>3, <2>4, <2>5 DEF TypeOK
<1>10. Arriving
  <2>1. Len(Queue) = 0
    BY <1>1 DEF Queue
  <2> QED BY <1>1, <2>1 DEF Arriving, Accounts, SavesOpen
<1>11. OnlyOpen
  BY <1>1, <1>4, <1>6 DEF OnlyOpen
<1>12. ShownIsMerged
  BY <1>1 DEF ShownIsMerged
<1>13. CleanDocsAreParsed
  <2> SUFFICES ASSUME NEW d \in Open(buffer), \A x \in published[d] : x.is # "error"
               PROVE  parsed[d] = buffer[d] /\ modDeps[d] = buffer[d].mods
    BY <1>1 DEF CleanDocsAreParsed
  <2>1. d \in Docs
    BY DEF Open
  <2>2. d \in ok
    BY <1>1, <1>5, <2>1
  <2> QED BY <1>3, <1>4, <2>1, <2>2
<1> QED BY <1>9, <1>10, <1>11, <1>12, <1>13 DEF IInv, Published

LEMMA NextInvariant == IInv /\ [Next]_vars => IInv'
<1> SUFFICES ASSUME IInv, [Next]_vars PROVE IInv'
  OBVIOUS
<1>1. CASE UNCHANGED vars
  <2>1. TypeOK'
    BY <1>1 DEF IInv, TypeOK, vars, client, channel, server
  <2>2. Queue' = Queue /\ overlay' = overlay /\ buffer' = buffer
    BY <1>1 DEF Queue, vars, client, channel, server
  <2>3. Arriving'
    BY <2>2 DEF IInv, Arriving
  <2>4. Published'
    BY <1>1 DEF IInv, Published, OnlyOpen, ShownIsMerged, Merged, CleanDocsAreParsed, Open, vars,
       server
  <2> QED BY <2>1, <2>3, <2>4 DEF IInv
<1>2. CASE Serve
  BY <1>2, ServeKeeps
<1>3. ASSUME NEW d \in Docs, ClientActs(d) PROVE IInv'
  BY <1>3, ClientKeeps
<1>4. ASSUME NEW m \in Manifests, WriteManifest(m) PROVE IInv'
  BY <1>4, ManifestKeeps
<1> QED BY <1>1, <1>2, <1>3, <1>4 DEF Next

(* With nothing under way, no message speaks of any document.              *)
LEMMA QuietIsSettled == IInv => NothingLost
<1> SUFFICES ASSUME IInv, Queue = <<>> PROVE overlay = buffer
  BY DEF NothingLost, Queue
<1>1. Accounts(Queue, overlay, buffer) /\ Len(Queue) = 0
  BY DEF IInv, Arriving
<1>2. \A d \in Docs : overlay[d] = buffer[d]
  BY <1>1 DEF Accounts
<1>3. overlay \in [Docs -> Text \cup {Closed}] /\ buffer \in [Docs -> Text \cup {Closed}]
  BY DEF IInv, TypeOK
<1> QED BY <1>2, <1>3

LEMMA MergedIsOwed == IInv => ShownIsOwed
<1> SUFFICES ASSUME IInv, NEW t \in Docs
             PROVE  shown[t] = {g.is : g \in {x \in UNION {published[o] : o \in Open(overlay)} : x.at = t}}
  BY DEF ShownIsOwed
<1>1. \A o \in Docs : o \notin Open(overlay) => published[o] = {}
  BY DEF IInv, Published, OnlyOpen
<1>2. UNION {published[o] : o \in Docs} = UNION {published[o] : o \in Open(overlay)}
  <2>1. Open(overlay) \subseteq Docs
    BY DEF Open
  <2> QED BY <1>1, <2>1
<1>3. shown[t] = Merged(published, t)
  BY DEF IInv, Published, ShownIsMerged
<1> QED BY <1>2, <1>3 DEF Merged

(* Types, what the messages under way account for, and what the server     *)
(* keeps of its open documents, in every reachable state.                  *)
THEOREM ServerInvariant == Spec => [](TypeOK /\ Arriving /\ Published)
<1>1. IInv => TypeOK /\ Arriving /\ Published
  BY DEF IInv
<1> QED BY <1>1, InitInvariant, NextInvariant, PTL DEF Spec

(* Once everything is handled the server has exactly the client's buffers: *)
(* runs of changes are merged and a message is set aside, for any number   *)
(* of documents and messages (main_loop, coalesce_did_change).             *)
THEOREM NoMessageIsLost == Spec => []NothingLost
BY InitInvariant, NextInvariant, QuietIsSettled, PTL DEF Spec

(* The client shows at every document exactly what the last evaluations of *)
(* the open documents put there (publish_grouped_diagnostics).             *)
THEOREM DiagnosticsAreOwed == Spec => []ShownIsOwed
BY InitInvariant, NextInvariant, MergedIsOwed, PTL DEF Spec

(* A document whose evaluation put no error at any file has the AST and    *)
(* the module dependencies of the text on the screen, wherever the errors  *)
(* of failing evaluations are shown (validate_and_collect).                *)
THEOREM CleanTextsAreParsed == Spec => []CleanDocsAreParsed
<1>1. IInv => CleanDocsAreParsed
  BY DEF IInv, Published
<1> QED BY <1>1, InitInvariant, NextInvariant, PTL DEF Spec

(* Handling an edit refreshes whatever is known to load the edited file,   *)
(* and a save or a change of the manifest every open document, for any     *)
(* load graph (propagate_change, did_save, did_change_watched_files).      *)
THEOREM RefreshesAreMade == Spec => RefreshesWhatItOwes
<1> DEFINE m == Head(pending \o inbox)
           Refreshes ==
             Served =>
               IF m.is \in {"save", "watched"} THEN \A d \in Open(overlay) : Fresh(d)'
               ELSE \A d \in Docs : overlay'[d] \notin {overlay[d], Closed} =>
                      \A u \in KnownLoaders(d) :
                        published'[u] = Diagnosed(View(overlay)', Resolution(resolved), u)
<1>1. IInv /\ [Next]_vars => [Refreshes]_vars
  <2> SUFFICES ASSUME IInv, Next, Served PROVE Refreshes
    OBVIOUS
  <2>1. Serve
    <3>1. actions \in Nat
      BY LanguageServerAssumption DEF LanguageServerAssumption, IInv, TypeOK
    <3>2. actions' # actions + 1
      BY <3>1 DEF Served
    <3>3. \A s : ~Acts(s)
      BY <3>2 DEF Acts
    <3> QED
      BY <3>3 DEF Next, ClientActs, OpenDocument, EditDocument, SaveDocument, CloseDocument,
         WriteFile,
                  WriteManifest
  <2>2. PICK h : /\ Serves(h)
                 /\ m.is # "change" => h = m
                 /\ m.is = "change" => h.is = "change"
    BY <2>1, ServeKeeps DEF Queue
  <2>3. disk' = disk /\ manifest' = manifest
    BY <2>1 DEF Serve, client
  <2>4. View(overlay)' = View(overlay')
    BY <2>3 DEF View
  <2>5. CASE m.is \in {"save", "watched"}
    <3>1. /\ overlay' = overlay
          /\ \A d \in Open(overlay) : published'[d] = Diagnosed(View(overlay), manifest, d)
      BY <2>2, <2>5 DEF Serves
    <3> QED BY <2>3, <2>4, <2>5, <3>1 DEF Fresh
  <2>6. CASE m.is \notin {"save", "watched"}
    <3>1. \A d \in Docs : overlay'[d] \notin {overlay[d], Closed} =>
            \A u \in KnownLoaders(d) :
              published'[u] = Diagnosed(View(overlay'), Resolution(resolved), u)
      BY <2>2 DEF Serves
    <3> QED BY <2>4, <2>6, <3>1
  <2> QED BY <2>5, <2>6
<1> QED BY <1>1, InitInvariant, NextInvariant, PTL DEF Spec, RefreshesWhatItOwes

-----------------------------------------------------------------------------
(* PartSearch: what is said of its state at every moment.                  *)

UiTypes ==
  /\ phase \in {"new", "input", "news"}
  /\ mode \in ModeSet /\ text \in Texts /\ touched \in {"no", "just", "due"}
  /\ lastQuery \in Texts /\ counter \in Nat
  /\ download \in {"done", "downloading", "updating", "failed"}
  /\ results \in Results \cup {None} /\ answered \in 0..counter /\ selected \in Places
  /\ pendingDetail \in Key \cup {None} /\ detail \in Key \cup {None}
  /\ request \in Key \cup {None} /\ responses \subseteq Key
  /\ events \in 0..MaxEvents

SearcherTypes ==
  /\ query \in Query \cup {None} /\ answer \in Results \cup {None} /\ news \in Seq(News)
  /\ worker \in {"start", "idle", "open", "fetch", "stat", "search"}
  /\ job \in Query \cup {None} /\ boot \in Seq(Indexes)
  /\ stamp \in Nat /\ clients \in [Indexes -> Nat] /\ seen \in [Indexes -> Nat]
  /\ updates \subseteq Update /\ holder \in Update \cup {None} /\ strays \in Nat
  /\ index \in [Indexes -> Nat] /\ doubtful \subseteq Indexes

(* What the worker has in hand at each of its positions, and an update.    *)
WorkerIsSound ==
  /\ worker \in {"start", "idle"} => job = None
  /\ worker \in {"open", "search"} => job # None
  /\ job # None => IsLocal(job.mode)
  /\ worker \in {"fetch", "stat"} /\ job = None => boot # <<>>
  /\ worker \in {"stat", "search"} => clients[Current] # 0
  /\ holder # None => holder.left <= Files[holder.of]

(* A question that has the last number, or its answer, was about the mode  *)
(* of the last query, and about its text unless the update was forced.     *)
Numbered(m) ==
  m # None =>
    /\ m.id <= counter
    /\ m.id = counter /\ lastQuery # Empty => m.mode = mode /\ (m.force \/ m.text = lastQuery)
NumbersFit == Numbered(query) /\ Numbered(job) /\ Numbered(answer)

(* A detail that is awaited is the one of the item under the cursor.       *)
AwaitedIsSelected ==
  IsLocal(mode) /\ pendingDetail # None =>
    HasItems(results) /\ pendingDetail = ItemKey(mode, results, selected)

SearchInv ==
  /\ UiTypes /\ SearcherTypes /\ WorkerIsSound
  /\ NumbersFit /\ AwaitedIsSelected /\ DetailsFollowSelection

LEMMA Settings ==
  /\ \A m \in ModeSet : IsLocal(m) => IndexOf[m] \in Indexes
  /\ Empty \in Texts /\ MaxEvents \in Nat
  /\ Modes[1] \in ModeSet /\ Startup \in Seq(Indexes)
  /\ Indexes \subseteq {"registry", "kicad"}
  /\ \A i \in Indexes : Files[i] \in Nat \ {0} /\ (i = "kicad" => Files[i] = 1)
<1>1. Modes \in Seq(ModeSet) /\ Modes # <<>>
  BY PartSearchAssumption DEF PartSearchAssumption
<1>2. Modes[1] \in ModeSet
  BY <1>1
<1>3. \A i \in Indexes : Files[i] \in Nat \ {0} /\ (i = "kicad" => Files[i] = 1)
  BY PartSearchAssumption DEF PartSearchAssumption
<1> QED BY <1>2, <1>3, PartSearchAssumption DEF PartSearchAssumption, IsLocal

LEMMA NextModeIsMode == mode \in ModeSet => NextMode \in ModeSet
<1> SUFFICES ASSUME mode \in ModeSet PROVE NextMode \in ModeSet
  OBVIOUS
<1> DEFINE here == CHOOSE i \in 1..Len(Modes) : Modes[i] = mode
<1>1. Modes \in Seq(ModeSet) /\ Len(Modes) \in Nat /\ Len(Modes) # 0
  BY PartSearchAssumption DEF PartSearchAssumption
<1>2. here \in 1..Len(Modes)
  BY DEF ModeSet
<1> HIDE DEF here
<1>3. (IF here = Len(Modes) THEN 1 ELSE here + 1) \in 1..Len(Modes)
  BY <1>1, <1>2
<1>4. NextMode = Modes[IF here = Len(Modes) THEN 1 ELSE here + 1]
  BY DEF NextMode, here
<1> QED BY <1>1, <1>3, <1>4

(* A query is no answer, and nothing of either is a key or nothing.        *)
LEMMA Shapes ==
  /\ \A m \in Query : /\ m # None /\ m.id \in Nat /\ m.text \in Texts /\ m.mode \in ModeSet
                      /\ m.force \in BOOLEAN
  /\ \A m \in Results : m # None /\ m.id \in Nat /\ m.text \in Texts /\ m.mode \in ModeSet
                        /\ m.force \in BOOLEAN /\ m.version \in Nat \ {0}
  /\ \A k \in Key : k # None
  /\ \A u \in Update : u # None
<1>1. None.is = "none" /\ DOMAIN None = {"is"}
  BY DEF None
<1>2. \A m \in Query : /\ m.is = "query" /\ m.id \in Nat /\ m.text \in Texts /\ m.mode \in ModeSet
                      /\ m.force \in BOOLEAN
  BY DEF Query
<1>3. \A m \in Results : /\ m.is = "results" /\ m.id \in Nat /\ m.text \in Texts /\ m.mode \in ModeSet
                        /\ m.force \in BOOLEAN /\ m.version \in Nat \ {0}
  BY DEF Results
<1>4. \A k \in Key : k.is = "key"
  BY DEF Key
<1>5. ASSUME NEW u \in Update PROVE u # None
  <2>1. DOMAIN u = {"of", "force", "left", "changed"}
    BY DEF Update
  <2>2. "of" # "is"
    OBVIOUS
  <2> QED BY <1>1, <2>1, <2>2
<1>6. "query" # "none" /\ "results" # "none" /\ "key" # "none"
  OBVIOUS
<1> QED BY <1>1, <1>2, <1>3, <1>4, <1>5, <1>6

LEMMA KeyType ==
  ASSUME NEW m \in ModeSet, NEW r \in Results, NEW at \in Places
  PROVE  ItemKey(m, r, at) \in Key
BY DEF ItemKey, Key, Results

-----------------------------------------------------------------------------
(* The interface asks.                                                     *)

LEMMA QuestionAsked ==
  ASSUME counter \in Nat, NumbersFit,
         NEW t \in Texts, NEW m \in ModeSet, NEW f \in BOOLEAN,
         counter' = counter + 1, job' = job, answer' = answer,
         query' = [is |-> "query", id |-> counter + 1, text |-> t, mode |-> m, force |-> f],
         lastQuery' = Empty \/ (mode' = m /\ (f \/ lastQuery' = t)),
         job # None => job.id \in Nat, answer # None => answer.id \in Nat
  PROVE  NumbersFit' /\ query' \in Query /\ counter' \in Nat
<1>1. query' \in Query
  BY DEF Query
<1>2. Numbered(query)'
  BY DEF Numbered
<1>3. Numbered(job)' /\ Numbered(answer)'
  BY DEF NumbersFit, Numbered
<1> QED BY <1>1, <1>2, <1>3 DEF NumbersFit

LEMMA NothingAsked ==
  ASSUME NumbersFit, counter' = counter, job' = job, answer' \in {answer, None}, query' = query,
         lastQuery' = Empty \/ (lastQuery' = lastQuery /\ mode' = mode)
  PROVE  NumbersFit'
BY DEF NumbersFit, Numbered

(* Whatever the interface does, the worker has in hand what it had.        *)
LEMMA SearcherUntouched ==
  ASSUME SearcherTypes, WorkerIsSound, UNCHANGED <<searcher, threads, files>>,
         query' \in Query \cup {None}, answer' \in Results \cup {None}, news' \in Seq(News)
  PROVE  SearcherTypes' /\ WorkerIsSound'
BY DEF SearcherTypes, WorkerIsSound, Current, searcher, threads, files

LEMMA StartModeAsks ==
  ASSUME UiTypes, SearcherTypes, NumbersFit, NEW m \in ModeSet, NEW last \in {lastQuery, Empty},
         StartMode(m, last), mode' = m, job' = job, answer' = answer,
         last = Empty \/ mode' = mode
  PROVE  /\ NumbersFit' /\ query' \in Query \cup {None} /\ counter' \in Nat /\ counter' >= counter
         /\ lastQuery' \in Texts /\ download' \in {"done", "downloading"}
<1>1. counter \in Nat /\ text \in Texts /\ lastQuery \in Texts /\ Empty \in Texts
  BY Settings DEF UiTypes
<1>2. (job # None => job.id \in Nat) /\ (answer # None => answer.id \in Nat)
  BY Shapes DEF SearcherTypes
<1>3. CASE IsLocal(m) /\ index[IndexOf[m]] = 0
  <2>1. /\ download' = "downloading" /\ lastQuery' = text /\ counter' = counter + 1
        /\ query' = [is |-> "query", id |-> counter + 1, text |-> text, mode |-> m, force |-> FALSE]
    BY <1>3 DEF StartMode
  <2>2. NumbersFit' /\ query' \in Query /\ counter' \in Nat
    BY <1>1, <1>2, <2>1, QuestionAsked
  <2> QED BY <1>1, <2>1, <2>2
<1>4. CASE ~(IsLocal(m) /\ index[IndexOf[m]] = 0)
  <2>1. download' = "done" /\ lastQuery' = last /\ counter' = counter /\ query' = query
    BY <1>4 DEF StartMode
  <2>2. NumbersFit'
    BY <2>1, NothingAsked
  <2> QED BY <1>1, <2>1, <2>2 DEF SearcherTypes
<1> QED BY <1>3, <1>4

LEMMA EnqueueKeeps ==
  ASSUME UiTypes, NEW r \in Results \cup {None}, NEW at \in Places, EnqueueDetail(r, at),
         mode' = mode, results' = r, selected' = at
  PROVE  /\ pendingDetail' \in Key \cup {None} /\ detail' \in Key \cup {None}
         /\ request' \in Key \cup {None}
         /\ IsLocal(mode) => AwaitedIsSelected' /\ DetailsFollowSelection'
<1>1. HasItems(r) => ItemKey(mode, r, at) \in Key /\ ItemKey(mode, r, at) # None
  BY KeyType, Shapes DEF UiTypes, HasItems
<1> USE DEF UiTypes, AwaitedIsSelected, DetailsFollowSelection, IsLocal
<1>2. CASE ~IsLocal(mode)
  BY <1>2 DEF EnqueueDetail
<1>3. CASE IsLocal(mode) /\ ~HasItems(r)
  BY <1>3 DEF EnqueueDetail
<1>4. CASE IsLocal(mode) /\ HasItems(r) /\ pendingDetail = ItemKey(mode, r, at)
  BY <1>1, <1>4 DEF EnqueueDetail
<1>5. CASE IsLocal(mode) /\ HasItems(r) /\ pendingDetail # ItemKey(mode, r, at)
  BY <1>1, <1>5 DEF EnqueueDetail
<1> QED BY <1>2, <1>3, <1>4, <1>5

LEMMA NewKeeps == ASSUME SearchInv, New PROVE SearchInv'
<1> USE DEF SearchInv
<1>1. /\ phase' = "input" /\ StartMode(mode, lastQuery)
      /\ UNCHANGED <<mode, text, touched, results, answered, selected, pendingDetail, detail, answer,
                     news, request, responses, searcher, threads, files, events>>
  BY DEF New
<1>2. mode \in ModeSet /\ job' = job
  BY <1>1 DEF UiTypes, searcher
<1>3. /\ NumbersFit' /\ query' \in Query \cup {None} /\ counter' \in Nat /\ counter' >= counter
      /\ lastQuery' \in Texts /\ download' \in {"done", "downloading"}
  BY <1>1, <1>2, StartModeAsks
<1>4. SearcherTypes' /\ WorkerIsSound'
  BY <1>1, <1>3, SearcherUntouched DEF SearcherTypes
<1>5. UiTypes'
  BY <1>1, <1>3 DEF UiTypes
<1>6. AwaitedIsSelected' /\ DetailsFollowSelection'
  BY <1>1 DEF AwaitedIsSelected, DetailsFollowSelection, IsLocal
<1> QED BY <1>3, <1>4, <1>5, <1>6

LEMMA UserKeeps == ASSUME SearchInv, User PROVE SearchInv'
<1> USE DEF SearchInv
<1>1. /\ events < MaxEvents /\ events' = events + 1
      /\ UNCHANGED <<phase, answered, answer, news, responses, searcher, threads, files>>
  BY DEF User, Type, Select, CycleMode, ForceUpdate, UserActs, Event
<1>2. events' \in 0..MaxEvents /\ job' = job
  BY <1>1, Settings DEF UiTypes, searcher
<1>3. mode \in ModeSet /\ text \in Texts /\ counter \in Nat
  BY DEF UiTypes
<1>4. ASSUME NEW t \in Texts, Type(t) PROVE SearchInv'
  <2>1. /\ text' = t /\ touched' = "just" /\ UNCHANGED <<mode, lastQuery, counter, download, query>>
        /\ IF t = Empty /\ IsLocal(mode)
           THEN results' = None /\ selected' = 0 /\ EnqueueDetail(None, 0)
           ELSE UNCHANGED <<results, selected, pendingDetail, detail, request>>
    BY <1>4 DEF Type
  <2>2. NumbersFit'
    BY <1>1, <1>2, <2>1, NothingAsked
  <2>3. SearcherTypes' /\ WorkerIsSound'
    BY <1>1, <2>1, SearcherUntouched DEF SearcherTypes
  <2>4. CASE t = Empty /\ IsLocal(mode)
    <3>1. /\ pendingDetail' \in Key \cup {None} /\ detail' \in Key \cup {None}
          /\ request' \in Key \cup {None} /\ AwaitedIsSelected' /\ DetailsFollowSelection'
      BY <2>1, <2>4, EnqueueKeeps DEF Places
    <3>2. UiTypes'
      BY <1>1, <1>2, <2>1, <2>4, <3>1 DEF UiTypes, Places
    <3> QED BY <2>2, <2>3, <3>1, <3>2
  <2>5. CASE ~(t = Empty /\ IsLocal(mode))
    <3>1. UiTypes'
      BY <1>1, <1>2, <2>1, <2>5 DEF UiTypes
    <3>2. AwaitedIsSelected' /\ DetailsFollowSelection'
      BY <2>1, <2>5 DEF AwaitedIsSelected, DetailsFollowSelection, IsLocal
    <3> QED BY <2>2, <2>3, <3>1, <3>2
  <2> QED BY <2>4, <2>5
<1>5. ASSUME NEW at \in Places, Select(at) PROVE SearchInv'
  <2>1. /\ IsLocal(mode) /\ selected' = at /\ EnqueueDetail(results, at)
        /\ UNCHANGED <<mode, text, touched, lastQuery, counter, download, results, query>>
    BY <1>5 DEF Select
  <2>2. NumbersFit'
    BY <1>1, <1>2, <2>1, NothingAsked
  <2>3. SearcherTypes' /\ WorkerIsSound'
    BY <1>1, <2>1, SearcherUntouched DEF SearcherTypes
  <2>4. /\ pendingDetail' \in Key \cup {None} /\ detail' \in Key \cup {None}
        /\ request' \in Key \cup {None} /\ AwaitedIsSelected' /\ DetailsFollowSelection'
    BY <2>1, EnqueueKeeps DEF UiTypes
  <2>5. UiTypes'
    BY <1>1, <1>2, <2>1, <2>4 DEF UiTypes
  <2> QED BY <2>2, <2>3, <2>4, <2>5
<1>6. CASE CycleMode
  <2>1. /\ mode' = NextMode /\ ClearResults /\ StartMode(NextMode, Empty)
        /\ UNCHANGED <<text, touched, request>>
    BY <1>6 DEF CycleMode
  <2>2. NextMode \in ModeSet
    BY <1>3, NextModeIsMode
  <2>4. /\ NumbersFit' /\ query' \in Query \cup {None} /\ counter' \in Nat /\ counter' >= counter
        /\ lastQuery' \in Texts /\ download' \in {"done", "downloading"}
    BY <1>1, <1>2, <2>1, <2>2, StartModeAsks
  <2>5. SearcherTypes' /\ WorkerIsSound'
    BY <1>1, <2>4, SearcherUntouched DEF SearcherTypes
  <2>6. UiTypes'
    BY <1>1, <1>2, <2>1, <2>2, <2>4 DEF UiTypes, ClearResults, Places
  <2>7. AwaitedIsSelected' /\ DetailsFollowSelection'
    BY <2>1 DEF AwaitedIsSelected, DetailsFollowSelection, ClearResults, HasItems
  <2> QED BY <2>4, <2>5, <2>6, <2>7
<1>7. CASE ForceUpdate
  <2>1. /\ Ask(TRUE)
        /\ UNCHANGED <<mode, text, touched, lastQuery, download, results, selected, pendingDetail,
                       detail, request>>
    BY <1>7 DEF ForceUpdate
  <2>2. (job # None => job.id \in Nat) /\ (answer # None => answer.id \in Nat)
    BY Shapes DEF SearcherTypes
  <2>3. NumbersFit' /\ query' \in Query /\ counter' \in Nat
    BY <1>1, <1>2, <1>3, <2>1, <2>2, QuestionAsked DEF Ask
  <2>4. counter' = counter + 1
    BY <2>1 DEF Ask
  <2>5. SearcherTypes' /\ WorkerIsSound'
    BY <1>1, <2>3, SearcherUntouched DEF SearcherTypes
  <2>6. UiTypes'
    BY <1>1, <1>2, <2>1, <2>3, <2>4 DEF UiTypes
  <2>7. AwaitedIsSelected' /\ DetailsFollowSelection'
    BY <2>1 DEF AwaitedIsSelected, DetailsFollowSelection, IsLocal
  <2> QED BY <2>3, <2>5, <2>6, <2>7
<1> QED BY <1>4, <1>5, <1>6, <1>7 DEF User

LEMMA SendKeeps == ASSUME SearchInv, Send \/ SendLater PROVE SearchInv'
<1> USE DEF SearchInv
<1>1. /\ phase' = "news" /\ touched' \in {"no", "due"} /\ news' = news
      /\ UNCHANGED <<mode, text, download, results, answered, selected, pendingDetail, detail, answer,
                     request, responses, searcher, threads, files, events>>
  BY DEF Send, SendLater
<1>2. \/ lastQuery' = text /\ AskText(text)
      \/ UNCHANGED <<lastQuery, counter, query>>
  BY DEF Send, SendLater
<1>3. /\ NumbersFit' /\ query' \in Query \cup {None} /\ counter' \in Nat /\ counter' >= counter
      /\ lastQuery' \in Texts
  <2>0. text \in Texts /\ mode \in ModeSet /\ counter \in Nat /\ lastQuery \in Texts /\ job' = job
    BY <1>1 DEF UiTypes, searcher
  <2>1. CASE lastQuery' = text /\ AskText(text)
    <3>1. (job # None => job.id \in Nat) /\ (answer # None => answer.id \in Nat)
      BY Shapes DEF SearcherTypes
    <3>2. /\ counter' = counter + 1
          /\ query' = [is |-> "query", id |-> counter + 1, text |-> text, mode |-> mode, force |-> FALSE]
      BY <2>1 DEF AskText
    <3>3. NumbersFit' /\ query' \in Query /\ counter' \in Nat
      BY <1>1, <2>0, <2>1, <3>1, <3>2, QuestionAsked
    <3> QED BY <2>0, <2>1, <3>2, <3>3
  <2>2. CASE UNCHANGED <<lastQuery, counter, query>>
    BY <1>1, <2>0, <2>2, NothingAsked DEF SearcherTypes
  <2> QED BY <1>2, <2>1, <2>2
<1>4. SearcherTypes' /\ WorkerIsSound'
  BY <1>1, <1>3, SearcherUntouched DEF SearcherTypes
<1>5. UiTypes'
  BY <1>1, <1>3 DEF UiTypes
<1>6. AwaitedIsSelected' /\ DetailsFollowSelection'
  BY <1>1 DEF AwaitedIsSelected, DetailsFollowSelection, IsLocal
<1> QED BY <1>3, <1>4, <1>5, <1>6

LEMMA PollNewsKeeps == ASSUME SearchInv, PollNews PROVE SearchInv'
<1> USE DEF SearchInv
<1>1. /\ news # <<>> /\ news' = Tail(news) /\ download' = Shown(Head(news))
      /\ UNCHANGED <<phase, mode, text, touched, results, answered, selected, pendingDetail, detail,
                     answer, request, responses, searcher, threads, files, events>>
      /\ \/ Requery
         \/ lastQuery' = Empty /\ UNCHANGED <<counter, query>>
         \/ UNCHANGED <<lastQuery, counter, query>>
  BY DEF PollNews
<1>2. /\ NumbersFit' /\ query' \in Query \cup {None} /\ counter' \in Nat /\ counter' >= counter
      /\ lastQuery' \in Texts
  <2>0. /\ text \in Texts /\ mode \in ModeSet /\ counter \in Nat /\ lastQuery \in Texts
        /\ job' = job /\ Empty \in Texts
    BY <1>1, Settings DEF UiTypes, searcher
  <2>1. CASE Requery
    <3>1. (job # None => job.id \in Nat) /\ (answer # None => answer.id \in Nat)
      BY Shapes DEF SearcherTypes
    <3>2. /\ counter' = counter + 1 /\ lastQuery' = text
          /\ query' = [is |-> "query", id |-> counter + 1, text |-> text, mode |-> mode, force |-> FALSE]
      BY <2>1 DEF Requery, Ask
    <3>3. NumbersFit' /\ query' \in Query /\ counter' \in Nat
      BY <1>1, <2>0, <2>1, <3>1, <3>2, QuestionAsked
    <3> QED BY <2>0, <3>2, <3>3
  <2>2. CASE (lastQuery' = Empty \/ lastQuery' = lastQuery) /\ UNCHANGED <<counter, query>>
    BY <1>1, <2>0, <2>2, NothingAsked DEF SearcherTypes
  <2> QED BY <1>1, <2>1, <2>2
<1>3. download' \in {"done", "downloading", "updating", "failed"}
  BY <1>1 DEF Shown
<1>4. SearcherTypes' /\ WorkerIsSound'
  <2>1. news' \in Seq(News)
    BY <1>1 DEF SearcherTypes
  <2> QED BY <1>1, <1>2, <2>1, SearcherUntouched DEF SearcherTypes
<1>5. UiTypes'
  BY <1>1, <1>2, <1>3 DEF UiTypes
<1>6. AwaitedIsSelected' /\ DetailsFollowSelection'
  BY <1>1 DEF AwaitedIsSelected, DetailsFollowSelection, IsLocal
<1> QED BY <1>2, <1>4, <1>5, <1>6

LEMMA PollKeeps == ASSUME SearchInv, Poll PROVE SearchInv'
<1> USE DEF SearchInv
<1> DEFINE new == IsAnswer(answer)
           now == IF new THEN answer ELSE results
           asks == new /\ IsLocal(mode) /\ HasItems(now)
           drops == new /\ IsLocal(mode) /\ ~HasItems(now)
           awaited == IF asks THEN ItemKey(mode, now, 0) ELSE IF drops THEN None ELSE pendingDetail
           here == Wanted(responses, awaited)
<1>1. /\ phase' = "input" /\ answer' = None /\ responses' = {}
      /\ results' = now /\ answered' = (IF new THEN answer.id ELSE answered)
      /\ selected' = (IF new THEN 0 ELSE selected)
      /\ request' = (IF asks /\ awaited # pendingDetail THEN awaited ELSE request)
      /\ IF here # {} THEN pendingDetail' = None /\ detail' \in here
         ELSE pendingDetail' = awaited /\ detail' = (IF drops THEN None ELSE detail)
      /\ UNCHANGED <<mode, text, touched, lastQuery, counter, download, query, news, searcher,
                     threads, files, events>>
  BY DEF Poll
<1>2. /\ mode \in ModeSet /\ results \in Results \cup {None} /\ answer \in Results \cup {None}
      /\ pendingDetail \in Key \cup {None} /\ detail \in Key \cup {None} /\ responses \subseteq Key
      /\ request \in Key \cup {None} /\ counter \in Nat /\ selected \in Places /\ 0 \in Places
  BY DEF UiTypes, SearcherTypes, Places
<1>3. NumbersFit' /\ job' = job
  <2>1. job' = job
    BY <1>1 DEF searcher
  <2> QED BY <1>1, <2>1, NothingAsked
<1>4. SearcherTypes' /\ WorkerIsSound'
  BY <1>1, SearcherUntouched DEF SearcherTypes
<1>5. now \in Results \cup {None} /\ (asks => now \in Results /\ awaited \in Key /\ awaited # None)
  <2>1. now \in Results \cup {None}
    BY <1>2
  <2>2. asks => now \in Results
    BY <2>1 DEF HasItems
  <2>3. asks => awaited \in Key
    BY <1>2, <2>2, KeyType
  <2> QED BY <2>1, <2>2, <2>3, Shapes
<1>6. awaited \in Key \cup {None}
  BY <1>2, <1>5
<1>7. here \subseteq Key /\ (here # {} => here = {awaited} /\ awaited \in Key /\ awaited # None)
  <2>1. here = responses \cap {awaited}
    BY DEF Wanted
  <2> HIDE DEF here, awaited
  <2> QED BY <1>2, <2>1, Shapes
<1>8. new => answer \in Results /\ answer.id = counter
  BY <1>2 DEF IsAnswer
<1>9. HasItems(now) => now \in Results
  BY <1>5 DEF HasItems
<1>10. UiTypes'
  <2>1. answered' \in 0..counter'
    <3>1. answered \in 0..counter /\ counter' = counter
      BY <1>1 DEF UiTypes
    <3>2. counter \in 0..counter
      BY <1>2
    <3> HIDE DEF new
    <3> QED BY <1>1, <1>8, <3>1, <3>2
  <2>2. selected' \in Places
    BY <1>1, <1>2
  <2>3. /\ pendingDetail' \in Key \cup {None} /\ detail' \in Key \cup {None}
        /\ request' \in Key \cup {None} /\ results' \in Results \cup {None}
    <3> HIDE DEF here, awaited, asks, drops, now
    <3> QED BY <1>1, <1>2, <1>5, <1>6, <1>7
  <2>4. /\ phase' \in {"new", "input", "news"} /\ responses' \subseteq Key
        /\ UNCHANGED <<mode, text, touched, lastQuery, counter, download, events>>
    BY <1>1
  <2> QED BY <2>1, <2>2, <2>3, <2>4 DEF UiTypes
<1>11. ASSUME IsLocal(mode), pendingDetail' # None
       PROVE  HasItems(now) /\ pendingDetail' = ItemKey(mode, now, selected')
  <2>1. here = {} /\ pendingDetail' = awaited
    BY <1>1, <1>11
  <2>2. CASE asks
    BY <1>1, <2>1, <2>2
  <2>3. CASE ~new
    <3>1. awaited = pendingDetail /\ now = results /\ selected' = selected
      BY <1>1, <2>3
    <3> QED BY <1>11, <2>1, <3>1 DEF AwaitedIsSelected
  <2> QED BY <1>11, <2>1, <2>2, <2>3
<1>12. ASSUME IsLocal(mode), pendingDetail' = None
       PROVE  detail' = IF HasItems(now) THEN ItemKey(mode, now, selected') ELSE None
  <2>1. CASE asks
    <3>1. here = {awaited} /\ detail' = awaited
      <4>1. here # {}
        BY <1>1, <1>5, <1>12, <2>1
      <4> QED BY <1>1, <1>7, <4>1
    <3> QED BY <1>1, <2>1, <3>1
  <2>2. CASE drops
    <3>1. awaited = None
      BY <2>2
    <3>2. here = {}
      BY <1>7, <3>1
    <3> QED BY <1>1, <2>2, <3>2
  <2>3. CASE ~new
    <3>1. awaited = pendingDetail /\ now = results /\ selected' = selected /\ ~drops
      BY <1>1, <2>3
    <3>2. CASE here # {}
      <4>1. pendingDetail # None /\ detail' = pendingDetail
        BY <1>1, <1>7, <3>1, <3>2
      <4> QED BY <1>12, <3>1, <4>1 DEF AwaitedIsSelected
    <3>3. CASE here = {}
      <4>1. pendingDetail = None /\ detail' = detail
        BY <1>1, <1>12, <3>1, <3>3
      <4> QED BY <1>12, <3>1, <4>1 DEF DetailsFollowSelection
    <3> QED BY <3>2, <3>3
  <2> QED BY <1>12, <2>1, <2>2, <2>3
<1>13. AwaitedIsSelected' /\ DetailsFollowSelection'
  <2>1. mode' = mode /\ results' = now
    BY <1>1
  <2> HIDE DEF now
  <2> QED BY <1>11, <1>12, <2>1 DEF AwaitedIsSelected, DetailsFollowSelection, IsLocal
<1> QED BY <1>3, <1>4, <1>10, <1>13

LEMMA DetailKeeps == ASSUME SearchInv, Detail PROVE SearchInv'
<1> USE DEF SearchInv
<1>1. /\ request # None /\ responses' = responses \cup {request} /\ request' = None
      /\ UNCHANGED <<ui, query, answer, news, searcher, threads, files, events>>
  BY DEF Detail
<1>2. UiTypes'
  BY <1>1 DEF UiTypes, ui
<1>3. SearcherTypes' /\ WorkerIsSound'
  BY <1>1, SearcherUntouched DEF SearcherTypes
<1>4. NumbersFit' /\ AwaitedIsSelected' /\ DetailsFollowSelection'
  BY <1>1 DEF NumbersFit, Numbered, AwaitedIsSelected, DetailsFollowSelection, IsLocal, ui, searcher
<1> QED BY <1>2, <1>3, <1>4

-----------------------------------------------------------------------------
(* The threads behind the interface.                                       *)

LEMMA InterfaceUntouched ==
  ASSUME SearchInv, UNCHANGED <<ui, request, responses>>, UNCHANGED events \/ Event,
         query' \in {query, None}, job' \in {job, query, None},
         \/ answer' \in {answer, None}
         \/ /\ job # None /\ answer'.id = job.id /\ answer'.text = job.text
            /\ answer'.mode = job.mode /\ answer'.force = job.force
  PROVE  UiTypes' /\ NumbersFit' /\ AwaitedIsSelected' /\ DetailsFollowSelection'
<1>1. UiTypes'
  <2>1. events' \in 0..MaxEvents
    BY Settings DEF SearchInv, UiTypes, Event
  <2> QED BY <2>1 DEF SearchInv, UiTypes, ui
<1>2. lastQuery' = lastQuery /\ counter' = counter /\ mode' = mode
  BY DEF ui
<1>3. NumbersFit'
  BY <1>2 DEF SearchInv, NumbersFit, Numbered
<1>4. AwaitedIsSelected' /\ DetailsFollowSelection'
  BY DEF SearchInv, AwaitedIsSelected, DetailsFollowSelection, IsLocal, ui
<1> QED BY <1>1, <1>3, <1>4

LEMMA ToldIsNews ==
  ASSUME news \in Seq(News), NEW i \in Indexes, NEW d \in BOOLEAN, NEW o \in BOOLEAN, NEW u \in BOOLEAN
  PROVE  news \o Tells(i, d, o, u) \in Seq(News)
<1>1. [of |-> i, done |-> d, ok |-> o, update |-> u] \in News
  BY DEF News
<1> QED BY <1>1 DEF Tells

LEMMA OpenFailedIsNews ==
  ASSUME NEW s \in Seq(News), NEW i \in Indexes
  PROVE  OpenFailed(i) \in Seq(News) /\ s \o OpenFailed(i) \in Seq(News)
<1>1. [of |-> i, done |-> TRUE, ok |-> FALSE, update |-> FALSE] \in News
  BY DEF News
<1>2. OpenFailed(i) \in Seq(News)
  BY <1>1 DEF OpenFailed, Tells
<1> QED BY <1>2

LEMMA ThreadIsUpdate ==
  ASSUME NEW i \in Indexes, NEW f \in BOOLEAN PROVE Thread(i, f) \in Update
BY DEF Thread, Update

(* The worker begins to fetch an index.                                    *)
LEMMA FetchBegins ==
  ASSUME news \in Seq(News), doubtful \subseteq Indexes, NEW i \in Indexes, BeginFetch(i)
  PROVE  /\ worker' = "fetch" /\ news' \in Seq(News)
         /\ doubtful' \subseteq Indexes /\ doubtful \subseteq doubtful'
         /\ i = "registry" => i \in doubtful'
BY ToldIsNews DEF BeginFetch

LEMMA CurrentIsIndex ==
  ASSUME SearcherTypes, WorkerIsSound, worker \in {"open", "fetch", "stat", "search"}
  PROVE  Current \in Indexes
<1>1. CASE job = None
  <2>1. boot # <<>> /\ boot \in Seq(Indexes)
    BY <1>1 DEF WorkerIsSound, SearcherTypes
  <2> QED BY <1>1, <2>1 DEF Current
<1>2. CASE job # None
  <2>1. job.mode \in ModeSet /\ IsLocal(job.mode)
    BY <1>2, Shapes DEF WorkerIsSound, SearcherTypes
  <2> QED BY <1>2, <2>1, Settings DEF Current
<1> QED BY <1>1, <1>2

LEMMA StartKeeps == ASSUME SearchInv, Start PROVE SearchInv'
<1>1. /\ worker = "start" /\ job = None /\ (UNCHANGED events \/ Event)
      /\ UNCHANGED <<ui, query, answer, request, responses, job, stamp, holder, strays, index>>
  BY DEF Start, SearchInv, WorkerIsSound
<1>2. UiTypes' /\ NumbersFit' /\ AwaitedIsSelected' /\ DetailsFollowSelection'
  BY <1>1, InterfaceUntouched
<1>3. /\ boot \in Seq(Indexes) /\ news \in Seq(News) /\ updates \subseteq Update
      /\ clients \in [Indexes -> Nat] /\ seen \in [Indexes -> Nat]
      /\ index \in [Indexes -> Nat] /\ doubtful \subseteq Indexes
  BY DEF SearchInv, SearcherTypes
<1>4. CASE boot = <<>>
  <2>1. worker' = "idle" /\ UNCHANGED <<clients, seen, boot, updates, news, doubtful>>
    BY <1>4 DEF Start
  <2> QED BY <1>1, <1>2, <2>1 DEF SearchInv, SearcherTypes, WorkerIsSound
<1> DEFINE i == Head(boot)
<1>5. boot # <<>> => i \in Indexes /\ Tail(boot) \in Seq(Indexes)
  BY <1>3
<1> HIDE DEF i
<1>6. CASE /\ boot # <<>>
           /\ clients' = [clients EXCEPT ![i] = index[i]] /\ seen' = [seen EXCEPT ![i] = index[i]]
           /\ updates' = updates \cup {Thread(i, FALSE)}
           /\ boot' = Tail(boot) /\ UNCHANGED <<worker, news, doubtful>>
  <2>1. updates' \subseteq Update
    BY <1>3, <1>5, <1>6, ThreadIsUpdate
  <2>2. clients' \in [Indexes -> Nat] /\ seen' \in [Indexes -> Nat]
    BY <1>3, <1>5, <1>6
  <2>3. SearcherTypes'
    BY <1>1, <1>5, <1>6, <2>1, <2>2 DEF SearchInv, SearcherTypes
  <2>4. WorkerIsSound'
    BY <1>1, <1>6 DEF SearchInv, WorkerIsSound
  <2> QED BY <1>2, <2>3, <2>4 DEF SearchInv
<1>7. CASE boot # <<>> /\ BeginFetch(i) /\ UNCHANGED <<boot, clients, seen, updates>>
  <2>1. /\ worker' = "fetch" /\ news' \in Seq(News)
        /\ doubtful' \subseteq Indexes /\ doubtful \subseteq doubtful'
    BY <1>3, <1>5, <1>7, FetchBegins
  <2>2. SearcherTypes'
    BY <1>1, <1>3, <1>7, <2>1 DEF SearchInv, SearcherTypes
  <2>3. WorkerIsSound'
    BY <1>1, <1>3, <1>7, <2>1 DEF SearchInv, WorkerIsSound
  <2> QED BY <1>2, <2>2, <2>3 DEF SearchInv
<1>8. CASE /\ boot # <<>> /\ news' = news \o OpenFailed(i) /\ doubtful' = doubtful \cup {i}
           /\ boot' = Tail(boot) /\ UNCHANGED <<worker, clients, seen, updates>>
  <2>1. SearcherTypes'
    BY <1>1, <1>3, <1>5, <1>8, OpenFailedIsNews DEF SearchInv, SearcherTypes
  <2>2. WorkerIsSound'
    BY <1>1, <1>8 DEF SearchInv, WorkerIsSound
  <2> QED BY <1>2, <2>1, <2>2 DEF SearchInv
<1> QED BY <1>4, <1>6, <1>7, <1>8 DEF Start, i

LEMMA TakeKeeps == ASSUME SearchInv, Take PROVE SearchInv'
<1>1. /\ worker = "idle" /\ query # None /\ query' = None /\ job = None
      /\ UNCHANGED <<ui, answer, news, request, responses, boot, clients, seen, threads, files, events>>
      /\ \/ /\ IsLocal(query.mode) /\ worker' = "open" /\ job' = query
            /\ stamp' = index[IndexOf[query.mode]]
         \/ UNCHANGED <<worker, job, stamp>>
  BY DEF Take, SearchInv, WorkerIsSound
<1>2. UiTypes' /\ NumbersFit' /\ AwaitedIsSelected' /\ DetailsFollowSelection'
  BY <1>1, InterfaceUntouched
<1>3. query \in Query /\ query.mode \in ModeSet /\ index \in [Indexes -> Nat]
  BY <1>1, Shapes DEF SearchInv, SearcherTypes
<1>4. IsLocal(query.mode) => IndexOf[query.mode] \in Indexes
  BY <1>3, Settings
<1>5. SearcherTypes'
  BY <1>1, <1>3, <1>4 DEF SearchInv, SearcherTypes, threads, files
<1>6. WorkerIsSound'
  BY <1>1, <1>3 DEF SearchInv, WorkerIsSound, threads
<1> QED BY <1>2, <1>5, <1>6 DEF SearchInv

LEMMA OpenKeeps == ASSUME SearchInv, OpenIndex PROVE SearchInv'
<1> DEFINE i == Current
<1>1. /\ worker = "open" /\ stamp' = 0 /\ (UNCHANGED events \/ Event)
      /\ clients' = [clients EXCEPT ![i] = clients'[i]] /\ clients'[i] \in {clients[i], index[i]}
      /\ seen' = [seen EXCEPT ![i] = seen'[i]] /\ seen'[i] \in {seen[i], stamp}
      /\ updates' = (IF job.force THEN updates \cup {Thread(i, TRUE)} ELSE updates)
      /\ \/ clients'[i] = 0 /\ BeginFetch(i)
         \/ /\ clients'[i] # 0 /\ worker' = "search" /\ news' = news
            /\ doubtful' \in {doubtful, doubtful \cup {i}}
      /\ UNCHANGED <<ui, query, answer, request, responses, job, boot, holder, strays, index>>
  <2>1. SearcherTypes /\ i \in Indexes
    BY CurrentIsIndex DEF OpenIndex, SearchInv
  <2> HIDE DEF i
  <2>2. clients \in [Indexes -> Nat] /\ seen \in [Indexes -> Nat]
    BY <2>1 DEF SearcherTypes
  <2> QED BY <2>1, <2>2 DEF OpenIndex, i
<1>2. UiTypes' /\ NumbersFit' /\ AwaitedIsSelected' /\ DetailsFollowSelection'
  BY <1>1, InterfaceUntouched
<1>3. /\ SearcherTypes /\ WorkerIsSound /\ job # None /\ job \in Query
      /\ news \in Seq(News) /\ updates \subseteq Update /\ doubtful \subseteq Indexes
      /\ clients \in [Indexes -> Nat] /\ seen \in [Indexes -> Nat]
      /\ index \in [Indexes -> Nat] /\ stamp \in Nat
  BY <1>1 DEF SearchInv, SearcherTypes, WorkerIsSound
<1>4. i \in Indexes /\ Current' = i
  BY <1>1, <1>3, CurrentIsIndex DEF Current
<1> HIDE DEF i
<1>5. updates' \subseteq Update
  BY <1>1, <1>3, <1>4, ThreadIsUpdate
<1>6. /\ news' \in Seq(News) /\ doubtful' \subseteq Indexes /\ worker' \in {"fetch", "search"}
      /\ worker' = "search" => clients'[i] # 0
  BY <1>1, <1>3, <1>4, FetchBegins
<1>7. clients' \in [Indexes -> Nat] /\ seen' \in [Indexes -> Nat]
  BY <1>1, <1>3, <1>4
<1>8. SearcherTypes'
  BY <1>1, <1>3, <1>5, <1>6, <1>7 DEF SearcherTypes
<1>9. WorkerIsSound'
  BY <1>1, <1>3, <1>4, <1>6 DEF WorkerIsSound
<1> QED BY <1>2, <1>8, <1>9 DEF SearchInv

(* The worker goes on without the index it could not open.                 *)
LEMMA GivingUp ==
  ASSUME SearcherTypes, WorkerIsSound, worker \in {"open", "fetch"}, GivesUp
  PROVE  /\ boot' \in Seq(Indexes) /\ job' \in {job, None}
         /\ worker' \in {"start", "idle"} /\ job' = None
<1>1. job = None => boot # <<>>
  BY DEF WorkerIsSound
<1>2. boot # <<>> => Tail(boot) \in Seq(Indexes)
  BY DEF SearcherTypes
<1> QED BY <1>1, <1>2 DEF GivesUp, SearcherTypes

LEMMA OpenKicadKeeps == ASSUME SearchInv, OpenKicad PROVE SearchInv'
<1> DEFINE i == Current
<1>1. /\ worker = "open" /\ stamp' = 0
      /\ \/ BeginFetch(i) /\ UNCHANGED <<clients, boot, job, events>>
         \/ /\ index[i] # 0 /\ clients' = [clients EXCEPT ![i] = index[i]]
            /\ worker' = "stat" /\ UNCHANGED <<boot, job, news, doubtful, events>>
         \/ /\ news' = news \o OpenFailed(i) /\ doubtful' = doubtful \cup {i}
            /\ GivesUp /\ UNCHANGED <<clients, events>>
      /\ UNCHANGED <<ui, query, answer, request, responses, seen, updates, holder, strays, index>>
  BY DEF OpenKicad, threads
<1>2. /\ SearcherTypes /\ WorkerIsSound /\ job # None /\ news \in Seq(News)
      /\ clients \in [Indexes -> Nat] /\ index \in [Indexes -> Nat] /\ doubtful \subseteq Indexes
  BY <1>1 DEF SearchInv, SearcherTypes, WorkerIsSound
<1>3. i \in Indexes /\ (job' = job => Current' = i)
  BY <1>1, <1>2, CurrentIsIndex DEF Current, GivesUp
<1> HIDE DEF i
<1>4. job' \in {job, None} /\ boot' \in Seq(Indexes) /\ UNCHANGED events
  BY <1>1, <1>2, GivingUp DEF SearcherTypes
<1>5. UiTypes' /\ NumbersFit' /\ AwaitedIsSelected' /\ DetailsFollowSelection'
  BY <1>1, <1>4, InterfaceUntouched
<1>6. news' \in Seq(News) /\ doubtful' \subseteq Indexes
  BY <1>1, <1>2, <1>3, FetchBegins, OpenFailedIsNews
<1>7. clients' \in [Indexes -> Nat]
  BY <1>1, <1>2, <1>3
<1>8. /\ \/ worker' = "fetch" /\ job' = job
         \/ worker' = "stat" /\ job' = job /\ clients'[i] # 0
         \/ worker' \in {"start", "idle"} /\ job' = None
  <2>1. CASE BeginFetch(i) /\ UNCHANGED <<clients, boot, job, events>>
    BY <2>1 DEF BeginFetch
  <2>2. CASE /\ index[i] # 0 /\ clients' = [clients EXCEPT ![i] = index[i]]
             /\ worker' = "stat" /\ UNCHANGED <<boot, job, news, doubtful, events>>
    BY <1>2, <1>3, <2>2
  <2>3. CASE GivesUp
    BY <1>1, <1>2, <2>3, GivingUp
  <2> QED BY <1>1, <2>1, <2>2, <2>3
<1>9. SearcherTypes'
  BY <1>1, <1>2, <1>4, <1>6, <1>7, <1>8 DEF SearcherTypes
<1>10. WorkerIsSound'
  BY <1>1, <1>2, <1>3, <1>8 DEF WorkerIsSound
<1> QED BY <1>5, <1>9, <1>10 DEF SearchInv

LEMMA FetchKeeps == ASSUME SearchInv, Fetch PROVE SearchInv'
<1> DEFINE i == Current
<1>1. /\ worker = "fetch" /\ (UNCHANGED events \/ Event)
      /\ \E v \in ({index[i]} \ {0}) \cup {index[i] + 1} :
           /\ index' = [index EXCEPT ![i] = v]
           /\ \/ /\ clients' = [clients EXCEPT ![i] = v] /\ news' = news \o Reported(i, TRUE)
                 /\ worker' = "stat" /\ UNCHANGED <<boot, job, doubtful>>
              \/ /\ news' = news \o Reported(i, TRUE) \o OpenFailed(i)
                 /\ doubtful' = doubtful \cup {i} /\ GivesUp /\ UNCHANGED clients
      /\ UNCHANGED <<ui, query, answer, request, responses, stamp, seen, updates, holder, strays>>
  BY DEF Fetch, threads
<1>2. /\ SearcherTypes /\ WorkerIsSound /\ news \in Seq(News) /\ doubtful \subseteq Indexes
      /\ clients \in [Indexes -> Nat] /\ index \in [Indexes -> Nat] /\ boot \in Seq(Indexes)
      /\ (job = None => boot # <<>>)
  BY <1>1 DEF SearchInv, SearcherTypes, WorkerIsSound
<1>3. i \in Indexes /\ (UNCHANGED <<boot, job>> => Current' = i)
  BY <1>1, <1>2, CurrentIsIndex DEF Current
<1> HIDE DEF i
<1>4. job' \in {job, None} /\ boot' \in Seq(Indexes)
  BY <1>1, <1>2, GivingUp
<1>5. UiTypes' /\ NumbersFit' /\ AwaitedIsSelected' /\ DetailsFollowSelection'
  BY <1>1, <1>4, InterfaceUntouched
<1>6. news' \in Seq(News) /\ doubtful' \subseteq Indexes
  <2>1. news \o Reported(i, TRUE) \in Seq(News)
    BY <1>2, <1>3, ToldIsNews DEF Reported
  <2>2. news \o Reported(i, TRUE) \o OpenFailed(i) \in Seq(News)
    BY <1>3, <2>1, OpenFailedIsNews
  <2> QED BY <1>1, <1>2, <1>3, <2>1, <2>2
<1>7. /\ index' \in [Indexes -> Nat] /\ clients' \in [Indexes -> Nat]
      /\ \/ worker' = "stat" /\ clients'[i] # 0 /\ UNCHANGED <<boot, job>>
         \/ worker' \in {"start", "idle"} /\ job' = None
  <2>1. PICK v \in ({index[i]} \ {0}) \cup {index[i] + 1} :
          /\ index' = [index EXCEPT ![i] = v]
          /\ \/ /\ clients' = [clients EXCEPT ![i] = v]
                /\ worker' = "stat" /\ UNCHANGED <<boot, job>>
             \/ GivesUp /\ UNCHANGED clients
    BY <1>1
  <2>2. v \in Nat /\ v # 0
    BY <1>2, <1>3
  <2>3. CASE GivesUp /\ UNCHANGED clients
    BY <1>1, <1>2, <2>1, <2>2, <2>3, GivingUp
  <2> QED BY <1>2, <1>3, <2>1, <2>2, <2>3
<1>8. SearcherTypes'
  BY <1>1, <1>2, <1>4, <1>6, <1>7 DEF SearcherTypes
<1>9. WorkerIsSound'
  BY <1>1, <1>2, <1>3, <1>7 DEF WorkerIsSound
<1> QED BY <1>5, <1>8, <1>9 DEF SearchInv

LEMMA FetchFailsKeeps == ASSUME SearchInv, FetchFails PROVE SearchInv'
<1> DEFINE i == Current
<1>1. /\ worker = "fetch" /\ Event /\ GivesUp
      /\ \E v \in {index[i], 0, 1, index[i] + 1} : index' = [index EXCEPT ![i] = v]
      /\ \E others \in 0..(Files[i] - 1) : strays' = strays + others
      /\ news' \in {news, news \o Reported(i, FALSE)} /\ doubtful' \in {doubtful, doubtful \cup {i}}
      /\ UNCHANGED <<ui, query, answer, request, responses, stamp, clients, seen, updates, holder>>
  <2>1. worker = "fetch" /\ SearcherTypes /\ i \in Indexes
    BY CurrentIsIndex DEF FetchFails, SearchInv
  <2>2. strays' = strays => \E others \in 0..(Files[i] - 1) : strays' = strays + others
    <3>1. 0 \in 0..(Files[i] - 1) /\ strays + 0 = strays
      BY <2>1, Settings DEF SearcherTypes
    <3> QED BY <3>1
  <2> QED BY <2>1, <2>2 DEF FetchFails
<1>2. /\ SearcherTypes /\ WorkerIsSound /\ news \in Seq(News) /\ doubtful \subseteq Indexes
      /\ index \in [Indexes -> Nat] /\ strays \in Nat
  BY DEF SearchInv, SearcherTypes
<1>3. i \in Indexes
  BY <1>1, <1>2, CurrentIsIndex
<1> HIDE DEF i
<1>4. job' = None /\ boot' \in Seq(Indexes) /\ worker' \in {"start", "idle"}
  BY <1>1, <1>2, GivingUp
<1>5. UiTypes' /\ NumbersFit' /\ AwaitedIsSelected' /\ DetailsFollowSelection'
  BY <1>1, <1>4, InterfaceUntouched
<1>6. news' \in Seq(News) /\ doubtful' \subseteq Indexes
  BY <1>1, <1>2, <1>3, ToldIsNews DEF Reported
<1>7. index' \in [Indexes -> Nat] /\ strays' \in Nat
  BY <1>1, <1>2, <1>3, Settings
<1>8. SearcherTypes'
  BY <1>1, <1>2, <1>4, <1>6, <1>7 DEF SearcherTypes
<1>9. WorkerIsSound'
  BY <1>1, <1>2, <1>4 DEF WorkerIsSound
<1> QED BY <1>5, <1>8, <1>9 DEF SearchInv

LEMMA StatKeeps == ASSUME SearchInv, Stat PROVE SearchInv'
<1>1. /\ worker = "stat" /\ seen' = [seen EXCEPT ![Current] = index[Current]]
      /\ updates' = updates \cup Checked(Current)
      /\ \/ job = None /\ boot' = Tail(boot) /\ worker' = "start"
         \/ job # None /\ boot' = boot /\ worker' = "search"
      /\ UNCHANGED <<ui, query, answer, news, request, responses, job, stamp, clients, holder, strays,
                     files, events>>
  BY DEF Stat, AfterOpening
<1>2. UiTypes' /\ NumbersFit' /\ AwaitedIsSelected' /\ DetailsFollowSelection'
  BY <1>1, InterfaceUntouched
<1>3. /\ SearcherTypes /\ WorkerIsSound /\ (job = None => boot # <<>>) /\ boot \in Seq(Indexes)
      /\ updates \subseteq Update /\ seen \in [Indexes -> Nat]
      /\ index \in [Indexes -> Nat]
  BY <1>1 DEF SearchInv, SearcherTypes, WorkerIsSound
<1>4. Current \in Indexes
  BY <1>1, <1>3, CurrentIsIndex
<1>5. updates' \subseteq Update
  BY <1>1, <1>3, <1>4, ThreadIsUpdate DEF Checked
<1>6. boot' \in Seq(Indexes) /\ seen' \in [Indexes -> Nat]
  <2>0. boot # <<>> => Tail(boot) \in Seq(Indexes)
    BY <1>3
  <2>1. boot' \in Seq(Indexes)
    BY <1>1, <1>3, <2>0
  <2>2. index[Current] \in Nat
    BY <1>3, <1>4
  <2> QED BY <1>1, <1>3, <2>1, <2>2
<1>7. SearcherTypes'
  BY <1>1, <1>3, <1>5, <1>6 DEF SearcherTypes, files
<1>8. worker' = "search" => Current' = Current
  BY <1>1 DEF Current
<1>9. WorkerIsSound'
  BY <1>1, <1>3, <1>8 DEF WorkerIsSound
<1> QED BY <1>2, <1>7, <1>9 DEF SearchInv

LEMMA SearchKeeps == ASSUME SearchInv, Search PROVE SearchInv'
<1>1. /\ worker = "search" /\ worker' = "idle" /\ job' = None
      /\ answer' = [is |-> "results", id |-> job.id, text |-> job.text, mode |-> job.mode,
                    force |-> job.force, version |-> clients[Current]]
      /\ UNCHANGED <<ui, query, news, request, responses, boot, stamp, clients, seen, threads, files,
                     events>>
  BY DEF Search
<1>2. /\ SearcherTypes /\ WorkerIsSound /\ job # None /\ job \in Query
      /\ clients \in [Indexes -> Nat] /\ clients[Current] # 0
  BY <1>1 DEF SearchInv, SearcherTypes, WorkerIsSound
<1>3. UiTypes' /\ NumbersFit' /\ AwaitedIsSelected' /\ DetailsFollowSelection'
  BY <1>1, <1>2, InterfaceUntouched
<1>4. Current \in Indexes
  BY <1>1, <1>2, CurrentIsIndex
<1>5. answer' \in Results
  <2>1. /\ job.id \in Nat /\ job.text \in Texts /\ job.mode \in ModeSet /\ job.force \in BOOLEAN
    BY <1>2, Shapes
  <2>2. clients[Current] \in Nat \ {0}
    BY <1>2, <1>4
  <2> QED BY <1>1, <2>1, <2>2 DEF Results
<1>6. SearcherTypes'
  BY <1>1, <1>2, <1>5 DEF SearcherTypes, threads, files
<1>7. WorkerIsSound'
  BY <1>1, <1>2 DEF WorkerIsSound, threads
<1> QED BY <1>3, <1>6, <1>7 DEF SearchInv

LEMMA UpdatesKeep == ASSUME SearchInv, UpdateThreads PROVE SearchInv'
<1>1. /\ UNCHANGED <<ui, query, answer, request, responses, searcher>>
      /\ UNCHANGED events \/ Event
  BY DEF UpdateThreads, UpdateBegins, FileEnds, UpdateEnds, UpdateFails, StrayEnds
<1>2. UiTypes' /\ NumbersFit' /\ AwaitedIsSelected' /\ DetailsFollowSelection'
  <2>1. query' = query /\ job' = job /\ answer' = answer
    BY <1>1 DEF searcher
  <2> QED BY <1>1, <2>1, InterfaceUntouched
<1>3. /\ SearcherTypes /\ WorkerIsSound /\ news \in Seq(News) /\ updates \subseteq Update
      /\ holder \in Update \cup {None} /\ strays \in Nat
      /\ index \in [Indexes -> Nat] /\ doubtful \subseteq Indexes
  BY DEF SearchInv, SearcherTypes
<1>4. \A u \in Update : u.of \in Indexes /\ u.force \in BOOLEAN /\ u.left \in Nat
  BY DEF Update
<1>5. ASSUME /\ news' \in Seq(News) /\ updates' \subseteq Update /\ strays' \in Nat
             /\ index' \in [Indexes -> Nat] /\ doubtful' \subseteq Indexes
             /\ holder' \in Update \cup {None}
             /\ holder' # None => holder'.left <= Files[holder'.of]
      PROVE  SearchInv'
  <2>1. SearcherTypes'
    BY <1>1, <1>3, <1>5 DEF SearcherTypes, searcher
  <2>2. WorkerIsSound'
    BY <1>1, <1>3, <1>5 DEF WorkerIsSound, Current, searcher
  <2> QED BY <1>2, <2>1, <2>2 DEF SearchInv
<1>6. holder # None => /\ holder \in Update /\ holder.of \in Indexes /\ holder.left \in Nat
                       /\ holder.left <= Files[holder.of]
  BY <1>3, <1>4 DEF WorkerIsSound
<1>7. ASSUME NEW u \in updates, UpdateBegins(u) PROVE SearchInv'
  <2>1. /\ holder = None /\ updates' = updates \ {u} /\ UNCHANGED <<files, strays>>
        /\ \/ /\ holder' = [u EXCEPT !.left = Files[u.of]]
              /\ news' \in {news, news \o Tells(u.of, FALSE, FALSE, TRUE)}
           \/ UNCHANGED <<holder, news>>
    BY <1>7 DEF UpdateBegins
  <2>2. u \in Update /\ u.of \in Indexes /\ Files[u.of] \in Nat
    BY <1>3, <1>4, Settings
  <2>3. news' \in Seq(News)
    BY <1>3, <2>1, <2>2, ToldIsNews
  <2>4. /\ [u EXCEPT !.left = Files[u.of]] \in Update
        /\ [u EXCEPT !.left = Files[u.of]].left <= Files[[u EXCEPT !.left = Files[u.of]].of]
    BY <2>2 DEF Update
  <2> QED BY <1>3, <1>5, <2>1, <2>3, <2>4 DEF files
<1>8. CASE FileEnds
  <2>1. /\ holder # None /\ holder.left # 0 /\ UNCHANGED <<news, updates, strays, doubtful>>
        /\ holder' \in {[holder EXCEPT !.left = @ - 1, !.changed = TRUE], [holder EXCEPT !.left = @ - 1]}
        /\ \/ UNCHANGED index
           \/ \E v \in Replaced(holder.of, holder.left = 1) : index' = [index EXCEPT ![holder.of] = v]
    BY <1>8 DEF FileEnds
  <2>2. holder' \in Update /\ holder'.left <= Files[holder'.of]
    <3>0. holder.left - 1 \in Nat /\ holder.of \in Indexes /\ holder.force \in BOOLEAN
          /\ holder.changed \in BOOLEAN
      BY <1>6, <2>1 DEF Update
    <3>1. /\ [holder EXCEPT !.left = @ - 1, !.changed = TRUE] \in Update
          /\ [holder EXCEPT !.left = @ - 1] \in Update
      BY <1>6, <2>1, <3>0 DEF Update
    <3>2. holder'.of = holder.of /\ holder'.left = holder.left - 1
      BY <1>6, <2>1 DEF Update
    <3>3. Files[holder.of] \in Nat
      BY <1>6, <2>1, Settings
    <3> QED BY <1>6, <2>1, <3>1, <3>2, <3>3
  <2>3. index' \in [Indexes -> Nat]
    BY <1>3, <1>6, <2>1 DEF Replaced
  <2> QED BY <1>3, <1>5, <2>1, <2>2, <2>3
<1>9. CASE UpdateEnds
  <2>1. /\ holder # None /\ holder' = None /\ UNCHANGED <<updates, strays, index, doubtful>>
        /\ news' \in {news, news \o Tells(holder.of, TRUE, TRUE, TRUE)}
    BY <1>9 DEF UpdateEnds, files
  <2> QED BY <1>3, <1>5, <1>6, <2>1, ToldIsNews
<1>10. CASE UpdateFails
  <2>1. /\ holder # None /\ holder.left # 0 /\ holder' = None /\ UNCHANGED <<updates, index>>
        /\ news' = news \o Tells(holder.of, TRUE, FALSE, TRUE)
        /\ strays' = strays + (holder.left - 1) /\ doubtful' \in {doubtful, doubtful \cup {holder.of}}
    BY <1>10 DEF UpdateFails
  <2>2. news' \in Seq(News)
    BY <1>3, <1>6, <2>1, ToldIsNews
  <2>3. strays' \in Nat /\ doubtful' \subseteq Indexes
    BY <1>3, <1>6, <2>1
  <2>4. updates' \subseteq Update /\ index' \in [Indexes -> Nat] /\ holder' = None
    BY <1>3, <2>1
  <2> QED BY <1>5, <2>2, <2>3, <2>4
<1>11. CASE StrayEnds
  <2>1. /\ strays > 0 /\ strays' = strays - 1 /\ UNCHANGED <<news, updates, holder, doubtful>>
        /\ \E v \in {index["registry"]} \cup Replaced("registry", FALSE) :
             index' = [index EXCEPT !["registry"] = v]
    BY <1>11 DEF StrayEnds
  <2>2. index' \in [Indexes -> Nat]
    <3>1. PICK v \in {index["registry"]} \cup Replaced("registry", FALSE) :
            index' = [index EXCEPT !["registry"] = v]
      BY <2>1
    <3>2. v \in Nat \/ "registry" \notin Indexes
      BY <1>3, <3>1 DEF Replaced
    <3> QED BY <1>3, <3>1, <3>2
  <2> QED BY <1>3, <1>5, <1>6, <2>1, <2>2
<1> QED BY <1>7, <1>8, <1>9, <1>10, <1>11 DEF UpdateThreads

-----------------------------------------------------------------------------
LEMMA SearchInitInvariant == SearchInit => SearchInv
<1> SUFFICES ASSUME SearchInit PROVE SearchInv
  OBVIOUS
<1> USE Settings DEF SearchInit
<1>1. UiTypes
  BY DEF UiTypes, Places
<1>2. SearcherTypes
  BY DEF SearcherTypes
<1>3. WorkerIsSound
  BY DEF WorkerIsSound
<1>4. NumbersFit /\ AwaitedIsSelected /\ DetailsFollowSelection
  BY DEF NumbersFit, Numbered, AwaitedIsSelected, DetailsFollowSelection, HasItems
<1> QED BY <1>1, <1>2, <1>3, <1>4 DEF SearchInv

LEMMA SearchNextInvariant == SearchInv /\ [SearchNext]_searchVars => SearchInv'
<1> SUFFICES ASSUME SearchInv, [SearchNext]_searchVars PROVE SearchInv'
  OBVIOUS
<1>1. CASE UNCHANGED searchVars
  <2>1. UiTypes' /\ SearcherTypes'
    BY <1>1 DEF SearchInv, UiTypes, SearcherTypes, searchVars, ui, searcher, threads, files
  <2>2. WorkerIsSound' /\ NumbersFit'
    BY <1>1 DEF SearchInv, WorkerIsSound, NumbersFit, Numbered, Current, searchVars, ui,
       searcher, threads
  <2>3. AwaitedIsSelected' /\ DetailsFollowSelection'
    BY <1>1 DEF SearchInv, AwaitedIsSelected, DetailsFollowSelection, IsLocal, searchVars, ui
  <2> QED BY <2>1, <2>2, <2>3 DEF SearchInv
<1>2. CASE User
  BY <1>2, UserKeeps
<1>3. CASE Interface
  BY <1>3, NewKeeps, SendKeeps, PollNewsKeeps, PollKeeps DEF Interface
<1>4. CASE Detail
  BY <1>4, DetailKeeps
<1>5. CASE SearchWorker
  BY <1>5, StartKeeps, TakeKeeps, OpenKeeps, OpenKicadKeeps, FetchKeeps, FetchFailsKeeps, StatKeeps,
     SearchKeeps DEF SearchWorker
<1>6. CASE UpdateThreads
  BY <1>6, UpdatesKeep
<1> QED BY <1>1, <1>2, <1>3, <1>4, <1>5, <1>6 DEF SearchNext

(* A part search is in a state of its types, whatever is typed, selected,  *)
(* downloaded and updated in whatever order; the worker has an index at    *)
(* hand wherever it needs one, and the numbers that pass through the       *)
(* channels still tell which text and mode they were about.                *)
THEOREM SearchInvariant == SearchSpec => [](SearchTypeOK /\ SearchInv)
<1>1. SearchSpec => []SearchInv
  BY SearchInitInvariant, SearchNextInvariant, PTL DEF SearchSpec
<1>2. SearchInv => SearchTypeOK
  BY DEF SearchInv, UiTypes, SearcherTypes, SearchTypeOK
<1> QED BY <1>1, <1>2, PTL

(* When no detail is awaited, what is shown is the item under the cursor   *)
(* (poll_detail_responses).                                                *)
THEOREM DetailsAreSelected == SearchSpec => []DetailsFollowSelection
<1>1. SearchInv => DetailsFollowSelection
  BY DEF SearchInv
<1> QED BY <1>1, SearchInvariant, PTL

LEMMA OnlyAnswersAppear ==
  ASSUME SearchInv, SearchNext, results' # results, HasItems(results')
  PROVE  Poll
<1>1. /\ ~New /\ ~Send /\ ~SendLater /\ ~PollNews /\ ~Detail /\ ~ForceUpdate
      /\ \A at \in Places : ~Select(at)
  BY DEF New, Send, SendLater, PollNews, Detail, ui, ForceUpdate, Select
<1>2. \A t \in Texts : ~Type(t)
  BY DEF Type, HasItems
<1>3. ~CycleMode
  BY DEF CycleMode, ClearResults, HasItems
<1>4. ~SearchWorker
  BY DEF SearchWorker, Start, Take, OpenIndex, OpenKicad, Fetch, FetchFails, Stat, Search, ui
<1>5. ~UpdateThreads
  BY DEF UpdateThreads, UpdateBegins, FileEnds, UpdateEnds, UpdateFails, StrayEnds, ui
<1> QED BY <1>1, <1>2, <1>3, <1>4, <1>5 DEF SearchNext, User, Interface

(* Hits that appear while the text on the screen has been sent are hits    *)
(* for that text in that mode: matching the numbers alone is enough        *)
(* (poll_results).                                                         *)
THEOREM HitsFit == SearchSpec => HitsFitTheScreen
<1> DEFINE Fit == results' # results /\ HasItems(results') /\ ~results'.force /\ IsLocal(mode)
                   /\ text # Empty /\ text = lastQuery
                   => results'.mode = mode /\ results'.text = text
<1>1. ASSUME SearchInv, [SearchNext]_searchVars PROVE [Fit]_searchVars
  <2>1. SUFFICES ASSUME SearchNext, results' # results, HasItems(results'), ~results'.force,
                        IsLocal(mode), text # Empty, text = lastQuery
                 PROVE  results'.mode = mode /\ results'.text = text
    BY <1>1
  <2>2. Poll
    BY <1>1, <2>1, OnlyAnswersAppear
  <2>3. IsAnswer(answer) /\ results' = answer
    BY <2>1, <2>2 DEF Poll
  <2>4. Numbered(answer)
    BY <1>1 DEF SearchInv, NumbersFit
  <2> QED BY <2>1, <2>3, <2>4 DEF Numbered, IsAnswer
<1>2. SearchSpec => [](SearchTypeOK /\ SearchInv)
  BY SearchInvariant
<1> QED BY <1>1, <1>2, PTL DEF SearchSpec, HitsFitTheScreen

-----------------------------------------------------------------------------
(* Hits are of the index as it is.                                         *)

(* An index all changes of which are told of.                              *)
Followed(i) == i \notin doubtful
NoThread(i) == (\A u \in updates : u.of # i) /\ (holder # None => holder.of # i)

(* What the worker has open is no newer than the files, and unless changes *)
(* go untold it is no older than the time the worker has kept for it.      *)
Rising(i) ==
  /\ clients[i] = 0 => seen[i] = 0
  /\ clients[i] <= index[i]
  /\ Followed(i) => seen[i] <= clients[i]
IndexesRise ==
  /\ \A i \in Indexes : Rising(i)
  /\ worker = "open" => stamp <= index[Current]

(* While the worker fetches the KiCad index no thread updates it; while it *)
(* fetches the registry one may, and downloads without the lock may, too.  *)
OpeningIsAlone ==
  /\ worker \in {"fetch", "stat"} => Current = "kicad" \/ ~Followed(Current)
  /\ worker \in {"fetch", "stat"} /\ Current = "kicad" => NoThread("kicad")
  /\ worker = "fetch" /\ Current = "kicad" => index["kicad"] = 0
  /\ worker = "stat" /\ Current = "kicad" => clients["kicad"] = index["kicad"]
  /\ "kicad" \in Indexes /\ clients["kicad"] = 0 => NoThread("kicad")
  /\ strays > 0 => ~Followed("registry")
FilesInv == IndexesRise /\ OpeningIsAlone

(* The messages on their way are in the order of their numbers, and hits   *)
(* come from an index that is there.                                       *)
Forced(m) == m # None /\ m.force => IndexOf[m.mode] = "registry"
Found(r) == r # None => IsLocal(r.mode) /\ index[IndexOf[r.mode]] # 0 /\ r.id <= counter
Before(a, b) == a # None /\ b # None => a.id < b.id
MessagesInOrder ==
  /\ Forced(query) /\ Forced(job)
  /\ Found(answer) /\ Found(results)
  /\ Before(answer, job) /\ Before(job, query) /\ Before(answer, query)

(* Nothing is shown for an index that is not there.                        *)
OfMode(m) == m # None /\ m.id = counter => m.mode = mode
NothingWithoutIndex ==
  IsLocal(mode) /\ index[IndexOf[mode]] = 0 =>
    /\ results = None /\ (answer # None => answer.id < counter)
    /\ OfMode(query) /\ OfMode(job)

(* What the last query finds is the index as it is, or the interface will  *)
(* hear that it was updated, unless the update fails.                      *)
IsTold(n, i) == n.of = i /\ n.done /\ n.ok /\ n.update
Told(i) == \E k \in 1..Len(news) : IsTold(news[k], i)
Due(i) == Told(i) \/ (holder # None /\ holder.of = i /\ holder.changed)
UpToDate(m, v) ==
  m # None /\ m.id = counter /\ Followed(IndexOf[m.mode]) =>
    v = index[IndexOf[m.mode]] \/ Due(IndexOf[m.mode])
JobInTime ==
  /\ worker = "open" => UpToDate(job, stamp)
  /\ worker = "search" => UpToDate(job, clients[Current])
HitsInTime ==
  /\ answer # None => UpToDate(answer, answer.version)
  /\ results # None => UpToDate(results, results.version)

(* Hits are those of the last query, or its own are on their way.          *)
Last(m) == m # None /\ m.id = counter /\ m.mode = mode
LastIsComing ==
  IsLocal(mode) /\ Followed(IndexOf[mode]) /\ lastQuery # Empty /\ HasItems(results) =>
    Last(query) \/ Last(job) \/ Last(answer) \/ Last(results)

MessagesInv == MessagesInOrder /\ NothingWithoutIndex /\ JobInTime /\ HitsInTime /\ LastIsComing

-----------------------------------------------------------------------------
LEMMA FileTypes ==
  ASSUME SearchInv
  PROVE  /\ clients \in [Indexes -> Nat] /\ seen \in [Indexes -> Nat] /\ index \in [Indexes -> Nat]
         /\ stamp \in Nat /\ counter \in Nat /\ strays \in Nat
         /\ updates \subseteq Update /\ doubtful \subseteq Indexes
         /\ holder # None => /\ holder \in Update /\ holder.of \in Indexes /\ holder.left \in Nat
                             /\ holder.changed \in BOOLEAN /\ (holder.of = "kicad" => holder.left <= 1)
         /\ \A i \in Indexes : i \in {"registry", "kicad"}
<1>1. SearcherTypes /\ counter \in Nat
  BY DEF SearchInv, UiTypes
<1>2. ASSUME holder # None
      PROVE  /\ holder \in Update /\ holder.of \in Indexes /\ holder.left \in Nat
             /\ holder.changed \in BOOLEAN /\ (holder.of = "kicad" => holder.left <= 1)
  <2>1. holder \in Update /\ holder.left <= Files[holder.of]
    BY <1>1, <1>2 DEF SearchInv, WorkerIsSound, SearcherTypes
  <2>2. holder.of \in Indexes /\ holder.left \in Nat /\ holder.changed \in BOOLEAN
    BY <2>1 DEF Update
  <2> QED BY <2>1, <2>2, Settings
<1>3. \A i \in Indexes : i \in {"registry", "kicad"}
  BY Settings
<1> QED BY <1>1, <1>2, <1>3 DEF SearcherTypes

LEMMA JobIsLocal ==
  ASSUME SearchInv, job # None
  PROVE  /\ job \in Query /\ job.mode \in ModeSet /\ IsLocal(job.mode) /\ IndexOf[job.mode] \in Indexes
         /\ Current = IndexOf[job.mode]
<1>1. job \in Query /\ IsLocal(job.mode)
  BY DEF SearchInv, SearcherTypes, WorkerIsSound
<1>2. job.mode \in ModeSet
  BY <1>1, Shapes
<1> QED BY <1>1, <1>2, Settings DEF Current

LEMMA FilesUntouched ==
  ASSUME FilesInv, UNCHANGED <<searcher, threads, files>>
  PROVE  FilesInv'
BY DEF FilesInv, IndexesRise, Rising, OpeningIsAlone, Followed, NoThread, Current, searcher,
   threads, files

(* Every index only gets newer, and what is told wrong stays doubtful.     *)
LEMMA RisingStays ==
  ASSUME SearchInv, NEW j \in Indexes, Rising(j), clients'[j] = clients[j], seen'[j] = seen[j],
         index'[j] \in Nat, index[j] <= index'[j], doubtful \subseteq doubtful'
  PROVE  Rising(j)'
BY FileTypes DEF Rising, Followed

(* The worker gives an index up, or drops the query that needs it.         *)
LEMMA NothingInHand ==
  ASSUME SearchInv, FilesInv, worker' \in {"start", "idle"}, UNCHANGED <<clients, seen, holder>>,
         index' \in [Indexes -> Nat], \A j \in Indexes : index[j] <= index'[j],
         doubtful \subseteq doubtful', strays' > 0 => strays > 0 \/ ~Followed("registry")',
         "kicad" \in Indexes /\ clients["kicad"] = 0 => NoThread("kicad")'
  PROVE  FilesInv'
<1> USE FileTypes DEF FilesInv
<1>1. \A j \in Indexes : Rising(j)'
  BY RisingStays DEF IndexesRise
<1>2. IndexesRise'
  BY <1>1 DEF IndexesRise
<1>3. OpeningIsAlone'
  BY DEF OpeningIsAlone, Followed
<1> QED BY <1>2, <1>3

(* The worker begins to download an index.                                 *)
LEMMA FetchIsAlone ==
  ASSUME SearchInv, FilesInv, NEW i \in Indexes, Current' = i, BeginFetch(i),
         i = "kicad" => index[i] = 0,
         UNCHANGED <<clients, seen, holder, strays, index>>, NoThread("kicad") => NoThread("kicad")'
  PROVE  FilesInv'
<1> USE FileTypes DEF FilesInv
<1>1. worker' = "fetch" /\ doubtful \subseteq doubtful' /\ (i = "registry" => ~Followed(i)')
  BY DEF BeginFetch, Followed
<1>2. \A j \in Indexes : Rising(j)'
  BY <1>1, RisingStays DEF IndexesRise
<1>3. IndexesRise'
  BY <1>1, <1>2 DEF IndexesRise
<1>4. i = "kicad" => clients["kicad"] = 0
  BY DEF IndexesRise, Rising
<1>5. OpeningIsAlone'
  BY <1>1, <1>4 DEF OpeningIsAlone, Followed
<1> QED BY <1>3, <1>5

LEMMA StartFiles == ASSUME SearchInv, FilesInv, Start PROVE FilesInv'
<1>1. worker = "start" /\ job = None /\ UNCHANGED <<job, stamp, holder, strays, index>>
  BY DEF Start, SearchInv, WorkerIsSound
<1>2. boot \in Seq(Indexes)
  BY DEF SearchInv, SearcherTypes
<1> USE FileTypes DEF FilesInv
<1> DEFINE i == Head(boot)
<1>3. boot # <<>> => i \in Indexes
  BY <1>2
<1>4. CASE boot = <<>>
  <2>1. worker' = "idle" /\ UNCHANGED <<clients, seen, updates, doubtful>>
    BY <1>4 DEF Start
  <2> QED BY <1>1, <2>1, NothingInHand DEF OpeningIsAlone, NoThread
<1>5. CASE boot # <<>> /\ index[i] = 0 /\ BeginFetch(i) /\ UNCHANGED <<boot, clients, seen, updates>>
  <2>1. Current' = i
    BY <1>1, <1>5 DEF Current
  <2> HIDE DEF i
  <2> QED BY <1>1, <1>3, <1>5, <2>1, FetchIsAlone DEF NoThread
<1>6. CASE /\ boot # <<>> /\ index[i] # 0
           /\ clients' = [clients EXCEPT ![i] = index[i]] /\ seen' = [seen EXCEPT ![i] = index[i]]
           /\ updates' = updates \cup {Thread(i, FALSE)} /\ UNCHANGED <<worker, doubtful>>
  <2> HIDE DEF i
  <2>1. Thread(i, FALSE).of = i
    BY DEF Thread
  <2>2. ASSUME NEW j \in Indexes PROVE Rising(j)'
    <3>1. CASE j = i
      <4>1. clients'[j] = index'[j] /\ seen'[j] = index'[j] /\ index'[j] \in Nat
        BY <1>1, <1>3, <1>6, <3>1
      <4> QED BY <1>6, <3>1, <4>1 DEF Rising
    <3>2. CASE j # i
      BY <1>1, <1>3, <1>6, <3>2, RisingStays DEF IndexesRise
    <3> QED BY <3>1, <3>2
  <2>3. IndexesRise'
    BY <1>1, <1>6, <2>2 DEF IndexesRise
  <2>4. OpeningIsAlone'
    BY <1>1, <1>3, <1>6, <2>1 DEF OpeningIsAlone, NoThread, Followed
  <2> QED BY <2>3, <2>4
<1>7. CASE boot # <<>> /\ doubtful \subseteq doubtful' /\ UNCHANGED <<worker, clients, seen, updates>>
  BY <1>1, <1>7, NothingInHand DEF OpeningIsAlone, NoThread
<1> QED BY <1>4, <1>5, <1>6, <1>7 DEF Start

LEMMA TakeFiles == ASSUME SearchInv, FilesInv, Take PROVE FilesInv'
<1>1. /\ worker = "idle" /\ query # None /\ UNCHANGED <<boot, clients, seen, threads, files>>
      /\ \/ /\ IsLocal(query.mode) /\ worker' = "open" /\ job' = query
            /\ stamp' = index[IndexOf[query.mode]]
         \/ UNCHANGED <<worker, job, stamp>>
  BY DEF Take
<1>2. query \in Query /\ query.mode \in ModeSet
  BY <1>1, Shapes DEF SearchInv, SearcherTypes
<1>3. worker' = "open" => stamp' = index[Current'] /\ Current' \in Indexes
  BY <1>1, <1>2, Settings DEF Current
<1>4. IndexesRise'
  BY <1>1, <1>3, FileTypes DEF FilesInv, IndexesRise, Rising, Followed, files
<1>5. OpeningIsAlone'
  BY <1>1 DEF FilesInv, OpeningIsAlone, NoThread, Followed, threads, files
<1> QED BY <1>4, <1>5 DEF FilesInv

(* What the worker does when a query needs an index that it has opened     *)
(* before, or the registry.                                                *)
Reopens(i) ==
  /\ clients' = [clients EXCEPT ![i] = index[i]] /\ seen' = [seen EXCEPT ![i] = stamp]
  /\ MustReopen(i) /\ worker' = "search" /\ UNCHANGED <<doubtful, news>>
KeepsOpen(i) ==
  /\ UNCHANGED <<clients, seen, news>> /\ clients[i] # 0 /\ worker' = "search"
  /\ doubtful' = doubtful \cup {i} \/ (doubtful' = doubtful /\ ~MustReopen(i))
MustFetch(i) ==
  UNCHANGED <<clients, seen>> /\ clients[i] = 0 /\ i # "kicad" /\ BeginFetch(i)

LEMMA OpenDoes ==
  ASSUME SearchInv, FilesInv, OpenIndex, NEW i, i = Current
  PROVE  /\ worker = "open" /\ job # None /\ i \in Indexes /\ i = IndexOf[job.mode] /\ Current' = i
         /\ stamp \in Nat /\ stamp <= index[i] /\ clients[i] <= index[i]
         /\ UNCHANGED <<ui, query, answer, job, boot, holder, strays, index>>
         /\ updates' = (IF job.force THEN updates \cup {Thread(i, TRUE)} ELSE updates)
         /\ Reopens(i) \/ KeepsOpen(i) \/ MustFetch(i)
<1>1. worker = "open" /\ job # None
  BY DEF OpenIndex, SearchInv, WorkerIsSound
<1>2. i \in Indexes /\ i = IndexOf[job.mode]
  BY <1>1, JobIsLocal
<1> USE FileTypes
<1>3. stamp <= index[i] /\ clients[i] <= index[i]
  BY <1>1, <1>2 DEF FilesInv, IndexesRise, Rising
<1>4. PICK failed \in BOOLEAN :
        /\ clients' = [clients EXCEPT ![i] = IF MustReopen(i) /\ ~failed THEN index[i] ELSE @]
        /\ seen' = [seen EXCEPT ![i] = IF MustReopen(i) /\ ~failed THEN stamp ELSE @]
        /\ updates' = (IF job.force THEN updates \cup {Thread(i, TRUE)} ELSE updates)
        /\ IF clients'[i] = 0 THEN BeginFetch(i)
           ELSE /\ worker' = "search"
                /\ doubtful' = (IF failed THEN doubtful \cup {i} ELSE doubtful)
                /\ UNCHANGED news
  BY DEF OpenIndex
<1>5. Ready(i) /\ UNCHANGED <<ui, query, answer, job, boot, holder, strays, index>> /\ Current' = i
  BY <1>1 DEF OpenIndex, Current
<1>6. CASE MustReopen(i) /\ ~failed
  <2>1. clients' = [clients EXCEPT ![i] = index[i]] /\ seen' = [seen EXCEPT ![i] = stamp]
    BY <1>4, <1>6
  <2>2. clients'[i] = index[i] /\ index[i] # 0
    BY <1>2, <1>3, <1>6, <2>1 DEF MustReopen
  <2>3. Reopens(i)
    BY <1>4, <1>6, <2>1, <2>2 DEF Reopens
  <2> QED BY <1>1, <1>2, <1>3, <1>4, <1>5, <2>3
<1>7. CASE ~(MustReopen(i) /\ ~failed)
  <2>1. clients' = clients /\ seen' = seen
    BY <1>2, <1>4, <1>7
  <2>2. CASE clients[i] = 0
    BY <1>1, <1>2, <1>3, <1>4, <1>5, <2>1, <2>2 DEF MustFetch, Ready
  <2>3. CASE clients[i] # 0
    <3>1. KeepsOpen(i)
      BY <1>4, <1>7, <2>1, <2>3 DEF KeepsOpen
    <3> QED BY <1>1, <1>2, <1>3, <1>4, <1>5, <3>1
  <2> QED BY <2>2, <2>3
<1> QED BY <1>6, <1>7

LEMMA OpenFiles == ASSUME SearchInv, FilesInv, Forced(job), OpenIndex PROVE FilesInv'
<1>0. PICK i : i = Current
  OBVIOUS
<1>1. /\ worker = "open" /\ job # None /\ i \in Indexes /\ i = IndexOf[job.mode] /\ Current' = i
      /\ stamp \in Nat /\ stamp <= index[i] /\ clients[i] <= index[i]
      /\ UNCHANGED <<ui, query, answer, job, boot, holder, strays, index>>
      /\ updates' = (IF job.force THEN updates \cup {Thread(i, TRUE)} ELSE updates)
      /\ Reopens(i) \/ KeepsOpen(i) \/ MustFetch(i)
  BY <1>0, OpenDoes
<1> USE FileTypes DEF FilesInv
<1>2. NoThread("kicad") => NoThread("kicad")'
  <2>1. job.force => Thread(i, TRUE).of # "kicad"
    BY <1>1 DEF Forced, Thread
  <2> QED BY <1>1, <2>1 DEF NoThread
<1>3. CASE Reopens(i)
  <2>1. /\ clients' = [clients EXCEPT ![i] = index[i]] /\ seen' = [seen EXCEPT ![i] = stamp]
        /\ MustReopen(i) /\ worker' = "search" /\ doubtful' = doubtful
    BY <1>3 DEF Reopens
  <2>2. stamp # 0 /\ index[i] # 0
    BY <1>1, <2>1 DEF MustReopen
  <2>3. ASSUME NEW j \in Indexes PROVE Rising(j)'
    <3>1. CASE j = i
      <4>1. clients'[j] = index[i] /\ seen'[j] = stamp /\ index'[j] = index[i]
        BY <1>1, <2>1, <3>1
      <4> QED BY <1>1, <2>2, <4>1 DEF Rising
    <3>2. CASE j # i
      BY <1>1, <2>1, <3>2, RisingStays DEF IndexesRise
    <3> QED BY <3>1, <3>2
  <2>4. IndexesRise'
    BY <2>1, <2>3 DEF IndexesRise
  <2>5. "kicad" \in Indexes /\ clients'["kicad"] = 0 => clients["kicad"] = 0
    BY <1>1, <2>1, <2>2
  <2>6. OpeningIsAlone'
    BY <1>1, <1>2, <2>1, <2>5 DEF OpeningIsAlone, Followed
  <2> QED BY <2>4, <2>6
<1>4. CASE KeepsOpen(i)
  <2>1. /\ UNCHANGED <<clients, seen>> /\ worker' = "search" /\ doubtful \subseteq doubtful'
    BY <1>4 DEF KeepsOpen
  <2>2. IndexesRise'
    BY <1>1, <2>1, RisingStays DEF IndexesRise
  <2>3. OpeningIsAlone'
    BY <1>1, <1>2, <2>1 DEF OpeningIsAlone, Followed
  <2> QED BY <2>2, <2>3
<1>5. CASE MustFetch(i)
  BY <1>1, <1>2, <1>5, FetchIsAlone DEF MustFetch
<1> QED BY <1>1, <1>3, <1>4, <1>5

LEMMA OpenKicadFiles == ASSUME SearchInv, FilesInv, OpenKicad PROVE FilesInv'
<1>0. PICK i : i = Current
  OBVIOUS
<1>1. /\ worker = "open" /\ i = "kicad" /\ clients[i] = 0 /\ i \in Indexes
      /\ UNCHANGED <<seen, threads, index>>
      /\ \/ index[i] = 0 /\ BeginFetch(i) /\ UNCHANGED <<clients, boot, job>>
         \/ /\ index[i] # 0 /\ clients' = [clients EXCEPT ![i] = index[i]]
            /\ worker' = "stat" /\ UNCHANGED <<boot, job, doubtful>>
         \/ doubtful' = doubtful \cup {i} /\ GivesUp /\ UNCHANGED clients
  BY <1>0, CurrentIsIndex DEF OpenKicad, Ready, SearchInv
<1> USE FileTypes DEF FilesInv
<1>2. NoThread("kicad") /\ NoThread("kicad")'
  BY <1>1 DEF OpeningIsAlone, NoThread, threads
<1>3. CASE index[i] = 0 /\ BeginFetch(i) /\ UNCHANGED <<clients, boot, job>>
  <2>1. Current' = i
    BY <1>0, <1>3 DEF Current
  <2> QED BY <1>1, <1>2, <1>3, <2>1, FetchIsAlone DEF threads
<1>4. CASE /\ index[i] # 0 /\ clients' = [clients EXCEPT ![i] = index[i]]
           /\ worker' = "stat" /\ UNCHANGED <<boot, job, doubtful>>
  <2>1. Current' = i /\ clients'[i] = index[i]
    BY <1>0, <1>1, <1>4 DEF Current
  <2>2. ASSUME NEW j \in Indexes PROVE Rising(j)'
    <3>1. CASE j = i
      <4>1. Rising(i)
        BY <1>1 DEF IndexesRise
      <4> QED BY <1>1, <1>4, <2>1, <3>1, <4>1 DEF Rising
    <3>2. CASE j # i
      BY <1>1, <1>4, <3>2, RisingStays DEF IndexesRise
    <3> QED BY <3>1, <3>2
  <2>3. IndexesRise'
    BY <1>4, <2>2 DEF IndexesRise
  <2>4. OpeningIsAlone'
    BY <1>1, <1>2, <1>4, <2>1 DEF OpeningIsAlone, Followed, threads
  <2> QED BY <2>3, <2>4
<1>5. CASE doubtful' = doubtful \cup {i} /\ GivesUp /\ UNCHANGED clients
  <2>1. worker' \in {"start", "idle"}
    BY <1>5 DEF GivesUp
  <2> QED BY <1>1, <1>2, <1>5, <2>1, NothingInHand DEF threads
<1> QED BY <1>1, <1>3, <1>4, <1>5

(* An index that is downloaded is newer afterwards, or was not replaced.   *)
LEMMA FetchFiles == ASSUME SearchInv, FilesInv, Fetch PROVE FilesInv'
<1>0. PICK i : i = Current
  OBVIOUS
<1>1. PICK v \in ({index[i]} \ {0}) \cup {index[i] + 1} :
        /\ worker = "fetch" /\ i \in Indexes /\ UNCHANGED <<seen, threads>>
        /\ index' = [index EXCEPT ![i] = v]
        /\ \/ /\ clients' = [clients EXCEPT ![i] = v] /\ worker' = "stat"
              /\ UNCHANGED <<boot, job, doubtful>>
           \/ doubtful' = doubtful \cup {i} /\ GivesUp /\ UNCHANGED clients
  BY <1>0, CurrentIsIndex DEF Fetch, SearchInv
<1> USE FileTypes DEF FilesInv
<1>2. v \in Nat /\ v # 0 /\ index[i] <= v
  BY <1>1
<1>3. /\ i = "kicad" \/ ~Followed(i)
      /\ i = "kicad" => NoThread("kicad") /\ NoThread("kicad")'
  BY <1>0, <1>1 DEF OpeningIsAlone, NoThread, threads
<1>4. index' \in [Indexes -> Nat] /\ \A j \in Indexes : index[j] <= index'[j]
  BY <1>1, <1>2
<1>5. "kicad" \in Indexes /\ clients["kicad"] = 0 => NoThread("kicad")'
  BY <1>1 DEF OpeningIsAlone, NoThread, threads
<1>6. CASE /\ clients' = [clients EXCEPT ![i] = v] /\ worker' = "stat"
           /\ UNCHANGED <<boot, job, doubtful>>
  <2>1. Current' = i /\ clients'[i] = v /\ index'[i] = v
    BY <1>0, <1>1, <1>6 DEF Current
  <2>2. ASSUME NEW j \in Indexes PROVE Rising(j)'
    <3>1. CASE j = i
      <4>1. Rising(i)
        BY <1>1 DEF IndexesRise
      <4>2. Followed(i) => seen[i] <= v
        BY <1>1, <1>2, <4>1 DEF Rising
      <4> QED BY <1>1, <1>2, <1>6, <2>1, <3>1, <4>2 DEF Rising, Followed
    <3>2. CASE j # i
      BY <1>1, <1>4, <1>6, <3>2, RisingStays DEF IndexesRise
    <3> QED BY <3>1, <3>2
  <2>3. IndexesRise'
    BY <1>6, <2>2 DEF IndexesRise
  <2>4. "kicad" \in Indexes /\ clients'["kicad"] = 0 => clients["kicad"] = 0
    BY <1>1, <1>2, <1>6
  <2>5. OpeningIsAlone'
    BY <1>1, <1>3, <1>5, <1>6, <2>1, <2>4 DEF OpeningIsAlone, Followed, threads
  <2> QED BY <2>3, <2>5
<1>7. CASE doubtful' = doubtful \cup {i} /\ GivesUp /\ UNCHANGED clients
  <2>1. worker' \in {"start", "idle"}
    BY <1>7 DEF GivesUp
  <2> QED BY <1>1, <1>4, <1>5, <1>7, <2>1, NothingInHand DEF threads
<1> QED BY <1>1, <1>6, <1>7

LEMMA FetchFailsFiles == ASSUME SearchInv, FilesInv, FetchFails PROVE FilesInv'
<1>0. PICK i : i = Current
  OBVIOUS
<1>1. /\ worker = "fetch" /\ i \in Indexes /\ GivesUp /\ UNCHANGED <<clients, seen, updates, holder>>
      /\ \E v \in {index[i], IF index[i] = 0 THEN 0 ELSE index[i] + 1} \cup (IF i = "kicad" THEN {0, 1} ELSE {}) :
           index' = [index EXCEPT ![i] = v]
      /\ doubtful' \in {doubtful, doubtful \cup {i}}
      /\ strays' = strays \/ \E others \in 0..(Files[i] - 1) : strays' = strays + others
  BY <1>0, CurrentIsIndex DEF FetchFails, SearchInv
<1> USE FileTypes DEF FilesInv
<1>2. worker' \in {"start", "idle"}
  BY <1>1 DEF GivesUp
<1>3. (i = "kicad" => index[i] = 0) /\ (i = "kicad" \/ ~Followed(i))
  BY <1>0, <1>1 DEF OpeningIsAlone
<1>4. index' \in [Indexes -> Nat] /\ \A j \in Indexes : index[j] <= index'[j]
  <2>1. PICK v \in {index[i], IF index[i] = 0 THEN 0 ELSE index[i] + 1} \cup (IF i = "kicad" THEN {0, 1} ELSE {}) :
          index' = [index EXCEPT ![i] = v]
    BY <1>1
  <2>2. v \in Nat /\ index[i] <= v
    BY <1>1, <1>3, <2>1
  <2> QED BY <1>1, <2>1, <2>2
<1>5. strays' > 0 => strays > 0 \/ ~Followed("registry")'
  <2>1. CASE i = "kicad"
    <3>1. Files[i] = 1
      BY <1>1, <2>1, Settings
    <3>2. strays' = strays
      BY <1>1, <3>1
    <3> QED BY <3>2
  <2>2. CASE i # "kicad"
    BY <1>1, <1>3, <2>2 DEF Followed
  <2> QED BY <2>1, <2>2
<1>6. "kicad" \in Indexes /\ clients["kicad"] = 0 => NoThread("kicad")'
  BY <1>1 DEF OpeningIsAlone, NoThread
<1> QED BY <1>1, <1>2, <1>4, <1>5, <1>6, NothingInHand

LEMMA StatFiles == ASSUME SearchInv, FilesInv, Stat PROVE FilesInv'
<1>0. PICK i : i = Current
  OBVIOUS
<1>1. /\ worker = "stat" /\ seen' = [seen EXCEPT ![i] = index[i]] /\ worker' \in {"start", "search"}
      /\ updates' \in {updates, updates \cup {Thread(i, FALSE)}}
      /\ UNCHANGED <<job, stamp, clients, holder, strays, index, doubtful>>
  BY <1>0 DEF Stat, AfterOpening, files, Checked
<1>2. i \in Indexes /\ clients[i] # 0
  BY <1>0, <1>1, CurrentIsIndex DEF SearchInv, WorkerIsSound
<1> USE FileTypes DEF FilesInv
<1>3. Followed(i) => clients[i] = index[i]
  BY <1>0, <1>1 DEF OpeningIsAlone
<1>4. ASSUME NEW j \in Indexes PROVE Rising(j)'
  <2>1. CASE j = i
    <3>1. seen'[j] = index[j] /\ Rising(j)
      BY <1>1, <1>2, <2>1 DEF IndexesRise
    <3> QED BY <1>1, <1>2, <1>3, <2>1, <3>1 DEF Rising, Followed
  <2>2. CASE j # i
    BY <1>1, <1>2, <2>2, RisingStays DEF IndexesRise
  <2> QED BY <2>1, <2>2
<1>5. IndexesRise'
  BY <1>1, <1>4 DEF IndexesRise
<1>6. Thread(i, FALSE).of = i
  BY DEF Thread
<1>7. OpeningIsAlone'
  BY <1>1, <1>2, <1>6 DEF OpeningIsAlone, NoThread, Followed
<1> QED BY <1>5, <1>7

LEMMA SearchFiles == ASSUME FilesInv, Search PROVE FilesInv'
BY DEF Search, FilesInv, IndexesRise, Rising, OpeningIsAlone, Followed, NoThread, threads, files

(* The threads replace files; the worker has in hand what it had.          *)
LEMMA ReplacedFiles ==
  ASSUME SearchInv, FilesInv, UNCHANGED searcher, doubtful \subseteq doubtful',
         index' \in [Indexes -> Nat], \A j \in Indexes : index[j] <= index'[j],
         NoThread("kicad") => /\ NoThread("kicad")'
                              /\ "kicad" \in Indexes => index'["kicad"] = index["kicad"],
         strays' > 0 => ~Followed("registry")'
  PROVE  FilesInv'
<1>1. Current' = Current /\ UNCHANGED <<worker, stamp, clients, seen>>
  BY DEF Current, searcher
<1>2. worker \in {"open", "fetch", "stat"} => Current \in Indexes
  BY CurrentIsIndex DEF SearchInv
<1> USE FileTypes DEF FilesInv
<1>3. IndexesRise'
  <2>1. \A j \in Indexes : Rising(j)'
    BY <1>1, RisingStays DEF IndexesRise
  <2> QED BY <1>1, <1>2, <2>1 DEF IndexesRise
<1>4. OpeningIsAlone'
  BY <1>1, <1>2 DEF OpeningIsAlone, Followed
<1> QED BY <1>3, <1>4

LEMMA UpdateFiles == ASSUME SearchInv, FilesInv, UpdateThreads PROVE FilesInv'
<1> USE FileTypes
<1>1. strays > 0 => ~Followed("registry")
  BY DEF FilesInv, OpeningIsAlone
<1>2. ASSUME NEW u \in updates, UpdateBegins(u) PROVE FilesInv'
  <2>1. /\ holder = None /\ updates' = updates \ {u} /\ UNCHANGED <<searcher, strays, files>>
        /\ holder' = [u EXCEPT !.left = Files[u.of]] \/ holder' = holder
    BY <1>2 DEF UpdateBegins
  <2>2. [u EXCEPT !.left = Files[u.of]].of = u.of
    <3>1. u \in Update
      OBVIOUS
    <3> QED BY <3>1 DEF Update
  <2>3. NoThread("kicad") => NoThread("kicad")'
    BY <2>1, <2>2 DEF NoThread
  <2> QED BY <1>1, <2>1, <2>3, ReplacedFiles DEF files, Followed
<1>3. CASE FileEnds
  <2>1. /\ holder # None /\ UNCHANGED <<searcher, updates, strays, doubtful>>
        /\ holder'.of = holder.of
        /\ \/ UNCHANGED index
           \/ \E v \in Replaced(holder.of, holder.left = 1) : index' = [index EXCEPT ![holder.of] = v]
    <3>1. holder # None /\ holder \in Update
      BY <1>3 DEF FileEnds
    <3>2. /\ [holder EXCEPT !.left = @ - 1, !.changed = TRUE].of = holder.of
          /\ [holder EXCEPT !.left = @ - 1].of = holder.of
      BY <3>1 DEF Update
    <3> QED BY <1>3, <3>1, <3>2 DEF FileEnds
  <2>2. index' \in [Indexes -> Nat] /\ \A j \in Indexes : index[j] <= index'[j]
    BY <2>1 DEF Replaced
  <2>3. NoThread("kicad") => NoThread("kicad")' /\ ("kicad" \in Indexes => index'["kicad"] = index["kicad"])
    BY <2>1 DEF NoThread
  <2> QED BY <1>1, <2>1, <2>2, <2>3, ReplacedFiles DEF Followed
<1>4. CASE UpdateEnds
  <2>1. holder' = None /\ UNCHANGED <<searcher, updates, strays, files>>
    BY <1>4 DEF UpdateEnds
  <2>2. NoThread("kicad") => NoThread("kicad")'
    BY <2>1 DEF NoThread
  <2> QED BY <1>1, <2>1, <2>2, ReplacedFiles DEF files, Followed
<1>5. CASE UpdateFails
  <2>1. /\ holder # None /\ holder.left # 0 /\ holder' = None /\ UNCHANGED <<searcher, updates, index>>
        /\ strays' = strays + (holder.left - 1) /\ doubtful \subseteq doubtful'
        /\ holder.left > 1 => holder.of \in doubtful'
    BY <1>5 DEF UpdateFails
  <2>2. NoThread("kicad") => NoThread("kicad")'
    BY <2>1 DEF NoThread
  <2>3. strays' > 0 => ~Followed("registry")'
    <3>1. strays' > 0 => strays > 0 \/ holder.left > 1
      BY <2>1
    <3>2. holder.left > 1 => holder.of = "registry"
      BY <2>1
    <3> QED BY <1>1, <2>1, <3>1, <3>2 DEF Followed
  <2> QED BY <2>1, <2>2, <2>3, ReplacedFiles
<1>6. CASE StrayEnds
  <2>1. /\ strays > 0 /\ UNCHANGED <<searcher, updates, holder, doubtful>>
        /\ \E v \in {index["registry"]} \cup Replaced("registry", FALSE) :
             index' = [index EXCEPT !["registry"] = v]
    BY <1>6 DEF StrayEnds
  <2>2. "registry" \in Indexes
    BY <1>1, <2>1 DEF Followed
  <2>3. index' \in [Indexes -> Nat] /\ \A j \in Indexes : index[j] <= index'[j]
    BY <2>1, <2>2 DEF Replaced
  <2>4. NoThread("kicad") => NoThread("kicad")' /\ ("kicad" \in Indexes => index'["kicad"] = index["kicad"])
    BY <2>1 DEF NoThread
  <2> QED BY <1>1, <2>1, <2>3, <2>4, ReplacedFiles DEF Followed
<1> QED BY <1>2, <1>3, <1>4, <1>5, <1>6 DEF UpdateThreads

-----------------------------------------------------------------------------
(* The messages: what they find is the index as it is or will be asked     *)
(* for again.                                                              *)

LEMMA MessageTypes ==
  ASSUME SearchInv
  PROVE  /\ counter \in Nat /\ mode \in ModeSet
         /\ query # None => query \in Query /\ query.id \in Nat /\ query.id <= counter
         /\ job # None => job \in Query /\ job.id \in Nat /\ job.id <= counter
         /\ answer # None => answer \in Results /\ answer.id \in Nat /\ answer.id <= counter
         /\ results # None => results \in Results /\ results.id \in Nat
<1>1. /\ query \in Query \cup {None} /\ job \in Query \cup {None}
      /\ answer \in Results \cup {None} /\ results \in Results \cup {None}
      /\ counter \in Nat /\ mode \in ModeSet
  BY DEF SearchInv, UiTypes, SearcherTypes
<1>2. /\ query # None => query.id <= counter
      /\ job # None => job.id <= counter
      /\ answer # None => answer.id <= counter
  BY DEF SearchInv, NumbersFit, Numbered
<1> QED BY <1>1, <1>2, Shapes

(* A question with a new number makes all that came before it old.         *)
LEMMA AskedKeeps ==
  ASSUME SearchInv, MessagesInv,
         counter' = counter + 1, query' # None, query'.id = counter + 1, query'.mode = mode',
         query'.force => IndexOf[query'.mode] = "registry",
         job' = job, answer' = answer, UNCHANGED files,
         results' = None \/ (results' = results /\ mode' = mode)
  PROVE  MessagesInv'
<1> USE MessageTypes DEF MessagesInv, files
<1>1. MessagesInOrder'
  BY DEF MessagesInOrder, Forced, Found, Before
<1>2. NothingWithoutIndex'
  BY DEF NothingWithoutIndex, OfMode
<1>3. Found(results)
  BY DEF MessagesInOrder
<1>4. JobInTime' /\ HitsInTime'
  <2>1. results' # None => results'.id < counter'
    BY <1>3 DEF Found
  <2>2. (job' # None => job'.id < counter') /\ (answer' # None => answer'.id < counter')
    OBVIOUS
  <2> QED BY <2>1, <2>2 DEF JobInTime, HitsInTime, UpToDate
<1>5. LastIsComing'
  BY DEF LastIsComing, Last
<1> QED BY <1>1, <1>2, <1>4, <1>5

LEMMA QuietKeeps ==
  ASSUME SearchInv, MessagesInv, UNCHANGED <<counter, query, answer, searcher, threads, files>>,
         results' = None \/ results' = results,
         \A i : Told(i) => Told(i)',
         lastQuery' = Empty \/ (lastQuery' = lastQuery /\ mode' = mode),
         mode' = mode \/ (results' = None /\ ~(IsLocal(mode') /\ index[IndexOf[mode']] = 0))
  PROVE  MessagesInv'
<1> USE MessageTypes DEF MessagesInv, searcher, threads, files
<1>1. MessagesInOrder'
  BY DEF MessagesInOrder, Forced, Found, Before
<1>2. NothingWithoutIndex'
  BY DEF NothingWithoutIndex, OfMode, IsLocal
<1>3. /\ Current' = Current /\ \A i : Followed(i)' <=> Followed(i)
      /\ \A i : Due(i) => Due(i)'
  BY DEF Current, Followed, Due
<1>4. JobInTime' /\ HitsInTime'
  <2>1. JobInTime'
    BY <1>3 DEF JobInTime, UpToDate
  <2>2. HitsInTime'
    BY <1>3 DEF HitsInTime, UpToDate
  <2> QED BY <2>1, <2>2
<1>5. LastIsComing'
  BY <1>3 DEF LastIsComing, Last, HasItems, IsLocal
<1> QED BY <1>1, <1>2, <1>4, <1>5

LEMMA ToldOfHead ==
  ASSUME news \in Seq(News), news # <<>>, news' = Tail(news), NEW i, ~IsTold(Head(news), i), Told(i)
  PROVE  Told(i)'
<1>1. PICK k \in 1..Len(news) : IsTold(news[k], i)
  BY DEF Told
<1>2. Len(news) \in Nat /\ Len(Tail(news)) = Len(news) - 1 /\ Head(news) = news[1]
  OBVIOUS
<1>3. k # 1
  BY <1>1, <1>2
<1>4. k - 1 \in 1..Len(Tail(news)) /\ Tail(news)[k - 1] = news[k]
  BY <1>2, <1>3
<1> QED BY <1>1, <1>4 DEF Told

LEMMA ToldStays ==
  ASSUME news \in Seq(News), NEW s \in Seq(News), news' = news \o s
  PROVE  /\ \A i : Told(i) => Told(i)'
         /\ \A i : (\E k \in 1..Len(s) : IsTold(s[k], i)) => Told(i)'
<1>1. Len(news) \in Nat /\ Len(s) \in Nat /\ Len(news') = Len(news) + Len(s)
  OBVIOUS
<1>2. /\ \A k \in 1..Len(news) : news'[k] = news[k]
      /\ \A k \in 1..Len(s) : news'[Len(news) + k] = s[k]
  BY <1>1
<1>3. ASSUME NEW i, Told(i) PROVE Told(i)'
  <2>1. PICK k \in 1..Len(news) : IsTold(news[k], i)
    BY <1>3 DEF Told
  <2>2. k \in 1..Len(news') /\ news'[k] = news[k]
    BY <1>1, <1>2
  <2> QED BY <2>1, <2>2 DEF Told
<1>4. ASSUME NEW i, NEW k \in 1..Len(s), IsTold(s[k], i) PROVE Told(i)'
  <2>1. Len(news) + k \in 1..Len(news') /\ news'[Len(news) + k] = s[k]
    BY <1>1, <1>2
  <2> QED BY <1>4, <2>1 DEF Told
<1> QED BY <1>3, <1>4

(* One more message, or none.                                              *)
LEMMA ToldAtEnd ==
  ASSUME news \in Seq(News), NEW i \in Indexes, NEW d \in BOOLEAN, NEW o \in BOOLEAN, NEW u \in BOOLEAN,
         news' \in {news, news \o Tells(i, d, o, u)}
  PROVE  /\ \A j : Told(j) => Told(j)'
         /\ news' = news \o Tells(i, d, o, u) /\ d /\ o /\ u => Told(i)'
<1>1. CASE news' = news
  <2>1. Len(news) \in Nat /\ Len(news \o Tells(i, d, o, u)) = Len(news) + 1
    BY DEF Tells
  <2> QED BY <1>1, <2>1 DEF Told
<1>2. CASE news' = news \o Tells(i, d, o, u)
  <2> DEFINE n == [of |-> i, done |-> d, ok |-> o, update |-> u]
  <2>1. n \in News /\ Tells(i, d, o, u) = <<n>>
    BY DEF News, Tells
  <2>2. d /\ o /\ u => IsTold(n, i)
    BY DEF IsTold
  <2> HIDE DEF n
  <2>3. <<n>> \in Seq(News) /\ Len(<<n>>) = 1 /\ <<n>>[1] = n
    BY <2>1
  <2>4. news' = news \o <<n>>
    BY <1>2, <2>1
  <2>5. /\ \A j : Told(j) => Told(j)'
        /\ \A j : (\E k \in 1..Len(<<n>>) : IsTold(<<n>>[k], j)) => Told(j)'
    <3> DEFINE s == <<n>>
    <3>1. s \in Seq(News) /\ news' = news \o s
      BY <2>3, <2>4
    <3> HIDE DEF s
    <3>2. /\ \A j : Told(j) => Told(j)'
          /\ \A j : (\E k \in 1..Len(s) : IsTold(s[k], j)) => Told(j)'
      BY <3>1, ToldStays
    <3> QED BY <3>2 DEF s
  <2>6. d /\ o /\ u => \E k \in 1..Len(<<n>>) : IsTold(<<n>>[k], i)
    BY <2>2, <2>3
  <2> QED BY <2>5, <2>6
<1> QED BY <1>1, <1>2

LEMMA InterfaceMessages ==
  ASSUME SearchInv, MessagesInv, User \/ Interface \/ Detail
  PROVE  MessagesInv'
<1> USE Settings
<1>1. CASE New
  <2>1. /\ StartMode(mode, lastQuery)
        /\ UNCHANGED <<mode, results, answer, news, searcher, threads, files>>
    BY <1>1 DEF New
  <2>2. job' = job /\ index' = index /\ \A i : Told(i) => Told(i)'
    BY <2>1 DEF searcher, files, Told
  <2>3. CASE IsLocal(mode) /\ index[IndexOf[mode]] = 0
    BY <2>1, <2>2, <2>3, AskedKeeps, Shapes, MessageTypes DEF StartMode, None
  <2>4. CASE ~(IsLocal(mode) /\ index[IndexOf[mode]] = 0)
    BY <2>1, <2>2, <2>4, QuietKeeps DEF StartMode
  <2> QED BY <2>3, <2>4
<1>2. CASE User
  <2>1. UNCHANGED <<answer, news, searcher, threads, files>>
    BY <1>2 DEF User, Type, Select, CycleMode, ForceUpdate, UserActs
  <2>2. job' = job /\ index' = index /\ \A i : Told(i) => Told(i)'
    BY <2>1 DEF searcher, files, Told
  <2>3. ASSUME NEW t \in Texts, Type(t) PROVE MessagesInv'
    BY <2>1, <2>2, <2>3, QuietKeeps DEF Type
  <2>4. ASSUME NEW at \in Places, Select(at) PROVE MessagesInv'
    BY <2>1, <2>2, <2>4, QuietKeeps DEF Select
  <2>5. CASE CycleMode
    <3>1. mode' = NextMode /\ results' = None /\ StartMode(NextMode, Empty)
      BY <2>5 DEF CycleMode, ClearResults
    <3>2. CASE IsLocal(NextMode) /\ index[IndexOf[NextMode]] = 0
      BY <2>1, <2>2, <3>1, <3>2, AskedKeeps, MessageTypes DEF StartMode, None
    <3>3. CASE ~(IsLocal(NextMode) /\ index[IndexOf[NextMode]] = 0)
      <4>1. lastQuery' = Empty /\ UNCHANGED <<counter, query>>
        BY <3>1, <3>3 DEF StartMode
      <4>2. ~(IsLocal(mode') /\ index[IndexOf[mode']] = 0)
        BY <3>1, <3>3
      <4> QED BY <2>1, <2>2, <3>1, <4>1, <4>2, QuietKeeps
    <3> QED BY <3>2, <3>3
  <2>6. CASE ForceUpdate
    <3>1. Ask(TRUE) /\ IndexOf[mode] = "registry" /\ UNCHANGED <<mode, results>>
      BY <2>6 DEF ForceUpdate
    <3> QED BY <2>1, <2>2, <3>1, AskedKeeps, MessageTypes DEF Ask, None
  <2> QED BY <1>2, <2>3, <2>4, <2>5, <2>6 DEF User
<1>3. CASE Send \/ SendLater
  <2>1. UNCHANGED <<mode, results, answer, news, searcher, threads, files>>
    BY <1>3 DEF Send, SendLater
  <2>2. job' = job /\ index' = index /\ \A i : Told(i) => Told(i)'
    BY <2>1 DEF searcher, files, Told
  <2>3. CASE AskText(text)
    BY <2>1, <2>2, <2>3, AskedKeeps, MessageTypes DEF AskText, None
  <2>4. CASE UNCHANGED <<lastQuery, counter, query>>
    BY <2>1, <2>2, <2>4, QuietKeeps
  <2> QED BY <1>3, <2>3, <2>4 DEF Send, SendLater
<1>4. CASE PollNews
  <2>1. /\ news # <<>> /\ news' = Tail(news)
        /\ UNCHANGED <<mode, results, answer, searcher, threads, files>>
    BY <1>4 DEF PollNews
  <2>2. job' = job /\ index' = index /\ news \in Seq(News)
    BY <2>1 DEF searcher, files, SearchInv, SearcherTypes
  <2> DEFINE n == Head(news)
  <2>3. CASE n.done /\ n.ok /\ n.update
    <3>1. Ask(FALSE)
      BY <1>4, <2>3 DEF PollNews, Requery
    <3> QED BY <2>1, <2>2, <3>1, AskedKeeps, MessageTypes DEF Ask, None
  <2>4. CASE ~(n.done /\ n.ok /\ n.update)
    <3>1. UNCHANGED <<counter, query>> /\ lastQuery' \in {lastQuery, Empty}
      BY <1>4, <2>4 DEF PollNews
    <3>2. \A i : Told(i) => Told(i)'
      BY <2>1, <2>2, <2>4, ToldOfHead DEF IsTold
    <3> QED BY <2>1, <3>1, <3>2, QuietKeeps
  <2> QED BY <2>3, <2>4
<1>5. CASE Poll
  <2>1. /\ answer' = None /\ results' = (IF IsAnswer(answer) THEN answer ELSE results)
        /\ UNCHANGED <<mode, text, lastQuery, counter, query, news, searcher, threads, files>>
    BY <1>5 DEF Poll
  <2>2. /\ job' = job /\ index' = index /\ Current' = Current
        /\ \A i : (Due(i)' <=> Due(i)) /\ (Followed(i)' <=> Followed(i))
    BY <2>1 DEF searcher, threads, files, Told, Due, Current, Followed
  <2>3. IsAnswer(answer) <=> answer # None /\ answer.id = counter
    BY DEF IsAnswer
  <2> USE DEF MessagesInv
  <2>4. MessagesInOrder'
    BY <2>1, <2>2, <2>3 DEF MessagesInOrder, Forced, Found, Before
  <2>5. NothingWithoutIndex'
    BY <2>1, <2>2, <2>3, MessageTypes DEF NothingWithoutIndex, OfMode, IsLocal
  <2>6. JobInTime'
    BY <2>1, <2>2 DEF JobInTime, UpToDate, searcher
  <2>7. HitsInTime'
    <3>1. results' # None => UpToDate(results', results'.version)
      BY <2>1, <2>3 DEF HitsInTime
    <3>2. ASSUME results' # None PROVE UpToDate(results, results.version)'
      <4>1. counter' = counter
        BY <2>1
      <4> QED BY <2>2, <3>1, <3>2, <4>1 DEF UpToDate
    <3> QED BY <2>1, <3>2 DEF HitsInTime
  <2>8. LastIsComing'
    <3>1. answer # None /\ answer.id = counter /\ lastQuery # Empty => answer.mode = mode
      BY DEF SearchInv, NumbersFit, Numbered
    <3> QED BY <2>1, <2>2, <2>3, <3>1 DEF LastIsComing, Last, HasItems, IsLocal
  <2> QED BY <2>4, <2>5, <2>6, <2>7, <2>8
<1>6. CASE Detail
  <2>1. UNCHANGED <<ui, query, answer, news, searcher, threads, files>>
    BY <1>6 DEF Detail
  <2> QED BY <2>1, QuietKeeps DEF ui, Told
<1> QED BY <1>1, <1>2, <1>3, <1>4, <1>5, <1>6 DEF Interface

(* While the worker and the threads work, what was found stays in time: of *)
(* an index that changes it is told, unless it is doubtful from then on,   *)
(* and one that was not there was not searched.                            *)
FilesAreTold ==
  /\ \A i \in Indexes : index[i] # 0 =>
       index'[i] # 0 /\ (Followed(i)' => index'[i] = index[i] \/ Due(i)')
  /\ \A i : Followed(i)' => Followed(i) /\ (Due(i) => Due(i)')
ChangesAreTold == \A i \in Indexes : Followed(i)' => index'[i] = index[i] \/ Due(i)'

LEMMA HitsStay ==
  ASSUME SearchInv, MessagesInv, UNCHANGED <<ui, answer>>, FilesAreTold
  PROVE  HitsInTime' /\ Found(answer)' /\ Found(results)'
<1>1. \A m \in ModeSet : IsLocal(m) => IndexOf[m] \in Indexes
  BY Settings
<1>2. \A r \in {answer, results} : r # None => r.mode \in ModeSet
  BY MessageTypes, Shapes
<1>3. \A r \in {answer, results} :
        r # None => IsLocal(r.mode) /\ index[IndexOf[r.mode]] # 0 /\ IndexOf[r.mode] \in Indexes
  BY <1>1, <1>2 DEF MessagesInv, MessagesInOrder, Found
<1>4. UNCHANGED <<counter, results, answer>>
  BY DEF ui
<1>5. HitsInTime'
  BY <1>3, <1>4 DEF MessagesInv, HitsInTime, UpToDate, FilesAreTold
<1>6. Found(answer)' /\ Found(results)'
  BY <1>3, <1>4 DEF MessagesInv, MessagesInOrder, Found, FilesAreTold
<1> QED BY <1>5, <1>6

LEMMA MessagesStay ==
  ASSUME SearchInv, MessagesInv, UNCHANGED <<ui, query, answer>>, job' = job, FilesAreTold, JobInTime'
  PROVE  MessagesInv'
<1> USE MessageTypes DEF MessagesInv, ui
<1>1. \A m \in ModeSet : IsLocal(m) => IndexOf[m] \in Indexes
  BY Settings
<1>2. MessagesInOrder' /\ HitsInTime'
  BY HitsStay DEF MessagesInOrder, Forced, Before
<1>3. NothingWithoutIndex'
  BY <1>1 DEF NothingWithoutIndex, OfMode, IsLocal, FilesAreTold
<1>4. LastIsComing'
  BY DEF LastIsComing, Last, HasItems, IsLocal, FilesAreTold
<1> QED BY <1>2, <1>3, <1>4

(* A query is dropped whose index cannot be had: either it is not there or *)
(* it is doubtful from then on.                                            *)
LEMMA JobDropped ==
  ASSUME SearchInv, MessagesInv, UNCHANGED <<ui, query, answer>>, job' = None,
         worker' \in {"start", "idle"}, FilesAreTold,
         job # None => index[IndexOf[job.mode]] = 0 \/ IndexOf[job.mode] \in doubtful'
  PROVE  MessagesInv'
<1> USE MessageTypes DEF MessagesInv, ui
<1>1. \A m \in ModeSet : IsLocal(m) => IndexOf[m] \in Indexes
  BY Settings
<1>2. MessagesInOrder' /\ HitsInTime'
  BY HitsStay DEF MessagesInOrder, Forced, Before
<1>3. NothingWithoutIndex'
  BY <1>1 DEF NothingWithoutIndex, OfMode, IsLocal, FilesAreTold
<1>4. JobInTime'
  BY DEF JobInTime
<1>5. Last(job) /\ IsLocal(mode) /\ Followed(IndexOf[mode])' => ~HasItems(results)
  BY DEF Last, NothingWithoutIndex, HasItems, Followed
<1>6. LastIsComing'
  BY <1>5 DEF LastIsComing, Last, HasItems, IsLocal, FilesAreTold
<1> QED BY <1>2, <1>3, <1>4, <1>6

(* Nothing is replaced and what is to be told still is.                    *)
LEMMA NothingReplaced ==
  ASSUME index' = index, holder' = holder, doubtful \subseteq doubtful', \A i : Told(i) => Told(i)'
  PROVE  FilesAreTold
BY DEF FilesAreTold, Followed, Due

LEMMA FetchTells ==
  ASSUME SearchInv, NEW i \in Indexes, BeginFetch(i)
  PROVE  (\A j : Told(j) => Told(j)') /\ doubtful \subseteq doubtful' /\ worker' = "fetch"
<1>1. news \in Seq(News) /\ news' = news \o Tells(i, FALSE, FALSE, FALSE)
  BY DEF SearchInv, SearcherTypes, BeginFetch
<1> QED BY <1>1, ToldAtEnd DEF BeginFetch

LEMMA JoinedNews == \A s, t \in Seq(News) : s \o t \in Seq(News)
OBVIOUS

LEMMA OpenFailedTells ==
  ASSUME SearchInv, NEW i \in Indexes, news' = news \o OpenFailed(i)
  PROVE  \A j : Told(j) => Told(j)'
<1>1. news \in Seq(News)
  BY DEF SearchInv, SearcherTypes
<1>2. OpenFailed(i) \in Seq(News)
  <2>1. [of |-> i, done |-> TRUE, ok |-> FALSE, update |-> FALSE] \in News
    BY DEF News
  <2> QED BY <2>1 DEF OpenFailed, Tells
<1> QED BY <1>1, <1>2, ToldStays

LEMMA StartMessages == ASSUME SearchInv, MessagesInv, Start PROVE MessagesInv'
<1>1. /\ worker' \in {"start", "idle", "fetch"} /\ job' = job
      /\ UNCHANGED <<ui, query, answer, holder, index>>
  BY DEF Start, BeginFetch
<1>2. \/ UNCHANGED <<news, doubtful>>
      \/ boot # <<>> /\ BeginFetch(Head(boot))
      \/ boot # <<>> /\ news' = news \o OpenFailed(Head(boot)) /\ doubtful \subseteq doubtful'
  BY DEF Start
<1>3. boot # <<>> => Head(boot) \in Indexes
  BY DEF SearchInv, SearcherTypes
<1>4. (\A j : Told(j) => Told(j)') /\ doubtful \subseteq doubtful'
  BY <1>2, <1>3, FetchTells, OpenFailedTells DEF Told
<1> QED BY <1>1, <1>4, NothingReplaced, MessagesStay DEF JobInTime

LEMMA TakeMessages == ASSUME SearchInv, MessagesInv, Take PROVE MessagesInv'
<1> USE DEF MessagesInv
<1>1. /\ worker = "idle" /\ query # None /\ query' = None /\ job = None
      /\ UNCHANGED <<ui, answer, news, boot, clients, threads, files>>
      /\ \/ /\ IsLocal(query.mode) /\ worker' = "open" /\ job' = query
            /\ stamp' = index[IndexOf[query.mode]]
         \/ ~IsLocal(query.mode) /\ UNCHANGED <<worker, job, stamp>>
  BY DEF Take, SearchInv, WorkerIsSound
<1>2. /\ UNCHANGED <<counter, mode, lastQuery, results, index>>
      /\ \A i : (Due(i)' <=> Due(i)) /\ (Followed(i)' <=> Followed(i))
  BY <1>1 DEF ui, files, threads, Told, Due, Followed
<1>3. MessagesInOrder'
  BY <1>1, <1>2 DEF MessagesInOrder, Forced, Found, Before
<1>4. NothingWithoutIndex'
  BY <1>1, <1>2 DEF NothingWithoutIndex, OfMode, IsLocal
<1>5. JobInTime'
  BY <1>1, <1>2 DEF JobInTime, UpToDate
<1>6. HitsInTime'
  BY <1>1, <1>2 DEF HitsInTime, UpToDate
<1>7. LastIsComing'
  BY <1>1, <1>2 DEF LastIsComing, Last, HasItems, IsLocal
<1> QED BY <1>3, <1>4, <1>5, <1>6, <1>7

LEMMA OpenMessages == ASSUME SearchInv, FilesInv, MessagesInv, OpenIndex PROVE MessagesInv'
<1>0. PICK i : i = Current
  OBVIOUS
<1>1. /\ worker = "open" /\ job # None /\ i \in Indexes /\ i = IndexOf[job.mode] /\ Current' = i
      /\ stamp \in Nat /\ stamp <= index[i] /\ clients[i] <= index[i]
      /\ UNCHANGED <<ui, query, answer, job, boot, holder, strays, index>>
      /\ Reopens(i) \/ KeepsOpen(i) \/ MustFetch(i)
  BY <1>0, OpenDoes
<1> USE FileTypes
<1>2. (\A j : Told(j) => Told(j)') /\ doubtful \subseteq doubtful'
  BY <1>1, FetchTells DEF Reopens, KeepsOpen, MustFetch, Told
<1>3. FilesAreTold
  BY <1>1, <1>2, NothingReplaced
<1>4. job.id = counter /\ Followed(i) => stamp = index[i] \/ Due(i)
  BY <1>1 DEF MessagesInv, JobInTime, UpToDate
<1>5. worker' = "search" /\ job.id = counter /\ Followed(i)' => clients'[i] = index[i] \/ Due(i)'
  <2>1. Followed(i)' => Followed(i) /\ (Due(i) => Due(i)')
    BY <1>3 DEF FilesAreTold
  <2>2. CASE Reopens(i)
    BY <1>1, <2>2 DEF Reopens
  <2>3. CASE KeepsOpen(i)
    <3> SUFFICES ASSUME Followed(i)', job.id = counter, stamp = index[i]
                 PROVE  clients'[i] = index[i]
      BY <1>4, <2>1
    <3>1. clients' = clients /\ clients[i] # 0 /\ ~MustReopen(i)
      BY <2>3 DEF KeepsOpen, Followed
    <3>2. Rising(i) /\ Followed(i)
      BY <1>1, <2>1 DEF FilesInv, IndexesRise
    <3>3. seen[i] = stamp \/ stamp = 0
      BY <3>1 DEF MustReopen
    <3> QED BY <1>1, <3>1, <3>2, <3>3 DEF Rising
  <2>4. CASE MustFetch(i)
    BY <2>4 DEF MustFetch, BeginFetch
  <2> QED BY <1>1, <2>2, <2>3, <2>4
<1>6. JobInTime'
  <2>1. worker' # "open"
    BY <1>1 DEF Reopens, KeepsOpen, MustFetch, BeginFetch
  <2>2. counter' = counter /\ job' = job
    BY <1>1 DEF ui
  <2> QED BY <1>1, <1>5, <2>1, <2>2 DEF JobInTime, UpToDate
<1> QED BY <1>1, <1>3, <1>6, MessagesStay

LEMMA OpenKicadMessages == ASSUME SearchInv, FilesInv, MessagesInv, OpenKicad PROVE MessagesInv'
<1>0. PICK i : i = Current
  OBVIOUS
<1>1. /\ worker = "open" /\ i \in Indexes /\ UNCHANGED <<ui, query, answer, holder, index>>
      /\ \/ BeginFetch(i) /\ job' = job
         \/ worker' = "stat" /\ UNCHANGED <<job, news, doubtful>>
         \/ /\ news' = news \o OpenFailed(i) /\ doubtful' = doubtful \cup {i} /\ GivesUp
  BY <1>0, CurrentIsIndex DEF OpenKicad, SearchInv, threads
<1>2. job # None /\ i = IndexOf[job.mode]
  <2>1. job # None
    BY <1>1 DEF SearchInv, WorkerIsSound
  <2> QED BY <1>0, <2>1, JobIsLocal
<1>3. (\A j : Told(j) => Told(j)') /\ doubtful \subseteq doubtful'
  BY <1>1, FetchTells, OpenFailedTells DEF Told
<1>4. FilesAreTold
  BY <1>1, <1>3, NothingReplaced
<1>5. CASE worker' \in {"fetch", "stat"} /\ job' = job
  BY <1>1, <1>4, <1>5, MessagesStay DEF JobInTime
<1>6. CASE doubtful' = doubtful \cup {i} /\ GivesUp
  <2>1. job' = None /\ worker' = "idle" /\ i \in doubtful'
    BY <1>2, <1>6 DEF GivesUp
  <2> QED BY <1>1, <1>2, <1>4, <2>1, JobDropped
<1> QED BY <1>1, <1>5, <1>6 DEF BeginFetch

(* When a download fails, its query is of an index that is doubtful from   *)
(* then on, or not there.                                                  *)
LEMMA FetchMessages ==
  ASSUME SearchInv, FilesInv, MessagesInv, Fetch \/ FetchFails
  PROVE  MessagesInv'
<1>0. PICK i : i = Current
  OBVIOUS
<1>1. /\ worker = "fetch" /\ i \in Indexes /\ UNCHANGED <<ui, query, answer, holder>>
      /\ \/ Fetch /\ worker' = "stat" /\ UNCHANGED <<boot, job, doubtful>>
         \/ Fetch /\ GivesUp /\ doubtful' = doubtful \cup {i}
         \/ FetchFails /\ GivesUp /\ doubtful' \in {doubtful, doubtful \cup {i}}
  BY <1>0, CurrentIsIndex DEF Fetch, FetchFails, SearchInv, threads
<1> USE FileTypes
<1>2. /\ i = "kicad" \/ ~Followed(i)
      /\ i = "kicad" => index[i] = 0
      /\ job # None => i = IndexOf[job.mode]
  BY <1>0, <1>1, JobIsLocal DEF FilesInv, OpeningIsAlone
<1>3. /\ \A j \in Indexes : j # i => index'[j] = index[j]
      /\ index[i] # 0 => index'[i] # 0
  <2>1. \E v \in Nat : index' = [index EXCEPT ![i] = v] /\ (index[i] # 0 => v # 0)
    <3>1. index[i] \in Nat /\ index[i] + 1 \in Nat /\ 0 \in Nat /\ 1 \in Nat
      BY <1>1
    <3>2. CASE Fetch
      <4>1. PICK v \in ({index[i]} \ {0}) \cup {index[i] + 1} : index' = [index EXCEPT ![i] = v]
        BY <1>0, <3>2 DEF Fetch
      <4>2. v \in Nat /\ v # 0
        BY <3>1, <4>1
      <4> QED BY <4>1, <4>2
    <3>3. CASE FetchFails
      <4>1. \/ \E v \in {index[i], IF index[i] = 0 THEN 0 ELSE index[i] + 1} :
                 index' = [index EXCEPT ![i] = v]
            \/ i = "kicad" /\ \E v \in {0, 1} : index' = [index EXCEPT ![i] = v]
        BY <1>0, <3>3 DEF FetchFails
      <4> QED BY <1>2, <3>1, <4>1
    <3> QED BY <1>1, <3>2, <3>3
  <2> QED BY <1>1, <2>1
<1>4. \A j : Told(j) => Told(j)'
  <2>1. /\ news \in Seq(News) /\ Reported(i, TRUE) \in Seq(News) /\ Reported(i, FALSE) \in Seq(News)
        /\ Reported(i, TRUE) \o OpenFailed(i) \in Seq(News)
    <3>1. /\ [of |-> i, done |-> TRUE, ok |-> TRUE, update |-> FALSE] \in News
          /\ [of |-> i, done |-> TRUE, ok |-> FALSE, update |-> FALSE] \in News
      BY <1>1 DEF News
    <3>2. Reported(i, TRUE) \in Seq(News) /\ Reported(i, FALSE) \in Seq(News)
      BY <3>1 DEF Reported, Tells
    <3>3. OpenFailed(i) \in Seq(News)
      BY <3>1 DEF OpenFailed, Tells
    <3>4. Reported(i, TRUE) \o OpenFailed(i) \in Seq(News)
      BY <3>2, <3>3, JoinedNews
    <3> QED BY <3>2, <3>4 DEF SearchInv, SearcherTypes
  <2>2. \/ news' = news \o Reported(i, TRUE)
        \/ news' = (news \o Reported(i, TRUE)) \o OpenFailed(i)
        \/ news' = news \o Reported(i, FALSE)
        \/ news' = news
    BY <1>0, <1>1 DEF Fetch, FetchFails
  <2>3. (news \o Reported(i, TRUE)) \o OpenFailed(i) = news \o (Reported(i, TRUE) \o OpenFailed(i))
    BY <2>1 DEF OpenFailed, Reported, Tells
  <2> QED BY <2>1, <2>2, <2>3, ToldStays DEF Told
<1>5. FilesAreTold
  <2>1. doubtful \subseteq doubtful'
    BY <1>1
  <2> QED BY <1>1, <1>2, <1>3, <1>4, <2>1 DEF FilesAreTold, Followed, Due
<1>6. CASE worker' = "stat" /\ job' = job
  BY <1>1, <1>5, <1>6, MessagesStay DEF JobInTime
<1>7. CASE GivesUp
  <2>1. worker' \in {"start", "idle"} /\ job' = None
    BY <1>7 DEF GivesUp
  <2>2. job # None => index[IndexOf[job.mode]] = 0 \/ IndexOf[job.mode] \in doubtful'
    BY <1>1, <1>2 DEF Followed
  <2> QED BY <1>1, <1>5, <2>1, <2>2, JobDropped
<1> QED BY <1>1, <1>6, <1>7

LEMMA StatMessages == ASSUME SearchInv, FilesInv, MessagesInv, Stat PROVE MessagesInv'
<1>0. PICK i : i = Current
  OBVIOUS
<1>1. /\ worker = "stat" /\ UNCHANGED <<ui, query, answer, news, job, clients, holder, index, doubtful>>
      /\ worker' \in {"start", "search"} /\ (worker' = "search" => job # None)
  BY DEF Stat, AfterOpening, files
<1>2. FilesAreTold
  BY <1>1, NothingReplaced DEF Told
<1>3. worker' = "search" => i = IndexOf[job.mode] /\ Current' = i
  BY <1>0, <1>1, JobIsLocal DEF Current
<1>4. Followed(i)' => clients[i] = index[i]
  BY <1>0, <1>1 DEF FilesInv, OpeningIsAlone, Followed
<1>5. JobInTime'
  BY <1>1, <1>3, <1>4 DEF JobInTime, UpToDate
<1> QED BY <1>1, <1>2, <1>5, MessagesStay

LEMMA SearchMessages == ASSUME SearchInv, FilesInv, MessagesInv, Search PROVE MessagesInv'
<1> USE DEF MessagesInv
<1>1. /\ worker = "search" /\ worker' = "idle" /\ job' = None
      /\ answer' = [is |-> "results", id |-> job.id, text |-> job.text, mode |-> job.mode,
                    force |-> job.force, version |-> clients[Current]]
      /\ UNCHANGED <<ui, query, news, threads, files>>
  BY DEF Search
<1>2. /\ UNCHANGED <<counter, mode, lastQuery, results, index>>
      /\ \A i : (Due(i)' <=> Due(i)) /\ (Followed(i)' <=> Followed(i))
  BY <1>1 DEF ui, files, threads, Told, Due, Followed
<1>3. /\ job # None /\ IsLocal(job.mode) /\ Current = IndexOf[job.mode] /\ Current \in Indexes
      /\ clients[Current] # 0
  <2>1. job # None /\ clients[Current] # 0
    BY <1>1 DEF SearchInv, WorkerIsSound
  <2> QED BY <2>1, JobIsLocal
<1>4. index[IndexOf[job.mode]] # 0
  BY <1>3, FileTypes DEF FilesInv, IndexesRise, Rising
<1>5. /\ answer'.id = job.id /\ answer'.mode = job.mode /\ answer'.version = clients[Current]
      /\ answer' # None
  BY <1>1 DEF None
<1>6. MessagesInOrder'
  BY <1>1, <1>2, <1>3, <1>4, <1>5, MessageTypes DEF MessagesInOrder, Forced, Found, Before, IsLocal
<1>7. NothingWithoutIndex'
  BY <1>1, <1>2, <1>3, <1>4, <1>5, MessageTypes DEF NothingWithoutIndex, OfMode, IsLocal
<1>8. JobInTime'
  BY <1>1 DEF JobInTime
<1>9. HitsInTime'
  BY <1>1, <1>2, <1>3, <1>5 DEF HitsInTime, JobInTime, UpToDate
<1>10. LastIsComing'
  <2>1. ~Last(answer)
    BY <1>3, MessageTypes DEF MessagesInOrder, Before, Last
  <2> QED BY <1>1, <1>2, <1>3, <1>5, <2>1 DEF LastIsComing, Last, HasItems, IsLocal
<1> QED BY <1>6, <1>7, <1>8, <1>9, <1>10

LEMMA UpdateMessages == ASSUME SearchInv, FilesInv, MessagesInv, UpdateThreads PROVE MessagesInv'
<1>1. UNCHANGED <<ui, query, answer, searcher>>
  BY DEF UpdateThreads, UpdateBegins, FileEnds, UpdateEnds, UpdateFails, StrayEnds
<1>2. news \in Seq(News)
  BY DEF SearchInv, SearcherTypes
<1> USE FileTypes
<1>3. FilesAreTold /\ ChangesAreTold
  <2> USE DEF ChangesAreTold
  <2>1. ASSUME NEW u \in updates, UpdateBegins(u) PROVE FilesAreTold /\ ChangesAreTold
    <3>1. /\ holder = None /\ UNCHANGED files /\ u \in Update /\ u.of \in Indexes
          /\ news' \in {news, news \o Tells(u.of, FALSE, FALSE, TRUE)}
      BY <2>1 DEF UpdateBegins, Update
    <3>2. \A j : Told(j) => Told(j)'
      BY <1>2, <3>1, ToldAtEnd
    <3> QED BY <3>1, <3>2 DEF FilesAreTold, Due, files, Followed
  <2>2. CASE FileEnds
    <3>1. holder # None /\ holder \in Update
      BY <2>2 DEF FileEnds
    <3>2. /\ [holder EXCEPT !.left = @ - 1, !.changed = TRUE].of = holder.of
          /\ [holder EXCEPT !.left = @ - 1, !.changed = TRUE].changed
          /\ [holder EXCEPT !.left = @ - 1].of = holder.of
          /\ [holder EXCEPT !.left = @ - 1].changed = holder.changed
      BY <3>1 DEF Update
    <3>3. /\ holder' # None /\ holder'.of = holder.of /\ (holder.changed => holder'.changed)
          /\ UNCHANGED <<news, doubtful>>
          /\ \/ UNCHANGED index
             \/ /\ holder'.changed
                /\ \E v \in Replaced(holder.of, holder.left = 1) : index' = [index EXCEPT ![holder.of] = v]
      <4>1. holder' # None
        BY <2>2, <3>1 DEF FileEnds, None, Update
      <4> QED BY <2>2, <3>1, <3>2, <4>1 DEF FileEnds
    <3>4. \A j : Due(j) => Due(j)'
      BY <3>3 DEF Due, Told
    <3>5. \A j \in Indexes : (index[j] # 0 => index'[j] # 0) /\ (index'[j] = index[j] \/ Due(j)')
      BY <3>3 DEF Replaced, Due
    <3> QED BY <3>3, <3>4, <3>5 DEF FilesAreTold, Followed
  <2>3. CASE UpdateEnds
    <3>1. /\ holder # None /\ UNCHANGED files /\ holder.of \in Indexes
          /\ news' = IF holder.changed THEN news \o Tells(holder.of, TRUE, TRUE, TRUE) ELSE news
      BY <2>3 DEF UpdateEnds
    <3>2. (\A j : Told(j) => Told(j)') /\ (holder.changed => \A j : j = holder.of => Told(j)')
      <4>1. PICK i : i = holder.of
        OBVIOUS
      <4>2. CASE holder.changed
        <5>1. news' = news \o Tells(i, TRUE, TRUE, TRUE) /\ i \in Indexes
          BY <3>1, <4>1, <4>2
        <5>2. (\A j : Told(j) => Told(j)') /\ Told(i)'
          BY <1>2, <5>1, ToldAtEnd
        <5> QED BY <4>1, <5>2
      <4>3. CASE ~holder.changed
        BY <3>1, <4>3 DEF Told
      <4> QED BY <4>2, <4>3
    <3> QED BY <3>1, <3>2 DEF FilesAreTold, Due, files, Followed
  <2>4. CASE UpdateFails
    <3>1. /\ holder # None /\ holder.of \in Indexes /\ index' = index
          /\ news' = news \o Tells(holder.of, TRUE, FALSE, TRUE)
          /\ doubtful \subseteq doubtful' /\ (holder.changed => holder.of \in doubtful')
      BY <2>4 DEF UpdateFails
    <3>2. \A j : Told(j) => Told(j)'
      BY <1>2, <3>1, ToldAtEnd
    <3> QED BY <3>1, <3>2 DEF FilesAreTold, Due, Followed
  <2>5. CASE StrayEnds
    <3>1. /\ UNCHANGED <<news, holder, doubtful>> /\ ~Followed("registry")
          /\ \E v \in {index["registry"]} \cup Replaced("registry", FALSE) :
               index' = [index EXCEPT !["registry"] = v]
      BY <2>5 DEF StrayEnds, FilesInv, OpeningIsAlone
    <3>2. \A j \in Indexes : /\ index[j] # 0 => index'[j] # 0
                             /\ j # "registry" => index'[j] = index[j]
      BY <3>1 DEF Replaced
    <3> QED BY <3>1, <3>2 DEF FilesAreTold, Due, Told, Followed
  <2> QED BY <2>1, <2>2, <2>3, <2>4, <2>5 DEF UpdateThreads
<1>4. JobInTime'
  <2>1. worker \in {"open", "search"} =>
          job # None /\ IndexOf[job.mode] \in Indexes /\ Current = IndexOf[job.mode]
    BY JobIsLocal DEF SearchInv, WorkerIsSound
  <2>2. Current' = Current /\ UNCHANGED <<worker, job, stamp, clients, counter>>
    BY <1>1 DEF Current, searcher, ui
  <2> QED BY <1>3, <2>1, <2>2 DEF MessagesInv, JobInTime, UpToDate, FilesAreTold, ChangesAreTold
<1> QED BY <1>1, <1>3, <1>4, MessagesStay DEF searcher

-----------------------------------------------------------------------------
(* What is said of the interface, of the files and of the messages.        *)
CurrentInv == SearchInv /\ FilesInv /\ MessagesInv

LEMMA CurrentInitially == SearchInit => CurrentInv
<1> SUFFICES ASSUME SearchInit PROVE CurrentInv
  OBVIOUS
<1>1. SearchInv
  BY SearchInitInvariant
<1> USE DEF SearchInit
<1>2. IndexesRise
  <2>1. ASSUME NEW i \in Indexes PROVE Rising(i)
    BY <1>1, FileTypes DEF Rising
  <2> QED BY <2>1 DEF IndexesRise
<1>3. OpeningIsAlone
  BY DEF OpeningIsAlone, NoThread
<1>4. MessagesInv
  BY DEF MessagesInv, MessagesInOrder, Forced, Found, Before, NothingWithoutIndex, OfMode,
         JobInTime, HitsInTime, LastIsComing, HasItems
<1> QED BY <1>1, <1>2, <1>3, <1>4 DEF CurrentInv, FilesInv

LEMMA CurrentAlways == CurrentInv /\ [SearchNext]_searchVars => CurrentInv'
<1> SUFFICES ASSUME CurrentInv, [SearchNext]_searchVars PROVE CurrentInv'
  OBVIOUS
<1>1. SearchInv /\ FilesInv /\ MessagesInv /\ SearchInv'
  BY SearchNextInvariant DEF CurrentInv
<1>2. CASE UNCHANGED searchVars
  <2>1. UNCHANGED <<ui, query, answer, news, searcher, threads, files>>
    BY <1>2 DEF searchVars
  <2> QED BY <1>1, <2>1, FilesUntouched, QuietKeeps DEF CurrentInv, ui, Told
<1>3. CASE User \/ Interface \/ Detail
  <2>1. UNCHANGED <<searcher, threads, files>>
    BY <1>3 DEF User, Type, Select, CycleMode, ForceUpdate, UserActs, Interface, New, Send,
       SendLater, PollNews, Poll, Detail
  <2> QED BY <1>1, <1>3, <2>1, FilesUntouched, InterfaceMessages DEF CurrentInv
<1>4. CASE SearchWorker
  <2>1. Forced(job)
    BY <1>1 DEF MessagesInv, MessagesInOrder
  <2>2. FilesInv'
    BY <1>1, <1>4, <2>1, StartFiles, TakeFiles, OpenFiles, OpenKicadFiles, FetchFiles,
       FetchFailsFiles, StatFiles, SearchFiles DEF SearchWorker
  <2>3. MessagesInv'
    BY <1>1, <1>4, StartMessages, TakeMessages, OpenMessages, OpenKicadMessages, FetchMessages,
       StatMessages, SearchMessages DEF SearchWorker
  <2> QED BY <1>1, <2>2, <2>3 DEF CurrentInv
<1>5. CASE UpdateThreads
  BY <1>1, <1>5, UpdateFiles, UpdateMessages DEF CurrentInv
<1> QED BY <1>2, <1>3, <1>4, <1>5 DEF SearchNext

(* When everything on its way has arrived, the hits on the screen are of   *)
(* the index as it is, although its files are replaced one by one under    *)
(* the open connection (registry_index_mtimes, the update branch of        *)
(* poll_download).  Nothing is said of an index one of whose updates has   *)
(* failed half-way, that could not be opened, or whose first opening an    *)
(* update may have raced.                                                  *)
THEOREM HitsAreCurrent == SearchSpec => []ResultsAreCurrent
<1>1. SearchSpec => []CurrentInv
  BY CurrentInitially, CurrentAlways, PTL DEF SearchSpec
<1>2. CurrentInv => ResultsAreCurrent
  <2> SUFFICES ASSUME CurrentInv, Settled, HasItems(results), IndexOf[mode] \notin doubtful
               PROVE  results.version = index[IndexOf[mode]]
    BY DEF ResultsAreCurrent
  <2>1. /\ query = None /\ answer = None /\ news = <<>> /\ worker = "idle" /\ holder = None
        /\ IsLocal(mode) /\ text # Empty /\ text = lastQuery
    BY DEF Settled, MaySend
  <2>2. job = None
    BY <2>1 DEF CurrentInv, SearchInv, WorkerIsSound
  <2>3. Last(results)
    BY <2>1, <2>2 DEF CurrentInv, MessagesInv, LastIsComing, Last, Followed
  <2>4. ~Due(IndexOf[mode])
    BY <2>1 DEF Due, Told
  <2> QED BY <2>3, <2>4 DEF CurrentInv, MessagesInv, HitsInTime, UpToDate, Last, Followed
<1> QED BY <1>1, <1>2, PTL
=============================================================================
