--------------------------- MODULE RouteEditorProofs ---------------------------
(***************************************************************************)
(* What is proved of the waypoint editor, for any documents on disk, any   *)
(* names, any grid and any limit of the history.                           *)
(*                                                                         *)
(* EditorInvariant is inductive.  An edit keeps it when it leaves a route  *)
(* that parses, when the indices of the window still point into it, and    *)
(* when what it replaces went to the history (EditKeeps); the lemmas on    *)
(* the handlers establish that of each of them.  A history shorter than    *)
(* its limit begins with the document on disk.                             *)
(*                                                                         *)
(* What a save writes loads again (SavedRouteLoads): the points in the     *)
(* order of the segments are a permutation of the points, because the      *)
(* names are distinct and the same on both sides (equal cardinalities),    *)
(* they begin at the start, and their tasks are in the order of the        *)
(* mission.                                                                *)
(***************************************************************************)
EXTENDS RouteEditor, SequenceTheorems, FiniteSetTheorems, WellFoundedInduction, TLAPS


-----------------------------------------------------------------------------
(* Naturals and recursion. *)

\* A set of naturals with an element has a least one.
LEMMA MinIsLeast ==
  ASSUME NEW I \in SUBSET Nat, I # {}
  PROVE  Min(I) \in I /\ \A y \in I : Min(I) <= y
<1> DEFINE Below == {pair \in Nat \X Nat : pair[1] < pair[2]}
<1>1. PICK x \in I : \A y \in I : ~ (<<y, x>> \in Below)
  <2>1. IsWellFoundedOn(Below, Nat)
    BY NatLessThanWellFounded DEF OpToRel
  <2> HIDE DEF Below
  <2>2. QED
    BY <2>1, WFMin
<1>2. ASSUME NEW y \in I PROVE x <= y
  <2>1. <<y, x>> \in Nat \X Nat /\ ~ (<<y, x>>[1] < <<y, x>>[2])
    BY <1>1
  <2>2. QED
    BY <2>1
<1>3. QED
  BY <1>1, <1>2 DEF Min

\* Induction over the members of a set.
LEMMA Induction ==
  ASSUME NEW S, 0 \in S, \A n \in Nat : n \in S => n + 1 \in S
  PROVE  \A n \in Nat : n \in S
<1> DEFINE Rest == Nat \ S
<1>1. SUFFICES ASSUME Rest # {} PROVE FALSE
  OBVIOUS
<1>2. Min(Rest) \in Rest /\ \A y \in Rest : Min(Rest) <= y
  BY <1>1, MinIsLeast
<1> DEFINE m == Min(Rest)
<1> HIDE DEF m
<1>3. m \in Nat \ {0} /\ m \notin S
  BY <1>2 DEF m
<1>4. m - 1 \in Nat /\ m - 1 \notin Rest
  BY <1>2, <1>3 DEF m
<1>5. QED
  BY <1>3, <1>4

\* A bounded set of naturals with an element has a greatest one.
LEMMA MaxIsGreatest ==
  ASSUME NEW n \in Nat, NEW I \in SUBSET (1 .. n), I # {}
  PROVE  Max(I) \in I
<1> DEFINE J == {n - i : i \in I}
<1>1. J \in SUBSET Nat /\ J # {}
  <2>1. \A i \in I : i \in 1 .. n /\ n - i \in Nat
    OBVIOUS
  <2>2. PICK i \in I : TRUE
    OBVIOUS
  <2>3. n - i \in J
    OBVIOUS
  <2>4. QED
    BY <2>1, <2>3
<1>2. Min(J) \in J /\ \A y \in J : Min(J) <= y
  BY <1>1, MinIsLeast
<1>3. PICK x \in I : Min(J) = n - x
  BY <1>2
<1>4. ASSUME NEW y \in I PROVE x >= y
  <2>1. n - y \in J /\ x \in 1 .. n /\ y \in 1 .. n
    OBVIOUS
  <2>2. n - x <= n - y
    BY <1>2, <1>3, <2>1
  <2>3. QED
    BY <2>1, <2>2
<1>5. QED
  BY <1>4 DEF Max

(* A function up to n, given by its value before. *)
Recurs(f, n, X, x0, step) ==
  /\ f \in [0 .. n -> X] /\ f[0] = x0
  /\ \A i \in 1 .. n : f[i] = step[<<i, f[i-1]>>]

\* It exists.
LEMMA RecursionExists ==
  ASSUME NEW n \in Nat, NEW X, NEW x0 \in X, NEW step \in [(1 .. n) \X X -> X]
  PROVE  \E f : Recurs(f, n, X, x0, step)
<1> DEFINE Upto(m, f) == /\ f \in [0 .. m -> X] /\ f[0] = x0
                         /\ \A i \in 1 .. m : f[i] = step[<<i, f[i-1]>>]
           Good == {m \in Nat : m <= n => \E f : Upto(m, f)}
<1>1. 0 \in Good
  <2>1. Upto(0, [i \in 0 .. 0 |-> x0])
    OBVIOUS
  <2>2. QED
    BY <2>1
<1>2. ASSUME NEW m \in Nat, m \in Good PROVE m + 1 \in Good
  <2>1. SUFFICES ASSUME m + 1 <= n PROVE \E f : Upto(m + 1, f)
    OBVIOUS
  <2>2. PICK f : Upto(m, f)
    BY <1>2, <2>1
  <2> DEFINE g == [i \in 0 .. m + 1 |-> IF i <= m THEN f[i] ELSE step[<<m + 1, f[m]>>]]
  <2>3. <<m + 1, f[m]>> \in (1 .. n) \X X
    BY <2>1, <2>2
  <2>4. step[<<m + 1, f[m]>>] \in X
    BY <2>3
  <2>5. g \in [0 .. m + 1 -> X] /\ g[0] = x0
    BY <2>2, <2>4
  <2>6. ASSUME NEW i \in 1 .. m + 1 PROVE g[i] = step[<<i, g[i-1]>>]
    <3>1. CASE i <= m
      BY <2>2, <3>1
    <3>2. CASE i = m + 1
      <4>1. g[i] = step[<<m + 1, f[m]>>] /\ g[m] = f[m] /\ i - 1 = m
        BY <3>2
      <4> HIDE DEF g
      <4>2. QED
        BY <3>2, <4>1
    <3>3. QED
      BY <3>1, <3>2
  <2>7. Upto(m + 1, g)
    BY <2>5, <2>6
  <2>8. QED
    BY <2>7
<1> HIDE DEF Good
<1>3. n \in Good
  BY <1>1, <1>2, Induction
<1>4. QED
  BY <1>3 DEF Good, Recurs

-----------------------------------------------------------------------------
(* Sequences. *)

\* A sequence over any set is a sequence of what it holds.
LEMMA SequenceIs ==
  ASSUME NEW S, NEW s \in Seq(S)
  PROVE  /\ IsSequence(s) /\ ToSet(s) \subseteq S /\ Len(s) \in Nat
         /\ DOMAIN s = 1 .. Len(s) /\ \A i \in 1 .. Len(s) : s[i] \in ToSet(s)
<1>1. s \in [1 .. Len(s) -> S] /\ Len(s) \in Nat
  BY LenProperties
<1>2. s \in [1 .. Len(s) -> ToSet(s)] /\ ToSet(s) \subseteq S
  BY <1>1 DEF ToSet
<1>3. s \in Seq(ToSet(s))
  BY <1>1, <1>2
<1>4. QED
  BY <1>1, <1>2, <1>3 DEF IsSequence

\* What it holds is at its places.
LEMMA ElementsAre ==
  ASSUME NEW s, IsSequence(s)
  PROVE  /\ Len(s) \in Nat /\ DOMAIN s = 1 .. Len(s)
         /\ \A i \in 1 .. Len(s) : s[i] \in ToSet(s)
         /\ \A x \in ToSet(s) : \E i \in 1 .. Len(s) : x = s[i]
         /\ s = <<>> <=> Len(s) = 0
<1>1. s \in Seq(ToSet(s))
  BY DEF IsSequence
<1>2. /\ Len(s) \in Nat /\ DOMAIN s = 1 .. Len(s) /\ \A i \in 1 .. Len(s) : s[i] \in ToSet(s)
  BY <1>1, SequenceIs
<1>3. \A x \in ToSet(s) : \E i \in 1 .. Len(s) : x = s[i]
  BY <1>2 DEF ToSet
<1>4. s = <<>> <=> Len(s) = 0
  BY <1>1, EmptySeq
<1>5. QED
  BY <1>2, <1>3, <1>4

\* A function over the places of a sequence is a sequence.
LEMMA MapIsSequence ==
  ASSUME NEW n \in Nat, NEW s, DOMAIN s = 1 .. n, s = [i \in 1 .. n |-> s[i]]
  PROVE  IsSequence(s) /\ Len(s) = n
<1>1. s \in [1 .. n -> ToSet(s)]
  BY DEF ToSet
<1>2. s \in Seq(ToSet(s)) /\ Len(s) = n
  BY <1>1
<1>3. QED
  BY <1>2 DEF IsSequence

\* Two sequences one after the other.
LEMMA ConcatIs ==
  ASSUME NEW s, NEW t, IsSequence(s), IsSequence(t)
  PROVE  /\ IsSequence(s \o t) /\ Len(s \o t) = Len(s) + Len(t)
         /\ ToSet(s \o t) \subseteq ToSet(s) \cup ToSet(t)
         /\ \A i \in 1 .. Len(s) : (s \o t)[i] = s[i]
         /\ \A i \in 1 .. Len(t) : (s \o t)[Len(s) + i] = t[i]
<1> DEFINE S == ToSet(s) \cup ToSet(t)
<1>1. s \in Seq(S) /\ t \in Seq(S)
  <2>1. s \in Seq(ToSet(s)) /\ t \in Seq(ToSet(t)) /\ ToSet(s) \subseteq S /\ ToSet(t) \subseteq S
    BY DEF IsSequence
  <2> HIDE DEF S
  <2>2. QED
    BY <2>1, SeqMonotonic
<1>2. Len(s) \in Nat /\ Len(t) \in Nat
  BY ElementsAre
<1> HIDE DEF S
<1>3. /\ s \o t \in Seq(S) /\ Len(s \o t) = Len(s) + Len(t)
      /\ \A i \in 1 .. Len(s) + Len(t) : (s \o t)[i] =
           IF i <= Len(s) THEN s[i] ELSE t[i - Len(s)]
  BY <1>1, ConcatProperties
<1>4. IsSequence(s \o t) /\ ToSet(s \o t) \subseteq S
  BY <1>3, SequenceIs
<1>5. /\ \A i \in 1 .. Len(s) : (s \o t)[i] = s[i]
      /\ \A i \in 1 .. Len(t) : (s \o t)[Len(s) + i] = t[i]
  BY <1>2, <1>3
<1>6. QED
  BY <1>3, <1>4, <1>5 DEF S

\* A part of a sequence.
LEMMA PartIs ==
  ASSUME NEW s, IsSequence(s), NEW m \in Nat, NEW n \in Nat, 1 <= m, n <= Len(s)
  PROVE  /\ IsSequence(SubSeq(s, m, n)) /\ ToSet(SubSeq(s, m, n)) \subseteq ToSet(s)
         /\ Len(SubSeq(s, m, n)) = IF m <= n THEN n - m + 1 ELSE 0
         /\ \A i \in 1 .. n - m + 1 : SubSeq(s, m, n)[i] = s[m + i - 1]
<1>1. \A i \in m .. n : s[i] \in ToSet(s)
  BY ElementsAre
<1> DEFINE S == ToSet(s)
<1> HIDE DEF S
<1>2. /\ SubSeq(s, m, n) \in Seq(S)
      /\ Len(SubSeq(s, m, n)) = IF m <= n THEN n - m + 1 ELSE 0
      /\ \A i \in 1 .. n - m + 1 : SubSeq(s, m, n)[i] = s[m + i - 1]
  BY <1>1, SubSeqProperties DEF S
<1>3. QED
  BY <1>2, SequenceIs DEF S

\* A single element.
LEMMA SingletonIs ==
  ASSUME NEW e
  PROVE  IsSequence(<<e>>) /\ Len(<<e>>) = 1 /\ ToSet(<<e>>) = {e}
<1> DEFINE s == <<e>>
<1>1. s \in Seq({e}) /\ Len(s) = 1 /\ s[1] = e
  OBVIOUS
<1> HIDE DEF s
<1>2. IsSequence(s) /\ ToSet(s) \subseteq {e} /\ s[1] \in ToSet(s)
  BY <1>1, SequenceIs
<1>3. QED
  BY <1>1, <1>2 DEF s

\* One more element at the end.
LEMMA AppendIs ==
  ASSUME NEW s, IsSequence(s), NEW e
  PROVE  /\ IsSequence(Append(s, e)) /\ Len(Append(s, e)) = Len(s) + 1
         /\ ToSet(Append(s, e)) \subseteq ToSet(s) \cup {e}
         /\ \A i \in 1 .. Len(s) : Append(s, e)[i] = s[i]
         /\ Append(s, e)[Len(s) + 1] = e
<1> DEFINE S == ToSet(s) \cup {e}
<1>1. s \in Seq(S) /\ e \in S
  <2>1. s \in Seq(ToSet(s)) /\ ToSet(s) \subseteq S
    BY DEF IsSequence
  <2>2. s \in Seq(S)
    BY <2>1, SeqMonotonic
  <2>3. QED
    BY <2>2
<1> HIDE DEF S
<1>2. /\ Append(s, e) \in Seq(S) /\ Len(Append(s, e)) = Len(s) + 1
      /\ \A i \in 1 .. Len(s) : Append(s, e)[i] = s[i]
      /\ Append(s, e)[Len(s) + 1] = e
  BY <1>1, AppendProperties
<1>3. IsSequence(Append(s, e)) /\ ToSet(Append(s, e)) \subseteq S
  BY <1>2, SequenceIs
<1>4. QED
  BY <1>2, <1>3 DEF S

\* One element more inside, one fewer, one replaced.
LEMMA InsertIs ==
  ASSUME NEW s, IsSequence(s), NEW i \in 1 .. Len(s) + 1, NEW e
  PROVE  /\ IsSequence(InsertAt(s, i, e)) /\ Len(InsertAt(s, i, e)) = Len(s) + 1
         /\ ToSet(InsertAt(s, i, e)) \subseteq ToSet(s) \cup {e}
<1> DEFINE before == SubSeq(s, 1, i - 1)
           after == SubSeq(s, i, Len(s))
<1>1. Len(s) \in Nat
  BY ElementsAre
<1>2. /\ IsSequence(before) /\ ToSet(before) \subseteq ToSet(s) /\ Len(before) = i - 1
  BY <1>1, PartIs
<1>3. /\ IsSequence(after) /\ ToSet(after) \subseteq ToSet(s) /\ Len(after) = Len(s) - i + 1
  BY <1>1, PartIs
<1>4. IsSequence(<<e>>) /\ Len(<<e>>) = 1 /\ ToSet(<<e>>) = {e}
  BY SingletonIs
<1>5. InsertAt(s, i, e) = (before \o <<e>>) \o after
  BY DEF InsertAt
<1> HIDE DEF before, after
<1>6. /\ IsSequence(before \o <<e>>) /\ ToSet(before \o <<e>>) \subseteq ToSet(s) \cup {e}
      /\ Len(before \o <<e>>) = i
  BY <1>1, <1>2, <1>4, ConcatIs
<1>7. QED
  BY <1>1, <1>3, <1>5, <1>6, ConcatIs

\* One element less.
LEMMA RemoveIs ==
  ASSUME NEW s, IsSequence(s), NEW i \in 1 .. Len(s)
  PROVE  /\ IsSequence(RemoveAt(s, i)) /\ Len(RemoveAt(s, i)) = Len(s) - 1
         /\ ToSet(RemoveAt(s, i)) \subseteq ToSet(s)
<1> DEFINE before == SubSeq(s, 1, i - 1)
           after == SubSeq(s, i + 1, Len(s))
<1>1. Len(s) \in Nat
  BY ElementsAre
<1>2. /\ IsSequence(before) /\ ToSet(before) \subseteq ToSet(s) /\ Len(before) = i - 1
  BY <1>1, PartIs
<1>3. /\ IsSequence(after) /\ ToSet(after) \subseteq ToSet(s) /\ Len(after) = Len(s) - i
  BY <1>1, PartIs
<1>4. RemoveAt(s, i) = before \o after
  BY DEF RemoveAt
<1> HIDE DEF before, after
<1>5. QED
  BY <1>1, <1>2, <1>3, <1>4, ConcatIs

\* One element replaced.
LEMMA ExceptIs ==
  ASSUME NEW s, IsSequence(s), NEW i, NEW e
  PROVE  LET t == [s EXCEPT ![i] = e]
         IN /\ IsSequence(t) /\ Len(t) = Len(s) /\ DOMAIN t = DOMAIN s
            /\ ToSet(t) \subseteq ToSet(s) \cup {e}
            /\ \A j \in DOMAIN s : t[j] = IF j = i THEN e ELSE s[j]
<1> DEFINE t == [s EXCEPT ![i] = e]
           S == ToSet(s) \cup {e}
<1>1. Len(s) \in Nat /\ DOMAIN s = 1 .. Len(s) /\ \A j \in 1 .. Len(s) : s[j] \in ToSet(s)
  BY ElementsAre
<1>2. s \in [1 .. Len(s) -> S]
  <2>1. s \in Seq(ToSet(s))
    BY DEF IsSequence
  <2>2. s \in [1 .. Len(s) -> ToSet(s)]
    BY <2>1, LenProperties
  <2>3. QED
    BY <2>2
<1>3. t \in [1 .. Len(s) -> S] /\ \A j \in DOMAIN s : t[j] = IF j = i THEN e ELSE s[j]
  BY <1>1, <1>2
<1> HIDE DEF t, S
<1>4. t \in Seq(S) /\ Len(t) = Len(s)
  BY <1>1, <1>3
<1>5. IsSequence(t) /\ ToSet(t) \subseteq S
  BY <1>4, SequenceIs
<1>6. QED
  BY <1>1, <1>3, <1>4, <1>5 DEF t, S

\* What follows the first element.
LEMMA TailIs ==
  ASSUME NEW s, IsSequence(s), s # <<>>
  PROVE  /\ IsSequence(Tail(s)) /\ Len(Tail(s)) = Len(s) - 1 /\ Len(s) \in Nat \ {0}
         /\ \A i \in 1 .. Len(s) - 1 : Tail(s)[i] = s[i + 1]
         /\ ToSet(Tail(s)) \subseteq ToSet(s)
<1>1. s \in Seq(ToSet(s))
  BY DEF IsSequence
<1> DEFINE S == ToSet(s)
<1> HIDE DEF S
<1>2. /\ Tail(s) \in Seq(S) /\ Len(Tail(s)) = Len(s) - 1 /\ Len(s) \in Nat \ {0}
      /\ \A i \in 1 .. Len(s) - 1 : Tail(s)[i] = s[i + 1]
  BY <1>1, HeadTailProperties, EmptySeq DEF S
<1>3. IsSequence(Tail(s)) /\ ToSet(Tail(s)) \subseteq S
  BY <1>2, SequenceIs
<1>4. QED
  BY <1>2, <1>3 DEF S

-----------------------------------------------------------------------------
(* Flattened sequences. *)

\* FlattenSeq puts the sequences one after the other.
LEMMA FlattenIs ==
  ASSUME NEW seqs, IsSequence(seqs), seqs # <<>>,
         \A k \in 1 .. Len(seqs) : IsSequence(seqs[k])
  PROVE  \E f : /\ f[0] = <<>> /\ f[Len(seqs)] = FlattenSeq(seqs)
                /\ \A k \in 1 .. Len(seqs) : f[k] = f[k-1] \o seqs[k]
                /\ \A k \in 0 .. Len(seqs) : IsSequence(f[k])
<1> DEFINE n == Len(seqs)
           U == UNION {ToSet(seqs[k]) : k \in 1 .. n}
           step == [p \in (1 .. n) \X Seq(U) |-> p[2] \o seqs[p[1]]]
<1>1. n \in Nat \ {0}
  BY ElementsAre
<1>2. \A k \in 1 .. n : seqs[k] \in Seq(U)
  <2>1. SUFFICES ASSUME NEW k \in 1 .. n PROVE seqs[k] \in Seq(U)
    OBVIOUS
  <2>2. seqs[k] \in Seq(ToSet(seqs[k])) /\ ToSet(seqs[k]) \subseteq U
    BY DEF IsSequence
  <2> HIDE DEF U
  <2>3. QED
    BY <2>2, SeqMonotonic
<1> HIDE DEF U
<1>3. step \in [(1 .. n) \X Seq(U) -> Seq(U)]
  <2>1. SUFFICES ASSUME NEW k \in 1 .. n, NEW x \in Seq(U) PROVE x \o seqs[k] \in Seq(U)
    OBVIOUS
  <2>2. QED
    BY <1>2, ConcatProperties
<1>4. <<>> \in Seq(U)
  BY EmptySeq
<1>5. PICK f \in [0 .. n -> Seq(U)] :
        f[0] = <<>> /\ \A k \in 1 .. n : f[k] = step[<<k, f[k-1]>>]
  <2> HIDE DEF step, n
  <2>1. n \in Nat /\ <<>> \in Seq(U) /\ step \in [(1 .. n) \X Seq(U) -> Seq(U)]
    BY <1>1, <1>3, <1>4
  <2>2. \E f : Recurs(f, n, Seq(U), <<>>, step)
    BY <2>1, RecursionExists
  <2>3. QED
    BY <2>2 DEF Recurs
<1>6. \A k \in 1 .. n : f[k] = f[k-1] \o seqs[k]
  <2>1. SUFFICES ASSUME NEW k \in 1 .. n PROVE f[k] = f[k-1] \o seqs[k]
    OBVIOUS
  <2>2. k - 1 \in 0 .. n /\ f[k-1] \in Seq(U)
    BY <1>1
  <2>3. QED
    BY <1>5, <2>2
<1>14. f[1] = seqs[1] /\ 1 \in 1 .. n
  <2>1. 1 \in 1 .. n /\ 1 - 1 = 0
    BY <1>1
  <2>4. f[1] = f[1-1] \o seqs[1]
    BY <1>6, <2>1
  <2>2. seqs[1] \in Seq(U)
    BY <1>2, <2>1
  <2>3. QED
    BY <1>5, <2>1, <2>2, <2>4, ConcatEmptySeq
<1> HIDE DEF step, n
<1> DEFINE Body(g) == [i \in 1 .. n |-> IF i = 1 THEN seqs[i] ELSE g[i-1] \o seqs[i]]
           g == [i \in 1 .. n |-> f[i]]
<1>7. g = Body(g)
  <2>1. SUFFICES ASSUME NEW i \in 1 .. n
                 PROVE  f[i] = IF i = 1 THEN seqs[i] ELSE g[i-1] \o seqs[i]
    OBVIOUS
  <2>2. CASE i = 1
    BY <1>14, <2>2
  <2>3. CASE i # 1
    <3>1. i - 1 \in 1 .. n
      BY <1>1, <2>3
    <3>2. QED
      BY <1>6, <2>3, <3>1
  <2>4. QED
    BY <2>2, <2>3
<1> HIDE DEF g
<1> DEFINE h == CHOOSE h : h = Body(h)
<1>8. h = Body(h)
  <2> HIDE DEF Body
  <2>1. QED
    BY <1>7
<1>9. FlattenSeq(seqs) = h[n]
  BY <1>1 DEF FlattenSeq, n
<1> HIDE DEF h
<1>10. \A k \in 1 .. n : h[k] = f[k]
  <2> DEFINE Same == {m \in Nat : m \in 1 .. n => h[m] = f[m]}
  <2>1. 0 \in Same
    OBVIOUS
  <2>2. ASSUME NEW m \in Nat, m \in Same PROVE m + 1 \in Same
    <3>1. SUFFICES ASSUME m + 1 \in 1 .. n PROVE h[m + 1] = f[m + 1]
      OBVIOUS
    <3>2. CASE m = 0
      <4>1. h[1] = seqs[1]
        BY <1>1, <1>8
      <4>2. f[1] = g[1] /\ g[1] = seqs[1]
        BY <1>14 DEF g
      <4>3. QED
        BY <3>2, <4>1, <4>2
    <3>3. CASE m # 0
      <4>1. m \in 1 .. n /\ h[m] = f[m] /\ m + 1 \in 1 .. n /\ m + 1 # 1 /\ (m + 1) - 1 = m
        BY <1>1, <2>2, <3>1, <3>3
      <4>2. h[m + 1] = h[m] \o seqs[m + 1]
        BY <1>8, <4>1
      <4>3. f[m + 1] = f[m] \o seqs[m + 1]
        BY <1>6, <4>1
      <4>4. QED
        BY <4>1, <4>2, <4>3
    <3>4. QED
      BY <3>2, <3>3
  <2> HIDE DEF Same
  <2>3. \A m \in Nat : m \in Same
    BY <2>1, <2>2, Induction
  <2>4. QED
    BY <1>1, <2>3 DEF Same
<1>11. f[n] = FlattenSeq(seqs)
  BY <1>1, <1>9, <1>10
<1>12. \A k \in 0 .. n : IsSequence(f[k])
  BY <1>5, SequenceIs
<1>13. QED
  BY <1>5, <1>6, <1>11, <1>12 DEF n

(* t is s with g applied to every element. *)
IsMapped(t, g, s) ==
  /\ IsSequence(s) /\ IsSequence(t) /\ Len(t) = Len(s)
  /\ \A i \in 1 .. Len(s) : t[i] = g[s[i]]

\* A function of every element may be applied before or after.
LEMMA FlattenMaps ==
  ASSUME NEW A, NEW B, NEW g, IsSequence(A), IsSequence(B), A # <<>>, Len(B) = Len(A),
         \A k \in 1 .. Len(A) : IsMapped(B[k], g, A[k])
  PROVE  IsMapped(FlattenSeq(B), g, FlattenSeq(A))
<1> DEFINE n == Len(A)
<1>1. n \in Nat \ {0} /\ B # <<>>
  BY ElementsAre
<1>2. PICK a : /\ a[0] = <<>> /\ a[n] = FlattenSeq(A)
               /\ \A k \in 1 .. n : a[k] = a[k-1] \o A[k]
               /\ \A k \in 0 .. n : IsSequence(a[k])
  <2>1. \A k \in 1 .. Len(A) : IsSequence(A[k])
    BY DEF IsMapped
  <2>2. QED
    BY <2>1, FlattenIs
<1>3. PICK b : /\ b[0] = <<>> /\ b[n] = FlattenSeq(B)
               /\ \A k \in 1 .. n : b[k] = b[k-1] \o B[k]
               /\ \A k \in 0 .. n : IsSequence(b[k])
  <2>1. IsSequence(B) /\ \A k \in 1 .. Len(B) : IsSequence(B[k])
    BY DEF IsMapped
  <2>2. QED
    <3>1. \E f : /\ f[0] = <<>> /\ f[Len(B)] = FlattenSeq(B)
                 /\ \A k \in 1 .. Len(B) : f[k] = f[k-1] \o B[k]
                 /\ \A k \in 0 .. Len(B) : IsSequence(f[k])
      BY <1>1, <2>1, FlattenIs
    <3>2. QED
      BY <3>1
<1> DEFINE Alike(s, t) == Len(t) = Len(s) /\ \A i \in 1 .. Len(s) : t[i] = g[s[i]]
           Good == {m \in Nat : m <= n => Alike(a[m], b[m])}
<1>4. 0 \in Good
  <2>1. Len(<<>>) = 0
    OBVIOUS
  <2>2. QED
    BY <1>2, <1>3, <2>1
<1>5. ASSUME NEW m \in Nat, m \in Good PROVE m + 1 \in Good
  <2>1. SUFFICES ASSUME m + 1 <= n PROVE Alike(a[m + 1], b[m + 1])
    OBVIOUS
  <2> DEFINE s == a[m]
             t == b[m]
             c == A[m + 1]
             d == B[m + 1]
  <2>7. m \in 0 .. n /\ m + 1 \in 1 .. n /\ (m + 1) - 1 = m
    BY <1>1, <2>1
  <2>2. Alike(s, t) /\ Alike(c, d) /\ IsSequence(s) /\ IsSequence(t) /\ IsSequence(c) /\ IsSequence(d)
    <3>1. Alike(s, t)
      BY <1>5, <2>7
    <3>2. Alike(c, d) /\ IsSequence(c) /\ IsSequence(d)
      BY <2>7 DEF IsMapped
    <3>3. IsSequence(s) /\ IsSequence(t)
      BY <1>2, <1>3, <2>7
    <3>4. QED
      BY <3>1, <3>2, <3>3
  <2>3. a[m + 1] = s \o c /\ b[m + 1] = t \o d
    BY <1>2, <1>3, <2>7
  <2> HIDE DEF s, t, c, d
  <2>4. /\ Len(s) \in Nat /\ Len(c) \in Nat
        /\ Len(s \o c) = Len(s) + Len(c) /\ Len(t \o d) = Len(t) + Len(d)
    BY <2>2, ElementsAre, ConcatIs
  <2>5. ASSUME NEW i \in 1 .. Len(s \o c) PROVE (t \o d)[i] = g[(s \o c)[i]]
    <3>1. CASE i <= Len(s)
      BY <2>2, <2>4, <3>1, ConcatIs
    <3>2. CASE i > Len(s)
      <4> DEFINE j == i - Len(s)
      <4>1. j \in 1 .. Len(c) /\ i = Len(s) + j /\ i = Len(t) + j /\ j \in 1 .. Len(d)
        BY <2>2, <2>4, <3>2
      <4> HIDE DEF j
      <4>2. (s \o c)[i] = c[j] /\ (t \o d)[i] = d[j]
        BY <2>2, <4>1, ConcatIs
      <4>3. QED
        BY <2>2, <4>1, <4>2
    <3>3. i <= Len(s) \/ i > Len(s)
      BY <2>4
    <3>4. QED
      BY <3>1, <3>2, <3>3
  <2>6. QED
    BY <2>2, <2>3, <2>4, <2>5
<1> HIDE DEF Good
<1>6. n \in Good
  BY <1>1, <1>4, <1>5, Induction
<1>7. Alike(a[n], b[n]) /\ IsSequence(a[n]) /\ IsSequence(b[n])
  BY <1>1, <1>2, <1>3, <1>6 DEF Good
<1>8. QED
  BY <1>2, <1>3, <1>7 DEF IsMapped

\* The last element of the last sequence comes last.
LEMMA FlattenLast ==
  ASSUME NEW seqs, IsSequence(seqs), seqs # <<>>,
         \A k \in 1 .. Len(seqs) : IsSequence(seqs[k]), Last(seqs) # <<>>
  PROVE  /\ FlattenSeq(seqs) # <<>> /\ Len(FlattenSeq(seqs)) \in Nat \ {0}
         /\ Last(FlattenSeq(seqs)) = Last(Last(seqs))
<1> DEFINE n == Len(seqs)
<1>1. n \in Nat \ {0}
  BY ElementsAre
<1>2. PICK f : /\ f[n] = FlattenSeq(seqs)
               /\ \A k \in 1 .. n : f[k] = f[k-1] \o seqs[k]
               /\ \A k \in 0 .. n : IsSequence(f[k])
  BY FlattenIs
<1> DEFINE s == f[n-1]
           t == seqs[n]
<1>3. FlattenSeq(seqs) = s \o t /\ IsSequence(s) /\ IsSequence(t) /\ t = Last(seqs)
  <2>1. n \in 1 .. n /\ n - 1 \in 0 .. n
    BY <1>1
  <2>2. QED
    BY <1>2, <2>1 DEF Last
<1> HIDE DEF s, t
<1>4. Len(s) \in Nat /\ Len(t) \in Nat \ {0}
  BY <1>3, ElementsAre
<1>5. /\ Len(s \o t) = Len(s) + Len(t) /\ (s \o t)[Len(s) + Len(t)] = t[Len(t)]
      /\ IsSequence(s \o t)
  BY <1>3, <1>4, ConcatIs
<1>6. QED
  BY <1>3, <1>4, <1>5, ElementsAre DEF Last

-----------------------------------------------------------------------------
(* Names. *)

\* Names of which there are as many as places differ from place to place.
LEMMA DistinctIs ==
  ASSUME NEW ids, IsSequence(ids), Distinct(ids)
  PROVE  \A i, j \in 1 .. Len(ids) : ids[i] = ids[j] => i = j
<1> DEFINE n == Len(ids)
           T == ToSet(ids)
<1>1. n \in Nat /\ DOMAIN ids = 1 .. n
  BY ElementsAre
<1>2. ids \in Surjection(1 .. n, T)
  <2>1. ids \in [1 .. n -> T]
    <3>1. ids \in Seq(T)
      BY DEF IsSequence
    <3>2. QED
      BY <3>1, LenProperties
  <2>2. \A x \in T : \E i \in 1 .. n : ids[i] = x
    BY <1>1 DEF ToSet
  <2> HIDE DEF n, T
  <2>3. QED
    BY <2>1, <2>2 DEF Surjection
<1>3. IsFiniteSet(1 .. n) /\ Cardinality(1 .. n) = n
  <2>1. Cardinality(1 .. n) = IF 1 > n THEN 0 ELSE n - 1 + 1
    BY <1>1, FS_Interval
  <2>2. QED
    BY <1>1, <2>1, FS_Interval
<1>4. Cardinality(1 .. n) = Cardinality(T)
  BY <1>3 DEF Distinct
<1> HIDE DEF n, T
<1>5. ids \in Injection(1 .. n, T)
  BY <1>2, <1>3, <1>4, FS_SurjSameCardinalityImpliesInj
<1>6. QED
  BY <1>5 DEF Injection, IsInjective, n

\* With distinct names, a name finds its point.
LEMMA NamedIs ==
  ASSUME NEW wps, IsSequence(wps), Distinct([i \in DOMAIN wps |-> wps[i].id])
  PROVE  \A i \in 1 .. Len(wps) : Named(wps, wps[i].id) = wps[i]
<1> DEFINE ids == [i \in DOMAIN wps |-> wps[i].id]
<1>1. Len(wps) \in Nat /\ DOMAIN wps = 1 .. Len(wps)
  BY ElementsAre
<1>2. IsSequence(ids) /\ Len(ids) = Len(wps)
  <2>1. DOMAIN ids = 1 .. Len(wps) /\ ids = [i \in 1 .. Len(wps) |-> ids[i]]
    BY <1>1
  <2> HIDE DEF ids
  <2>2. QED
    BY <1>1, <2>1, MapIsSequence
<1>3. \A i, j \in 1 .. Len(wps) : ids[i] = ids[j] => i = j
  <2> HIDE DEF ids
  <2>1. QED
    BY <1>2, DistinctIs DEF ids
<1>4. SUFFICES ASSUME NEW i \in 1 .. Len(wps) PROVE Named(wps, wps[i].id) = wps[i]
  OBVIOUS
<1>5. wps[i] \in ToSet(wps)
  BY ElementsAre
<1>6. \A w \in ToSet(wps) : w.id = wps[i].id => w = wps[i]
  BY <1>1, <1>3, ElementsAre
<1>7. QED
  BY <1>5, <1>6 DEF Named

\* A name that is there has a point.
LEMMA NamedExists ==
  ASSUME NEW wps, NEW id \in IdsOf(wps)
  PROVE  Named(wps, id) \in ToSet(wps) /\ Named(wps, id).id = id
  BY DEF IdsOf, Named

-----------------------------------------------------------------------------
(* Routes in order. *)

\* A list of tasks in mission order begins with the start: nothing else leads on from the
\* first state, and what is refused stays so.
LEMMA OrderStartsAtStart ==
  ASSUME NEW tasks, IsSequence(tasks), TasksInOrder(tasks)
  PROVE  Len(tasks) \in Nat \ {0} /\ tasks[1] = "start"
<1> DEFINE n == Len(tasks)
           X == {"start", "before_qr", "before_vlm", "before_return", "done", "refused"}
           step == [p \in (1 .. n) \X X |-> MissionOrderStep(p[2], tasks[p[1]])]
           Body(g) == [i \in 0 .. n |-> IF i = 0 THEN "start"
                                        ELSE MissionOrderStep(g[i-1], tasks[i])]
           state == CHOOSE state : state = Body(state)
<1>1. n \in Nat
  BY ElementsAre
<1>2. \A x \in X : \A t : MissionOrderStep(x, t) \in X
  BY DEF MissionOrderStep
<1>3. \E f : f = Body(f)
  <2>1. step \in [(1 .. n) \X X -> X]
    BY <1>2
  <2>2. "start" \in X
    OBVIOUS
  <2> HIDE DEF step, n, X
  <2>3. PICK f : Recurs(f, n, X, "start", step)
    BY <1>1, <2>1, <2>2, RecursionExists
  <2>4. ASSUME NEW i \in 0 .. n
        PROVE  f[i] = IF i = 0 THEN "start" ELSE MissionOrderStep(f[i-1], tasks[i])
    <3>1. CASE i = 0
      BY <2>3, <3>1 DEF Recurs
    <3>2. CASE i # 0
      <4>1. i \in 1 .. n /\ i - 1 \in 0 .. n
        BY <1>1, <3>2
      <4>2. f[i] = step[<<i, f[i-1]>>] /\ f[i-1] \in X
        BY <2>3, <4>1 DEF Recurs
      <4>3. step[<<i, f[i-1]>>] = MissionOrderStep(f[i-1], tasks[i])
        BY <4>1, <4>2 DEF step
      <4>4. QED
        BY <3>2, <4>2, <4>3
    <3>3. QED
      BY <3>1, <3>2
  <2>5. f = [i \in 0 .. n |-> f[i]]
    BY <2>3 DEF Recurs
  <2>6. f = Body(f)
    BY <2>4, <2>5
  <2>7. QED
    BY <2>6
<1>4. state = Body(state)
  <2> HIDE DEF Body
  <2>1. QED
    BY <1>3
<1>5. state[n] = "done"
  BY DEF TasksInOrder
<1> HIDE DEF state, n
<1>6. state[0] = "start" /\ \A i \in 1 .. n : state[i] = MissionOrderStep(state[i-1], tasks[i])
  BY <1>1, <1>4
<1>7. n # 0
  BY <1>5, <1>6
<1>8. CASE tasks[1] # "start"
  <2> DEFINE Refused == {m \in Nat : m + 1 <= n => state[m + 1] = "refused"}
  <2>1. 0 \in Refused
    <3>1. 1 \in 1 .. n /\ 1 - 1 = 0 /\ 0 + 1 = 1
      BY <1>1, <1>7
    <3>2. state[1] = MissionOrderStep("start", tasks[1])
      BY <1>6, <3>1
    <3>3. QED
      BY <1>8, <3>2 DEF MissionOrderStep
  <2>2. ASSUME NEW m \in Nat, m \in Refused PROVE m + 1 \in Refused
    <3>1. SUFFICES ASSUME (m + 1) + 1 <= n PROVE state[(m + 1) + 1] = "refused"
      OBVIOUS
    <3> DEFINE k == (m + 1) + 1
    <3>2. k \in 1 .. n /\ k - 1 = m + 1 /\ m + 1 <= n
      BY <1>1, <3>1
    <3>3. state[k-1] = "refused"
      BY <2>2, <3>2
    <3> HIDE DEF k
    <3>4. state[k] = MissionOrderStep("refused", tasks[k])
      BY <1>6, <3>2, <3>3
    <3>5. QED
      BY <3>4 DEF MissionOrderStep, k
  <2> HIDE DEF Refused
  <2>3. n - 1 \in Refused
    BY <1>1, <1>7, <2>1, <2>2, Induction
  <2>4. state[n] = "refused"
    BY <1>1, <1>7, <2>3 DEF Refused
  <2>5. QED
    BY <1>5, <2>4
<1>9. QED
  BY <1>1, <1>7, <1>8 DEF n

(* The names in the order in which the segments drive them. *)
Driven(segs) ==
  <<segs[1].start_id>> \o FlattenSeq([k \in DOMAIN segs |-> Tail(RouteIds(segs[k]))])

Forwards(w) == [w EXCEPT !.direction = "forward"]

\* What a segment drives after its start ends with its end.
LEMMA TailOfSegment ==
  ASSUME NEW s, IsSegment(s)
  PROVE  /\ IsSequence(RouteIds(s)) /\ RouteIds(s) # <<>> /\ IsSequence(Tail(RouteIds(s)))
         /\ Len(Tail(RouteIds(s))) \in Nat \ {0} /\ Tail(RouteIds(s)) # <<>>
         /\ Last(Tail(RouteIds(s))) = s.end_id
<1> DEFINE a == <<s.start_id>>
           b == s.through_ids
           c == <<s.end_id>>
<1>1. /\ IsSequence(a) /\ IsSequence(b) /\ IsSequence(c)
      /\ Len(a) = 1 /\ Len(c) = 1 /\ c[1] = s.end_id
  BY SingletonIs DEF IsSegment
<1>2. RouteIds(s) = (a \o b) \o c
  BY DEF RouteIds
<1> HIDE DEF a, b, c
<1>3. IsSequence(a \o b) /\ Len(a \o b) = 1 + Len(b) /\ Len(b) \in Nat
  BY <1>1, ConcatIs, ElementsAre
<1>4. /\ IsSequence(RouteIds(s)) /\ Len(RouteIds(s)) = Len(b) + 2
      /\ RouteIds(s)[Len(b) + 2] = s.end_id
  <2>1. /\ IsSequence((a \o b) \o c) /\ Len((a \o b) \o c) = Len(a \o b) + 1
        /\ ((a \o b) \o c)[Len(a \o b) + 1] = c[1]
    BY <1>1, <1>3, ConcatIs
  <2>2. QED
    BY <1>1, <1>2, <1>3, <2>1
<1>5. RouteIds(s) # <<>>
  BY <1>3, <1>4, ElementsAre
<1> DEFINE t == Tail(RouteIds(s))
<1>6. /\ IsSequence(t) /\ Len(t) = Len(b) + 1 /\ t[Len(b) + 1] = s.end_id
  <2>1. Len(b) + 1 \in 1 .. Len(RouteIds(s)) - 1
    BY <1>3, <1>4
  <2>2. /\ IsSequence(t) /\ Len(t) = Len(RouteIds(s)) - 1
        /\ t[Len(b) + 1] = RouteIds(s)[(Len(b) + 1) + 1]
    BY <1>4, <1>5, <2>1, TailIs
  <2>3. QED
    BY <1>3, <1>4, <2>2
<1>7. Len(t) \in Nat \ {0} /\ t # <<>> /\ Last(t) = s.end_id
  <2>1. Len(t) \in Nat \ {0} /\ t[Len(t)] = s.end_id
    BY <1>3, <1>6
  <2> HIDE DEF t
  <2>2. QED
    BY <1>6, <2>1, ElementsAre DEF Last
<1>8. QED
  BY <1>4, <1>5, <1>6, <1>7

\* A segment's names hold its end and the points it is driven through.
LEMMA RouteIdsHold ==
  ASSUME NEW s, IsSegment(s)
  PROVE  /\ s.end_id \in ToSet(RouteIds(s))
         /\ ToSet(s.through_ids) \subseteq ToSet(RouteIds(s))
<1> DEFINE a == <<s.start_id>>
           b == s.through_ids
           c == <<s.end_id>>
<1>1. /\ IsSequence(a) /\ IsSequence(b) /\ IsSequence(c)
      /\ Len(a) = 1 /\ Len(c) = 1 /\ c[1] = s.end_id
  BY SingletonIs DEF IsSegment
<1>2. RouteIds(s) = (a \o b) \o c
  BY DEF RouteIds
<1> HIDE DEF a, b, c
<1>3. /\ IsSequence(a \o b) /\ Len(a \o b) = 1 + Len(b) /\ Len(b) \in Nat
      /\ \A i \in 1 .. Len(b) : (a \o b)[1 + i] = b[i]
  <2>1. /\ IsSequence(a \o b) /\ Len(a \o b) = Len(a) + Len(b)
        /\ \A i \in 1 .. Len(b) : (a \o b)[Len(a) + i] = b[i]
    <3>1. IsSequence(a) /\ IsSequence(b)
      BY <1>1
    <3>2. QED
      BY <3>1, ConcatIs
  <2>2. Len(b) \in Nat
    BY <1>1, ElementsAre
  <2>3. QED
    BY <1>1, <2>1, <2>2
<1> DEFINE r == (a \o b) \o c
<1>4. /\ IsSequence(r) /\ Len(r) = Len(b) + 2 /\ r[(1 + Len(b)) + 1] = c[1]
      /\ \A i \in 1 .. 1 + Len(b) : r[i] = (a \o b)[i]
  BY <1>1, <1>3, ConcatIs
<1> HIDE DEF r
<1>5. r[Len(b) + 2] = s.end_id /\ Len(b) + 2 \in 1 .. Len(r)
  BY <1>1, <1>3, <1>4
<1>6. ASSUME NEW i \in 1 .. Len(b) PROVE b[i] \in ToSet(r)
  <2>1. 1 + i \in 1 .. 1 + Len(b) /\ 1 + i \in 1 .. Len(r)
    BY <1>3, <1>4
  <2>2. r[1 + i] = b[i]
    BY <1>3, <1>4, <2>1
  <2>3. QED
    BY <1>4, <2>1, <2>2, ElementsAre
<1>7. s.end_id \in ToSet(r)
  BY <1>4, <1>5, ElementsAre
<1>8. ToSet(b) \subseteq ToSet(r)
  BY <1>1, <1>6, ElementsAre
<1>9. QED
  BY <1>2, <1>7, <1>8 DEF b, r

\* The waypoints in order are the points of the driven names, all forward.
LEMMA OrderedIs ==
  ASSUME NEW wps, NEW segs, IsRoute(wps, segs), ValidSegments(segs, wps)
  PROVE  LET D == Driven(segs)
             O == Ordered(wps, segs)
         IN /\ IsSequence(D) /\ IsSequence(O) /\ Len(O) = Len(D) /\ Len(D) \in Nat \ {0}
            /\ D[1] = segs[1].start_id /\ Last(D) = Last(segs).end_id
            /\ O[1] = Named(wps, D[1])
            /\ \A i \in 2 .. Len(D) : O[i] = Forwards(Named(wps, D[i]))
<1> DEFINE A == [k \in DOMAIN segs |-> Tail(RouteIds(segs[k]))]
           B == [k \in DOMAIN segs |-> Goals(wps, segs[k])]
           n == Len(segs)
           g == [id \in IdsOf(wps) |-> Forwards(Named(wps, id))]
<1>1. /\ IsSequence(segs) /\ segs # <<>> /\ n \in Nat \ {0} /\ DOMAIN segs = 1 .. n
      /\ \A k \in 1 .. n : IsSegment(segs[k]) /\ segs[k].direction = "forward"
  <2>1. IsSequence(segs) /\ segs # <<>> /\ \A s \in ToSet(segs) : IsSegment(s) /\ ValidSegment(s, wps)
    BY DEF IsRoute, ValidSegments
  <2>2. QED
    BY <2>1, ElementsAre DEF ValidSegment
<1>2. \A k \in 1 .. n : /\ A[k] = Tail(RouteIds(segs[k]))
                        /\ IsSequence(A[k]) /\ A[k] # <<>> /\ Last(A[k]) = segs[k].end_id
                        /\ Len(A[k]) \in Nat /\ DOMAIN A[k] = 1 .. Len(A[k])
  <2>1. SUFFICES ASSUME NEW k \in 1 .. n
                 PROVE  LET t == Tail(RouteIds(segs[k]))
                        IN /\ A[k] = t /\ IsSequence(t) /\ t # <<>> /\ Last(t) = segs[k].end_id
                           /\ Len(t) \in Nat /\ DOMAIN t = 1 .. Len(t)
    BY <1>1
  <2>2. A[k] = Tail(RouteIds(segs[k]))
    BY <1>1
  <2>3. QED
    BY <1>1, <2>2, TailOfSegment, ElementsAre
<1>3. IsSequence(A) /\ Len(A) = n /\ IsSequence(B) /\ Len(B) = n
  <2>1. /\ DOMAIN A = 1 .. n /\ A = [k \in 1 .. n |-> A[k]]
        /\ DOMAIN B = 1 .. n /\ B = [k \in 1 .. n |-> B[k]]
    BY <1>1
  <2> HIDE DEF A, B, n
  <2>2. QED
    BY <1>1, <2>1, MapIsSequence
<1>11. \A k \in 1 .. n : ToSet(A[k]) \subseteq IdsOf(wps)
  <2>1. SUFFICES ASSUME NEW k \in 1 .. n PROVE ToSet(Tail(RouteIds(segs[k]))) \subseteq IdsOf(wps)
    BY <1>1
  <2>2. ValidSegment(segs[k], wps) /\ IsSegment(segs[k])
    BY <1>1, ElementsAre DEF ValidSegments
  <2>3. IsSequence(RouteIds(segs[k])) /\ RouteIds(segs[k]) # <<>>
    BY <2>2, TailOfSegment
  <2>4. QED
    BY <2>2, <2>3, TailIs DEF ValidSegment
<1>4. ASSUME NEW k \in 1 .. n
      PROVE  IsMapped(B[k], g, A[k])
  <2>1. B[k] = [i \in DOMAIN A[k] |-> [Named(wps, A[k][i]) EXCEPT !.direction = "forward"]]
    BY <1>1, <1>2 DEF Goals
  <2>2. \A i \in 1 .. Len(A[k]) : A[k][i] \in ToSet(A[k])
    BY <1>2, ElementsAre
  <2>3. \A i \in 1 .. Len(A[k]) : A[k][i] \in IdsOf(wps)
    BY <1>2, <1>11, <2>2
  <2> DEFINE t == A[k]
             u == B[k]
  <2>4. DOMAIN u = 1 .. Len(t) /\ u = [i \in 1 .. Len(t) |-> u[i]] /\ Len(t) \in Nat
    <3> HIDE DEF A, B
    <3>1. QED
      BY <1>2, <2>1
  <2>5. ASSUME NEW i \in 1 .. Len(t) PROVE u[i] = g[t[i]]
    <3>1. i \in DOMAIN A[k] /\ A[k][i] \in IdsOf(wps)
      BY <1>2, <2>3
    <3> HIDE DEF A, B
    <3>2. B[k][i] = Forwards(Named(wps, A[k][i]))
      BY <2>1, <3>1 DEF Forwards
    <3>3. QED
      BY <3>1, <3>2
  <2> HIDE DEF t, u, g
  <2>6. IsSequence(u) /\ Len(u) = Len(t)
    BY <2>4, MapIsSequence
  <2>7. QED
    BY <1>2, <2>5, <2>6 DEF t, u, IsMapped
<1>5. A # <<>>
  BY <1>1, <1>3, ElementsAre
<1> DEFINE F == FlattenSeq(A)
           G == FlattenSeq(B)
           a == <<segs[1].start_id>>
           b == <<Named(wps, segs[1].start_id)>>
<1>6. /\ Driven(segs) = a \o F /\ Ordered(wps, segs) = b \o G
      /\ IsSequence(a) /\ Len(a) = 1 /\ a[1] = segs[1].start_id
      /\ IsSequence(b) /\ Len(b) = 1 /\ b[1] = Named(wps, segs[1].start_id)
  BY SingletonIs DEF Driven, Ordered
<1> HIDE DEF A, B, g
<1>7. /\ IsSequence(F) /\ IsSequence(G) /\ Len(G) = Len(F)
      /\ \A i \in 1 .. Len(F) : G[i] = g[F[i]]
  <2>1. \A k \in 1 .. Len(A) : IsMapped(B[k], g, A[k])
    BY <1>3, <1>4
  <2>2. Len(B) = Len(A)
    BY <1>3
  <2> HIDE DEF n
  <2>3. QED
    <3>1. IsMapped(G, g, F)
      BY <1>3, <1>5, <2>1, <2>2, FlattenMaps
    <3>2. QED
      BY <3>1 DEF IsMapped
<1>8. F # <<>> /\ Len(F) \in Nat \ {0} /\ Last(F) = Last(segs).end_id
  <2>1. Last(A) = A[n] /\ n \in 1 .. n
    BY <1>1, <1>3 DEF Last
  <2>2. Last(A) # <<>> /\ Last(Last(A)) = Last(segs).end_id
    BY <1>1, <1>2, <2>1 DEF Last, n
  <2>3. QED
    BY <1>2, <1>3, <1>5, <2>2, FlattenLast
<1> HIDE DEF F, G, a, b
<1>9. /\ IsSequence(a \o F) /\ Len(a \o F) = Len(F) + 1 /\ (a \o F)[1] = a[1]
      /\ \A i \in 1 .. Len(F) : (a \o F)[1 + i] = F[i]
      /\ IsSequence(b \o G) /\ Len(b \o G) = Len(F) + 1 /\ (b \o G)[1] = b[1]
      /\ \A i \in 1 .. Len(F) : (b \o G)[1 + i] = G[i]
  <2>1. /\ IsSequence(a \o F) /\ Len(a \o F) = 1 + Len(F) /\ (a \o F)[1] = a[1]
        /\ \A i \in 1 .. Len(F) : (a \o F)[1 + i] = F[i]
    <3>1. /\ IsSequence(a \o F) /\ Len(a \o F) = Len(a) + Len(F)
          /\ \A i \in 1 .. Len(a) : (a \o F)[i] = a[i]
          /\ \A i \in 1 .. Len(F) : (a \o F)[Len(a) + i] = F[i]
      <4>1. IsSequence(a) /\ IsSequence(F)
        BY <1>6, <1>7
      <4>2. QED
        BY <4>1, ConcatIs
    <3>2. QED
      BY <1>6, <3>1
  <2>2. /\ IsSequence(b \o G) /\ Len(b \o G) = 1 + Len(G) /\ (b \o G)[1] = b[1]
        /\ \A i \in 1 .. Len(G) : (b \o G)[1 + i] = G[i]
    <3>1. /\ IsSequence(b \o G) /\ Len(b \o G) = Len(b) + Len(G)
          /\ \A i \in 1 .. Len(b) : (b \o G)[i] = b[i]
          /\ \A i \in 1 .. Len(G) : (b \o G)[Len(b) + i] = G[i]
      <4>1. IsSequence(b) /\ IsSequence(G)
        BY <1>6, <1>7
      <4>2. QED
        BY <4>1, ConcatIs
    <3>2. QED
      BY <1>6, <3>1
  <2>3. QED
    BY <1>7, <1>8, <2>1, <2>2
<1> DEFINE D == a \o F
           O == b \o G
<1>10. ASSUME NEW i \in 2 .. Len(D) PROVE O[i] = Forwards(Named(wps, D[i]))
  <2> DEFINE j == i - 1
  <2>1. j \in 1 .. Len(F) /\ i = 1 + j
    BY <1>8, <1>9
  <2> HIDE DEF j
  <2>2. O[i] = G[j] /\ D[i] = F[j] /\ G[j] = g[F[j]]
    BY <1>7, <1>9, <2>1
  <2>3. D[i] \in IdsOf(wps)
    <3>1. ToSet(D) = IdsOf(wps)
      BY <1>6 DEF ValidSegments, Driven
    <3>2. IsSequence(D)
      BY <1>9
    <3>3. i \in 1 .. Len(D)
      BY <1>8, <1>9
    <3> HIDE DEF D
    <3>4. QED
      BY <3>1, <3>2, <3>3, ElementsAre
  <2>4. QED
    BY <2>2, <2>3 DEF g
<1>12. Last(D) = Last(segs).end_id
  BY <1>8, <1>9 DEF Last
<1>13. QED
  BY <1>6, <1>8, <1>9, <1>10, <1>12

-----------------------------------------------------------------------------
(* What a save writes. *)

SavedPoint(w) == IF HeadingLocked(w) THEN w ELSE [w EXCEPT !.heading = Open]

SavedPoints(wps, segs) ==
  [i \in DOMAIN Ordered(wps, segs) |-> SavedPoint(Ordered(wps, segs)[i])]

(* Two points with all the same but the heading. *)
SameBut(v, w) ==
  /\ v.id = w.id /\ v.task = w.task /\ v.direction = w.direction
  /\ v.profile = w.profile /\ v.mode = w.mode /\ v.pos = w.pos

\* A saved point is its point, with the heading left open where it is not authored.
LEMMA SavedPointIs ==
  ASSUME NEW w, IsWaypoint(w)
  PROVE  /\ IsWaypoint(SavedPoint(w)) /\ SameBut(SavedPoint(w), w)
         /\ HeadingLocked(SavedPoint(w)) <=> HeadingLocked(w)
         /\ SavedPoint(w).heading = IF HeadingLocked(w) THEN w.heading ELSE Open
<1> DEFINE v == [w EXCEPT !.heading = Open]
<1>1. /\ IsWaypoint(v) /\ SameBut(v, w) /\ v.heading = Open
  BY DEF IsWaypoint, SameBut
<1>2. HeadingLocked(v) <=> HeadingLocked(w)
  BY <1>1 DEF HeadingLocked, SameBut
<1> HIDE DEF v
<1>3. SavedPoint(w) = IF HeadingLocked(w) THEN w ELSE v
  BY DEF SavedPoint, v
<1>4. CASE HeadingLocked(w)
  BY <1>3, <1>4 DEF SameBut
<1>5. CASE ~ HeadingLocked(w)
  BY <1>1, <1>2, <1>3, <1>5
<1>6. QED
  BY <1>4, <1>5

\* A point turned forward is the same point.
LEMMA ForwardsIs ==
  ASSUME NEW w, IsWaypoint(w)
  PROVE  /\ IsWaypoint(Forwards(w)) /\ Forwards(w).id = w.id /\ Forwards(w).task = w.task
         /\ Forwards(w).mode = w.mode /\ Forwards(w).heading = w.heading
         /\ Forwards(w).pos = w.pos
         /\ HeadingLocked(Forwards(w)) <=> HeadingLocked(w)
<1> DEFINE v == [w EXCEPT !.direction = "forward"]
<1>1. /\ IsWaypoint(v) /\ v.id = w.id /\ v.task = w.task /\ v.mode = w.mode
      /\ v.heading = w.heading /\ v.pos = w.pos
  BY DEF IsWaypoint
<1> HIDE DEF v
<1>2. HeadingLocked(v) <=> HeadingLocked(w)
  BY <1>1 DEF HeadingLocked
<1>3. Forwards(w) = v
  BY DEF Forwards, v
<1>4. QED
  BY <1>1, <1>2, <1>3

\* Turned forward and saved, it stays as it is when it is turned forward again.
LEMMA SavedStaysForward ==
  ASSUME NEW w, IsWaypoint(w)
  PROVE  Forwards(SavedPoint(Forwards(w))) = SavedPoint(Forwards(w))
<1> DEFINE names == {"id", "task", "direction", "profile", "mode", "pos", "heading"}
           v == [x \in names |-> IF x = "direction" THEN "forward" ELSE w[x]]
           u == [x \in names |-> IF x = "heading" THEN Open ELSE v[x]]
<1>1. Forwards(w) = v
  BY DEF Forwards, IsWaypoint
<1>2. SavedPoint(v) = IF HeadingLocked(v) THEN v ELSE u
  BY DEF SavedPoint
<1>3. Forwards(v) = v /\ Forwards(u) = u
  BY DEF Forwards
<1> HIDE DEF u, v
<1>4. QED
  BY <1>1, <1>2, <1>3

\* The points a route is driven along, in order: each carries its name, all are forward.
LEMMA OrderedPoints ==
  ASSUME NEW wps, NEW segs, IsRoute(wps, segs), Savable(wps, segs)
  PROVE  LET D == Driven(segs)
             O == Ordered(wps, segs)
         IN /\ ToSet(D) = IdsOf(wps)
            /\ \A i \in 1 .. Len(D) :
                 /\ D[i] \in IdsOf(wps) /\ Named(wps, D[i]) \in ToSet(wps)
                 /\ IsWaypoint(O[i]) /\ O[i].id = D[i] /\ O[i].direction = "forward"
                 /\ O[i].task = Named(wps, D[i]).task /\ O[i].heading = Named(wps, D[i]).heading
                 /\ HeadingLocked(O[i]) <=> HeadingLocked(Named(wps, D[i]))
                 /\ ParsesWaypoint(O[i]) /\ (HeadingLocked(O[i]) => O[i].heading # Open)
<1> DEFINE D == Driven(segs)
           O == Ordered(wps, segs)
<1>1. /\ IsSequence(D) /\ IsSequence(O) /\ Len(O) = Len(D) /\ Len(D) \in Nat \ {0}
      /\ O[1] = Named(wps, D[1])
      /\ \A i \in 2 .. Len(D) : O[i] = Forwards(Named(wps, D[i]))
  BY OrderedIs DEF Savable
<1>2. ToSet(D) = IdsOf(wps) /\ ValidWaypoints(O)
  BY DEF Savable, ValidSegments, Driven
<1> HIDE DEF D, O
<1>3. ASSUME NEW i \in 1 .. Len(D)
      PROVE  /\ D[i] \in IdsOf(wps) /\ Named(wps, D[i]) \in ToSet(wps)
             /\ Named(wps, D[i]).id = D[i] /\ IsWaypoint(Named(wps, D[i]))
             /\ O[i] \in ToSet(O)
  <2>1. D[i] \in IdsOf(wps) /\ O[i] \in ToSet(O)
    BY <1>1, <1>2, ElementsAre
  <2>2. QED
    BY <2>1, NamedExists DEF IsRoute
<1>4. ASSUME NEW i \in 1 .. Len(D)
      PROVE  /\ ParsesWaypoint(O[i]) /\ (HeadingLocked(O[i]) => O[i].heading # Open)
             /\ O[i].direction = "forward"
  BY <1>2, <1>3 DEF ValidWaypoints, ParsesWaypoint
<1>5. ASSUME NEW i \in 1 .. Len(D)
      PROVE  /\ IsWaypoint(O[i]) /\ O[i].id = D[i]
             /\ O[i].task = Named(wps, D[i]).task /\ O[i].heading = Named(wps, D[i]).heading
             /\ HeadingLocked(O[i]) <=> HeadingLocked(Named(wps, D[i]))
  <2> DEFINE w == Named(wps, D[i])
  <2>1. IsWaypoint(w) /\ w.id = D[i]
    BY <1>3
  <2>2. O[i] = w \/ O[i] = Forwards(w)
    <3>1. i = 1 \/ i \in 2 .. Len(D)
      BY <1>1
    <3>2. QED
      BY <1>1, <3>1
  <2> HIDE DEF w
  <2>3. QED
    BY <2>1, <2>2, ForwardsIs DEF w
<1>6. QED
  BY <1>2, <1>3, <1>4, <1>5 DEF D, O

\* What a save writes of a route that may be saved: a document that loads again and may be
\* saved again, whose order, points and authored headings are the route's.
LEMMA SavedRouteLoads ==
  ASSUME NEW wps, NEW segs, IsRoute(wps, segs), Savable(wps, segs)
  PROVE  LET P == SavedPoints(wps, segs)
         IN /\ IsRoute(P, segs) /\ ValidWaypoints(P) /\ ValidSegments(segs, P)
            /\ Savable(P, segs) /\ DisplayRoute(P, segs) = DisplayRoute(wps, segs)
            /\ \A w \in ToSet(wps) : HeadingLocked(w) => Named(P, w.id).heading = w.heading
<1> DEFINE D == Driven(segs)
           O == Ordered(wps, segs)
           P == SavedPoints(wps, segs)
           n == Len(D)
           ids == [i \in DOMAIN O |-> O[i].id]
           tasks == [i \in DOMAIN O |-> O[i].task]
<1>1. /\ IsSequence(D) /\ IsSequence(O) /\ Len(O) = n /\ n \in Nat \ {0}
      /\ D[1] = segs[1].start_id /\ Last(D) = Last(segs).end_id
      /\ O[1] = Named(wps, D[1])
      /\ \A i \in 2 .. n : O[i] = Forwards(Named(wps, D[i]))
      /\ DOMAIN O = 1 .. n
  <2>1. ValidSegments(segs, wps)
    BY DEF Savable
  <2>2. QED
    BY <2>1, OrderedIs, ElementsAre
<1>2. /\ ValidWaypoints(O) /\ ValidSegments(segs, wps) /\ ToSet(D) = IdsOf(wps)
  BY OrderedPoints DEF Savable
<1>3. \A i \in 1 .. n :
        /\ D[i] \in IdsOf(wps) /\ Named(wps, D[i]) \in ToSet(wps)
        /\ IsWaypoint(O[i]) /\ O[i].id = D[i] /\ O[i].direction = "forward"
        /\ O[i].task = Named(wps, D[i]).task /\ O[i].heading = Named(wps, D[i]).heading
        /\ HeadingLocked(O[i]) <=> HeadingLocked(Named(wps, D[i]))
        /\ ParsesWaypoint(O[i]) /\ (HeadingLocked(O[i]) => O[i].heading # Open)
  BY OrderedPoints
<1> HIDE DEF D, O, n
<1>4. DOMAIN P = 1 .. n /\ \A i \in 1 .. n : P[i] = SavedPoint(O[i])
  BY <1>1 DEF SavedPoints, O
<1>5. P = [i \in 1 .. n |-> P[i]]
  BY <1>1 DEF SavedPoints, O
<1> HIDE DEF P
<1>6. IsSequence(P) /\ Len(P) = n
  BY <1>1, <1>4, <1>5, MapIsSequence
<1>7. \A i \in 1 .. n :
        /\ IsWaypoint(P[i]) /\ SameBut(P[i], O[i])
        /\ HeadingLocked(P[i]) <=> HeadingLocked(O[i])
        /\ P[i].heading = IF HeadingLocked(O[i]) THEN O[i].heading ELSE Open
  BY <1>3, <1>4, SavedPointIs
<1>8. \A i \in 2 .. n : Forwards(P[i]) = P[i]
  <2>1. SUFFICES ASSUME NEW i \in 2 .. n PROVE Forwards(P[i]) = P[i]
    OBVIOUS
  <2>2. i \in 1 .. n
    BY <1>1
  <2>3. IsWaypoint(Named(wps, D[i]))
    BY <1>3, <2>2 DEF IsRoute
  <2>4. P[i] = SavedPoint(Forwards(Named(wps, D[i])))
    BY <1>1, <1>4, <2>2
  <2>5. QED
    BY <2>3, <2>4, SavedStaysForward
<1>9. /\ [i \in DOMAIN P |-> P[i].id] = ids /\ [i \in DOMAIN P |-> P[i].task] = tasks
  BY <1>1, <1>4, <1>7 DEF SameBut
<1>10. Distinct(ids) /\ TasksInOrder(tasks)
  BY <1>2 DEF ValidWaypoints, InMissionOrder
<1>11. O[1].task = "start"
  <2>1. IsSequence(tasks)
    <3>1. DOMAIN tasks = 1 .. n /\ tasks = [i \in 1 .. n |-> tasks[i]]
      BY <1>1
    <3> HIDE DEF tasks
    <3>2. QED
      BY <1>1, <3>1, MapIsSequence
  <2>2. tasks[1] = "start"
    <3> HIDE DEF tasks
    <3>1. QED
      BY <1>10, <2>1, OrderStartsAtStart
  <2>3. 1 \in DOMAIN O
    BY <1>1
  <2>4. QED
    BY <2>2, <2>3
<1>12. HeadingLocked(O[1]) /\ O[1].pos = <<0, 0>> /\ O[1].heading = PlusX
  <2>1. 1 \in 1 .. n
    BY <1>1
  <2>2. IsWaypoint(O[1]) /\ ParsesWaypoint(O[1])
    BY <1>3, <2>1
  <2>3. HeadingLocked(O[1])
    BY <1>11, <2>2 DEF HeadingLocked, ParsesWaypoint, IsWaypoint, HeadingLockedTasks
  <2>4. QED
    BY <1>2, <2>3 DEF ValidWaypoints
<1>13. ASSUME NEW i \in 1 .. n
       PROVE  ParsesWaypoint(P[i]) /\ (HeadingLocked(P[i]) => P[i].heading # Open)
  <2>1. /\ ParsesWaypoint(O[i]) /\ (HeadingLocked(O[i]) => O[i].heading # Open)
        /\ SameBut(P[i], O[i]) /\ (HeadingLocked(P[i]) <=> HeadingLocked(O[i]))
        /\ P[i].heading = IF HeadingLocked(O[i]) THEN O[i].heading ELSE Open
    BY <1>3, <1>7
  <2>2. P[i].heading \in Unit \cup {Open}
    BY <2>1 DEF ParsesWaypoint
  <2>3. ParsesWaypoint(P[i])
    BY <2>1, <2>2 DEF ParsesWaypoint, SameBut
  <2>4. QED
    BY <2>1, <2>3
<1>14. \A w \in ToSet(P) : \E i \in 1 .. n : w = P[i]
  BY <1>6, ElementsAre
<1>15. ValidWaypoints(P)
  <2>1. \A w \in ToSet(P) : ParsesWaypoint(w) /\ (HeadingLocked(w) => w.heading # Open)
    BY <1>13, <1>14
  <2>2. Distinct([i \in DOMAIN P |-> P[i].id]) /\ InMissionOrder(P)
    BY <1>9, <1>10 DEF InMissionOrder
  <2>3. P[1].pos = <<0, 0>> /\ P[1].heading = PlusX
    BY <1>1, <1>7, <1>12 DEF SameBut
  <2>4. QED
    BY <2>1, <2>2, <2>3 DEF ValidWaypoints
<1>16. IsRoute(P, segs)
  BY <1>6, <1>7, <1>14 DEF IsRoute
<1>17. \A i \in 1 .. n : P[i].id = D[i] /\ Named(P, D[i]) = P[i]
  <2>1. \A i \in 1 .. n : P[i].id = D[i]
    BY <1>3, <1>7 DEF SameBut
  <2>2. \A i \in 1 .. n : Named(P, P[i].id) = P[i]
    BY <1>6, <1>9, <1>10, NamedIs
  <2>3. QED
    BY <2>1, <2>2
<1>18. \A id \in IdsOf(wps) : \E i \in 1 .. n : id = D[i]
  BY <1>1, <1>2, ElementsAre DEF n
<1>19. IdsOf(P) = IdsOf(wps)
  <2>1. \A i \in 1 .. n : P[i] \in ToSet(P)
    BY <1>6, ElementsAre
  <2>2. ASSUME NEW id \in IdsOf(P) PROVE id \in IdsOf(wps)
    BY <1>3, <1>14, <1>17, <2>2 DEF IdsOf
  <2>3. ASSUME NEW id \in IdsOf(wps) PROVE id \in IdsOf(P)
    BY <1>17, <1>18, <2>1 DEF IdsOf
  <2>4. QED
    BY <2>2, <2>3
<1>20. \A id \in IdsOf(wps) : Named(P, id).task = Named(wps, id).task
  BY <1>3, <1>7, <1>17, <1>18 DEF SameBut
<1>21. ASSUME NEW s \in ToSet(segs) PROVE ValidSegment(s, P)
  <2>1. ValidSegment(s, wps)
    BY <1>2 DEF ValidSegments
  <2>2. /\ ToSet(RouteIds(s)) \subseteq IdsOf(wps)
        /\ s.end_id \in IdsOf(wps) /\ ToSet(s.through_ids) \subseteq IdsOf(wps)
    <3>1. IsSegment(s) /\ ToSet(RouteIds(s)) \subseteq IdsOf(wps)
      BY <2>1 DEF IsRoute, ValidSegment
    <3>2. /\ s.end_id \in ToSet(RouteIds(s))
          /\ ToSet(s.through_ids) \subseteq ToSet(RouteIds(s))
      BY <3>1, RouteIdsHold
    <3>3. QED
      BY <3>1, <3>2
  <2>3. QED
    BY <1>19, <1>20, <2>1, <2>2 DEF ValidSegment
<1>22. Last(P).id = Last(segs).end_id /\ segs[1].start_id = P[1].id /\ P # <<>>
  <2>1. n \in 1 .. n /\ 1 \in 1 .. n
    BY <1>1
  <2>2. Last(P).id = Last(D) /\ P[1].id = D[1]
    BY <1>6, <1>17, <2>1 DEF Last, n
  <2>3. P # <<>>
    BY <1>1, <1>6, ElementsAre
  <2>4. QED
    BY <1>1, <2>2, <2>3
<1>23. ASSUME NEW w \in ToSet(P)
       PROVE  /\ w.task \in {"qr", "vlm"} => w.id \in {s.end_id : s \in ToSet(segs)}
              /\ w.task = "start" => w.id = segs[1].start_id
              /\ w.task = "return" => w.id = Last(segs).end_id
  <2>1. PICK i \in 1 .. n : w = P[i]
    BY <1>14
  <2> DEFINE v == Named(wps, D[i])
  <2>2. v \in ToSet(wps) /\ w.task = v.task /\ w.id = D[i]
    BY <1>3, <1>7, <1>17, <2>1 DEF SameBut
  <2>3. v.id = D[i]
    BY <1>3, NamedExists
  <2> HIDE DEF v
  <2>4. /\ v.task \in {"qr", "vlm"} => v.id \in {s.end_id : s \in ToSet(segs)}
        /\ v.task = "start" => v.id = segs[1].start_id
        /\ v.task = "return" => v.id = Last(segs).end_id
    BY <1>2, <2>2 DEF ValidSegments
  <2>5. QED
    BY <2>2, <2>3, <2>4
<1>24. ValidSegments(segs, P)
  <2>1. /\ segs # <<>> /\ Distinct([k \in DOMAIN segs |-> segs[k].id])
        /\ \A k \in 2 .. Len(segs) : segs[k].start_id = segs[k-1].end_id
        /\ Distinct(D) /\ ToSet(D) = IdsOf(P)
    BY <1>2, <1>19 DEF ValidSegments, D, Driven
  <2>2. Distinct([i \in DOMAIN P |-> P[i].id])
    BY <1>9, <1>10
  <2> HIDE DEF ids, tasks
  <2>3. QED
    BY <1>21, <1>22, <1>23, <2>1, <2>2 DEF ValidSegments, D, Driven
<1> DEFINE Q == Ordered(P, segs)
<1>25. Q = P
  <2>1. /\ IsSequence(Q) /\ Len(Q) = n /\ Q[1] = Named(P, D[1])
        /\ \A i \in 2 .. n : Q[i] = Forwards(Named(P, D[i]))
    BY <1>16, <1>24, OrderedIs DEF D, n
  <2>2. \A i \in 1 .. n : Q[i] = P[i]
    <3>1. SUFFICES ASSUME NEW i \in 1 .. n PROVE Q[i] = P[i]
      OBVIOUS
    <3>2. i = 1 \/ i \in 2 .. n
      BY <1>1
    <3> HIDE DEF Q
    <3>3. QED
      BY <1>8, <1>17, <2>1, <3>2
  <2> HIDE DEF Q
  <2>3. Q = [i \in 1 .. n |-> Q[i]]
    <3>1. Q \in Seq(ToSet(Q))
      BY <2>1 DEF IsSequence
    <3>2. Q \in [1 .. n -> ToSet(Q)]
      BY <2>1, <3>1, LenProperties
    <3>3. QED
      BY <3>2
  <2>4. QED
    BY <1>5, <2>2, <2>3
<1>26. Savable(P, segs)
  BY <1>15, <1>24, <1>25 DEF Savable
<1>27. DisplayRoute(P, segs) = DisplayRoute(wps, segs)
  <2>1. DisplayRoute(wps, segs) = [i \in DOMAIN O |-> <<O[i].id, O[i].pos>>]
    BY <1>2 DEF DisplayRoute, O
  <2>2. DisplayRoute(P, segs) = [i \in DOMAIN P |-> <<P[i].id, P[i].pos>>]
    BY <1>24, <1>25 DEF DisplayRoute
  <2>3. QED
    BY <1>1, <1>4, <1>7, <2>1, <2>2 DEF SameBut
<1>28. ASSUME NEW w \in ToSet(wps), HeadingLocked(w)
       PROVE  Named(P, w.id).heading = w.heading
  <2>1. w.id \in IdsOf(wps)
    BY DEF IdsOf
  <2>2. PICK i \in 1 .. n : w.id = D[i]
    BY <1>18, <2>1
  <2>3. Named(wps, w.id) = w
    <3>1. IsSequence(wps) /\ Distinct([j \in DOMAIN wps |-> wps[j].id])
      BY <1>2 DEF IsRoute, ValidSegments
    <3>2. PICK j \in 1 .. Len(wps) : w = wps[j]
      BY <3>1, ElementsAre
    <3>3. QED
      BY <3>1, <3>2, NamedIs
  <2>4. QED
    BY <1>3, <1>7, <1>17, <1>28, <2>2, <2>3
<1>29. QED
  BY <1>15, <1>16, <1>24, <1>26, <1>27, <1>28 DEF P

-----------------------------------------------------------------------------
(* What the handlers share. *)

Fields == {"open", "valid", "selected", "segment", "through", "pick", "adding", "dragging",
           "moved", "preview", "panning"}

(* The indices of an editor's fields lie within a route. *)
IndicesLie(u, wps, segs) ==
  /\ u.segment \in DOMAIN segs
  /\ u.selected \in {None} \cup DOMAIN wps
  /\ u.dragging \in {None} \cup DOMAIN wps
  /\ u.through \in {None} \cup DOMAIN segs[u.segment].through_ids

\* What the invariant says of an open editor.
LEMMA OpenIs ==
  ASSUME EditorInvariant, ui.open
  PROVE  /\ DOMAIN ui = Fields /\ ui.open = TRUE /\ IsRoute(waypoints, segments)
         /\ segments # <<>> /\ IndicesLie(ui, waypoints, segments)
         /\ Len(waypoints) \in Nat /\ DOMAIN waypoints = 1 .. Len(waypoints)
         /\ Len(segments) \in Nat \ {0} /\ DOMAIN segments = 1 .. Len(segments)
         /\ \A i \in DOMAIN waypoints : IsWaypoint(waypoints[i])
         /\ \A k \in DOMAIN segments : IsSegment(segments[k])
         /\ IsSegment(Current) /\ IsSequence(Current.through_ids)
         /\ DOMAIN Current.through_ids = 1 .. Len(Current.through_ids)
         /\ Len(Current.through_ids) \in Nat
<1>1. /\ DOMAIN ui = Fields /\ ui.open = TRUE /\ IsRoute(waypoints, segments) /\ segments # <<>>
  BY DEF EditorInvariant, EditorTyped, IdleUi, Fields
<1>2. IndicesLie(ui, waypoints, segments)
  BY DEF EditorInvariant, IndicesFollow, IndicesLie, Current
<1>3. /\ Len(waypoints) \in Nat /\ DOMAIN waypoints = 1 .. Len(waypoints)
      /\ Len(segments) \in Nat \ {0} /\ DOMAIN segments = 1 .. Len(segments)
      /\ \A i \in DOMAIN waypoints : IsWaypoint(waypoints[i])
      /\ \A k \in DOMAIN segments : IsSegment(segments[k])
  BY <1>1, ElementsAre DEF IsRoute
<1>4. IsSegment(Current)
  BY <1>2, <1>3 DEF Current, IndicesLie
<1>5. IsSequence(Current.through_ids)
  BY <1>4 DEF IsSegment
<1>6. QED
  BY <1>1, <1>2, <1>3, <1>4, <1>5, ElementsAre

(* What holds of the history and of the number of edits in every state. *)
HistoryIs(h, n) ==
  /\ n \in Nat /\ IsSequence(h) /\ Len(h) <= n
  /\ \A e \in ToSet(h) : e = <<e[1], e[2]>> /\ IsRoute(e[1], e[2]) /\ e[2] # <<>>

\* The history of the invariant.
LEMMA HistoryOf ==
  ASSUME EditorInvariant
  PROVE  HistoryIs(history, edits)
  BY DEF EditorInvariant, EditorTyped, HistoryFollows, HistoryIs

\* An entry pushed on the history is not lost: there is one, and the first stays the first
\* as long as the limit is not exceeded.
LEMMA PushKeeps ==
  ASSUME EditorInvariant, ui.open, Push, file' = file
  PROVE  /\ HistoryIs(history', edits') /\ history' # <<>>
         /\ edits' <= HistoryLimit => history'[1] = <<file.waypoints, file.segments>>
<1> DEFINE e == <<waypoints, segments>>
           longer == Append(history, e)
<1>1. /\ edits \in Nat /\ IsSequence(history) /\ Len(history) <= edits /\ Len(history) \in Nat
      /\ \A x \in ToSet(history) : x = <<x[1], x[2]>> /\ IsRoute(x[1], x[2]) /\ x[2] # <<>>
      /\ edits' = edits + 1 /\ history' = Pushed(history)
  BY HistoryOf, ElementsAre DEF HistoryIs, Push
<1>2. e = <<e[1], e[2]>> /\ IsRoute(e[1], e[2]) /\ e[2] # <<>>
  BY OpenIs
<1>3. EditsAreUndoable
  BY DEF EditorInvariant
<1>4. HistoryLimit \in Nat \ {0}
  BY EditorAssumption
<1>5. Pushed(history) = IF Len(longer) > HistoryLimit THEN Tail(longer) ELSE longer
  BY DEF Pushed
<1> HIDE DEF longer
<1>6. /\ IsSequence(longer) /\ Len(longer) = Len(history) + 1
      /\ ToSet(longer) \subseteq ToSet(history) \cup {e}
      /\ \A i \in 1 .. Len(history) : longer[i] = history[i]
      /\ longer[Len(history) + 1] = e
  BY <1>1, AppendIs DEF longer
<1>7. CASE Len(longer) > HistoryLimit
  <2>1. longer # <<>>
    BY <1>1, <1>6, ElementsAre
  <2>2. /\ IsSequence(Tail(longer)) /\ Len(Tail(longer)) = Len(longer) - 1
        /\ ToSet(Tail(longer)) \subseteq ToSet(longer)
    BY <1>6, <2>1, TailIs
  <2>3. Len(history') = Len(history) /\ Len(history) # 0 /\ Len(history) >= HistoryLimit
    BY <1>1, <1>4, <1>5, <1>6, <1>7, <2>2
  <2>4. history' # <<>> /\ HistoryIs(history', edits')
    <3>1. history' = Tail(longer)
      BY <1>1, <1>5, <1>7
    <3>2. history' # <<>>
      BY <2>2, <2>3, <3>1, ElementsAre
    <3> HIDE DEF e
    <3>3. QED
      BY <1>1, <1>2, <1>6, <2>2, <2>3, <3>1, <3>2 DEF HistoryIs
  <2>5. ~ (edits' <= HistoryLimit)
    BY <1>1, <1>4, <2>3
  <2>6. QED
    BY <2>4, <2>5
<1>8. CASE ~ (Len(longer) > HistoryLimit)
  <2>1. history' = longer
    BY <1>1, <1>5, <1>8
  <2>2. longer # <<>>
    BY <1>1, <1>6, ElementsAre
  <2>3. HistoryIs(longer, edits')
    <3> HIDE DEF e
    <3>1. QED
      BY <1>1, <1>2, <1>6 DEF HistoryIs
  <2>4. ASSUME edits' <= HistoryLimit PROVE longer[1] = <<file.waypoints, file.segments>>
    <3>1. edits <= HistoryLimit
      BY <1>1, <1>4, <2>4
    <3>2. CASE history = <<>>
      <4>1. e = <<file.waypoints, file.segments>>
        BY <1>3, <3>1, <3>2 DEF EditsAreUndoable
      <4>2. Len(history) = 0
        BY <3>2
      <4>3. QED
        BY <1>6, <4>1, <4>2
    <3>3. CASE history # <<>>
      <4>1. history[1] = <<file.waypoints, file.segments>>
        BY <1>3, <3>1, <3>3 DEF EditsAreUndoable
      <4>2. 1 \in 1 .. Len(history)
        BY <1>1, <3>3, ElementsAre
      <4>3. QED
        BY <1>6, <4>1, <4>2
    <3>4. QED
      BY <3>2, <3>3
  <2>5. QED
    BY <2>1, <2>2, <2>3, <2>4
<1>9. QED
  BY <1>7, <1>8

\* An event that leaves the route alone.
LEMMA UiKeeps ==
  ASSUME EditorInvariant, ui.open, temp = NoFile,
         UNCHANGED <<file, temp, waypoints, segments>>,
         DOMAIN ui' = Fields, ui'.open = TRUE, ui'.valid = ui.valid,
         IndicesLie(ui', waypoints, segments), HistoryIs(history', edits'),
         ui'.dragging # None /\ ui'.moved => history' # <<>>,
         edits' <= HistoryLimit =>
           (IF history' = <<>> THEN <<waypoints, segments>> ELSE history'[1])
             = <<file.waypoints, file.segments>>
  PROVE  EditorInvariant'
<1>1. EditorTyped'
  BY DEF EditorInvariant, EditorTyped, HistoryIs, IdleUi, Fields
<1>2. IndicesFollow'
  BY DEF IndicesFollow, IndicesLie, Current
<1>3. HistoryFollows' /\ SaveFollows'
  BY DEF EditorInvariant, HistoryFollows, HistoryIs, SaveFollows
<1>4. StatusIsTrue' /\ EditsAreUndoable'
  BY DEF EditorInvariant, StatusIsTrue, EditsAreUndoable
<1>5. QED
  BY <1>1, <1>2, <1>3, <1>4 DEF EditorInvariant

\* An event that changes the fields of the window alone.
LEMMA OnlyUiKeeps ==
  ASSUME EditorInvariant, ui.open, temp = NoFile,
         UNCHANGED <<file, temp, waypoints, segments, history, edits>>,
         DOMAIN ui' = Fields, ui'.open = TRUE, ui'.valid = ui.valid,
         IndicesLie(ui', waypoints, segments),
         ui'.dragging # None /\ ui'.moved => history # <<>>
  PROVE  EditorInvariant'
<1>1. HistoryIs(history', edits')
  BY HistoryOf
<1>2. edits' <= HistoryLimit =>
        (IF history' = <<>> THEN <<waypoints, segments>> ELSE history'[1])
          = <<file.waypoints, file.segments>>
  BY DEF EditorInvariant, EditsAreUndoable
<1>3. QED
  BY <1>1, <1>2, UiKeeps

\* A change of the route with the status worked out again, behind an entry in the history
\* that leads back to the document on disk.
LEMMA MarkChangedKeeps ==
  ASSUME temp' = NoFile, NEW newUi, NEW wps, NEW segs, MarkChanged(newUi, wps, segs),
         IsRoute(file'.waypoints, file'.segments),
         DOMAIN newUi = Fields, newUi.open = TRUE, IndicesLie(newUi, wps, segs),
         IsRoute(wps, segs), segs # <<>>, HistoryIs(history', edits'),
         newUi.dragging = None \/ history' # <<>>,
         edits' <= HistoryLimit =>
           (IF history' = <<>> THEN <<wps, segs>> ELSE history'[1])
             = <<file'.waypoints, file'.segments>>
  PROVE  EditorInvariant'
<1>1. waypoints' = wps /\ segments' = segs
  BY DEF MarkChanged
<1>2. PICK v \in BOOLEAN : v <=> Savable(wps, segs)
  OBVIOUS
<1>3. v = Savable(wps, segs)
  BY <1>2 DEF Savable
<1>4. ui' = [newUi EXCEPT !.valid = v, !.preview = Nowhere]
  BY <1>3 DEF MarkChanged
<1>5. /\ DOMAIN ui' = Fields /\ ui'.open = TRUE /\ ui'.valid = v
      /\ ui'.segment = newUi.segment /\ ui'.selected = newUi.selected
      /\ ui'.dragging = newUi.dragging /\ ui'.through = newUi.through
  BY <1>4 DEF Fields
<1>6. EditorTyped'
  BY <1>1, <1>5 DEF EditorTyped, IdleUi, Fields, HistoryIs
<1>7. IndicesFollow'
  BY <1>1, <1>5 DEF IndicesFollow, IndicesLie, Current
<1>8. HistoryFollows' /\ SaveFollows'
  BY <1>5 DEF HistoryFollows, HistoryIs, SaveFollows
<1>9. StatusIsTrue'
  BY <1>1, <1>2, <1>5 DEF StatusIsTrue
<1>10. EditsAreUndoable'
  BY <1>1 DEF EditsAreUndoable
<1>11. QED
  BY <1>6, <1>7, <1>8, <1>9, <1>10 DEF EditorInvariant

\* An edit: pushed, then changed.
LEMMA EditKeeps ==
  ASSUME EditorInvariant, Edit, Push,
         NEW newUi, NEW wps, NEW segs, MarkChanged(newUi, wps, segs),
         DOMAIN newUi = Fields, newUi.open = TRUE, IndicesLie(newUi, wps, segs),
         IsRoute(wps, segs), segs # <<>>
  PROVE  EditorInvariant'
<1>1. ui.open /\ temp' = NoFile /\ file' = file
  BY DEF Edit, Event, NotSaving
<1>2. /\ HistoryIs(history', edits') /\ history' # <<>>
      /\ edits' <= HistoryLimit => history'[1] = <<file.waypoints, file.segments>>
  BY <1>1, PushKeeps
<1>3. IsRoute(file'.waypoints, file'.segments)
  BY <1>1 DEF EditorInvariant, EditorTyped
<1>4. QED
  BY <1>1, <1>2, <1>3, MarkChangedKeeps

\* One segment changed.
LEMMA SegmentChanged ==
  ASSUME NEW wps, NEW segs, IsRoute(wps, segs), segs # <<>>,
         NEW k \in DOMAIN segs, NEW s, IsSegment(s)
  PROVE  LET t == [segs EXCEPT ![k] = s]
         IN /\ IsRoute(wps, t) /\ t # <<>> /\ DOMAIN t = DOMAIN segs /\ t[k] = s
<1> DEFINE t == [segs EXCEPT ![k] = s]
<1>1. IsSequence(segs) /\ \A x \in ToSet(segs) : IsSegment(x)
  BY DEF IsRoute
<1>2. /\ IsSequence(t) /\ Len(t) = Len(segs) /\ DOMAIN t = DOMAIN segs
      /\ ToSet(t) \subseteq ToSet(segs) \cup {s} /\ t[k] = s
  BY <1>1, ExceptIs
<1> HIDE DEF t
<1>3. t # <<>>
  BY <1>1, <1>2, ElementsAre
<1>4. IsRoute(wps, t)
  BY <1>1, <1>2 DEF IsRoute
<1>5. QED
  BY <1>2, <1>3, <1>4 DEF t

\* One point changed.
LEMMA PointChanged ==
  ASSUME NEW wps, NEW segs, IsRoute(wps, segs), NEW i, NEW w, IsWaypoint(w)
  PROVE  LET t == [wps EXCEPT ![i] = w]
         IN IsRoute(t, segs) /\ DOMAIN t = DOMAIN wps
<1> DEFINE t == [wps EXCEPT ![i] = w]
<1>1. IsSequence(wps) /\ \A x \in ToSet(wps) : IsWaypoint(x)
  BY DEF IsRoute
<1>2. /\ IsSequence(t) /\ DOMAIN t = DOMAIN wps /\ ToSet(t) \subseteq ToSet(wps) \cup {w}
  BY <1>1, ExceptIs
<1> HIDE DEF t
<1>3. QED
  BY <1>1, <1>2 DEF IsRoute, t

\* A name left out of a list.
LEMMA WithoutIs ==
  ASSUME NEW ids, IsSequence(ids), NEW id
  PROVE  IsSequence(Without(ids, id))
<1> DEFINE n == Len(ids)
           X == Seq(ToSet(ids))
           step == [p \in (1 .. n) \X X |->
                      IF ids[p[1]] = id THEN p[2] ELSE Append(p[2], ids[p[1]])]
           Body(g) == [i \in 0 .. n |-> IF i = 0 THEN <<>> ELSE
                         IF ids[i] = id THEN g[i-1] ELSE Append(g[i-1], ids[i])]
           kept == CHOOSE kept : kept = Body(kept)
<1>1. n \in Nat /\ \A i \in 1 .. n : ids[i] \in ToSet(ids)
  BY ElementsAre
<1>2. PICK f : f = Body(f) /\ f \in [0 .. n -> X]
  <2>1. step \in [(1 .. n) \X X -> X]
    <3>1. SUFFICES ASSUME NEW i \in 1 .. n, NEW x \in X
                   PROVE  (IF ids[i] = id THEN x ELSE Append(x, ids[i])) \in X
      OBVIOUS
    <3>2. QED
      BY <1>1, AppendProperties
  <2>2. <<>> \in X
    BY EmptySeq
  <2> HIDE DEF step, n, X
  <2>3. PICK f : Recurs(f, n, X, <<>>, step)
    BY <1>1, <2>1, <2>2, RecursionExists
  <2>4. ASSUME NEW i \in 0 .. n
        PROVE  f[i] = IF i = 0 THEN <<>> ELSE
                      IF ids[i] = id THEN f[i-1] ELSE Append(f[i-1], ids[i])
    <3>1. CASE i = 0
      BY <2>3, <3>1 DEF Recurs
    <3>2. CASE i # 0
      <4>1. i \in 1 .. n /\ i - 1 \in 0 .. n
        BY <1>1, <3>2
      <4>2. f[i] = step[<<i, f[i-1]>>] /\ f[i-1] \in X
        BY <2>3, <4>1 DEF Recurs
      <4>3. step[<<i, f[i-1]>>] = IF ids[i] = id THEN f[i-1] ELSE Append(f[i-1], ids[i])
        BY <4>1, <4>2 DEF step
      <4>4. QED
        BY <3>2, <4>2, <4>3
    <3>3. QED
      BY <3>1, <3>2
  <2>5. f = [i \in 0 .. n |-> f[i]] /\ f \in [0 .. n -> X]
    BY <2>3 DEF Recurs
  <2>6. f = Body(f)
    BY <2>4, <2>5
  <2>7. QED
    BY <2>5, <2>6
<1>3. kept = Body(kept)
  <2> HIDE DEF Body
  <2>1. QED
    BY <1>2
<1>4. Without(ids, id) = kept[n]
  BY DEF Without
<1> HIDE DEF kept, n
<1> DEFINE Good == {m \in Nat : m <= n => kept[m] \in X}
<1>5. 0 \in Good
  <2>1. kept[0] = <<>>
    BY <1>1, <1>3
  <2>2. QED
    BY <2>1, EmptySeq
<1>6. ASSUME NEW m \in Nat, m \in Good PROVE m + 1 \in Good
  <2>1. SUFFICES ASSUME m + 1 <= n PROVE kept[m + 1] \in X
    OBVIOUS
  <2>2. m + 1 \in 1 .. n /\ m + 1 \in 0 .. n /\ (m + 1) - 1 = m /\ m <= n /\ m + 1 # 0
    BY <1>1, <2>1
  <2>3. kept[m] \in X
    BY <1>6, <2>2
  <2>4. kept[m + 1] = IF ids[m + 1] = id THEN kept[m] ELSE Append(kept[m], ids[m + 1])
    BY <1>3, <2>2
  <2>5. ids[m + 1] \in ToSet(ids)
    BY <1>1, <2>2
  <2>6. QED
    BY <2>3, <2>4, <2>5, AppendProperties
<1> HIDE DEF Good
<1>7. n \in Good
  BY <1>1, <1>5, <1>6, Induction
<1>8. kept[n] \in Seq(ToSet(ids))
  BY <1>1, <1>7 DEF Good
<1>9. QED
  BY <1>4, <1>8, SequenceIs

\* A name left out of every segment.
LEMMA ClearedIs ==
  ASSUME NEW wps, NEW segs, IsRoute(wps, segs), segs # <<>>, NEW id
  PROVE  LET t == [k \in DOMAIN segs |->
                     [segs[k] EXCEPT !.through_ids = Without(@, id)]]
         IN /\ IsRoute(wps, t) /\ t # <<>> /\ DOMAIN t = DOMAIN segs
            /\ \A k \in DOMAIN t : IsSegment(t[k])
<1> DEFINE s(k) == [segs[k] EXCEPT !.through_ids = Without(@, id)]
           t == [k \in DOMAIN segs |-> s(k)]
<1>1. /\ IsSequence(segs) /\ IsSequence(wps) /\ \A x \in ToSet(wps) : IsWaypoint(x)
      /\ Len(segs) \in Nat \ {0} /\ DOMAIN segs = 1 .. Len(segs)
      /\ \A k \in DOMAIN segs : IsSegment(segs[k])
  BY ElementsAre DEF IsRoute
<1>2. ASSUME NEW k \in DOMAIN segs PROVE IsSegment(s(k))
  <2>1. IsSegment(segs[k]) /\ IsSequence(segs[k].through_ids)
    BY <1>1 DEF IsSegment
  <2> DEFINE ids == Without(segs[k].through_ids, id)
  <2>2. IsSequence(ids)
    BY <2>1, WithoutIs
  <2> HIDE DEF ids
  <2>3. IsSegment([segs[k] EXCEPT !.through_ids = ids])
    BY <2>1, <2>2 DEF IsSegment
  <2>4. QED
    BY <2>3 DEF ids
<1>3. /\ DOMAIN t = 1 .. Len(segs) /\ \A k \in DOMAIN segs : t[k] = s(k)
      /\ t = [k \in 1 .. Len(segs) |-> t[k]]
  BY <1>1
<1> HIDE DEF s, t
<1>4. IsSequence(t) /\ Len(t) = Len(segs)
  BY <1>1, <1>3, MapIsSequence
<1>5. \A k \in DOMAIN t : IsSegment(t[k])
  BY <1>1, <1>2, <1>3
<1>6. IsRoute(wps, t) /\ t # <<>>
  BY <1>1, <1>3, <1>4, <1>5, ElementsAre DEF IsRoute
<1>7. QED
  BY <1>1, <1>3, <1>5, <1>6 DEF s, t

-----------------------------------------------------------------------------
(* The route panel. *)

LEMMA SegmentSelectedKeeps ==
  ASSUME EditorInvariant, NEW k \in DOMAIN segments, SegmentSelected(k)
  PROVE  EditorInvariant'
<1>1. /\ ui.open /\ temp = NoFile
      /\ UNCHANGED <<file, temp, waypoints, segments, history, edits>>
  BY DEF OnlyUi, SegmentSelected, Event, NotSaving
<1>2. DOMAIN ui = Fields /\ ui.open = TRUE /\ IndicesLie(ui, waypoints, segments)
  BY <1>1, OpenIs
<1>3. ui' = [ui EXCEPT !.segment = k, !.through = None, !.pick = "none", !.preview = Nowhere]
  BY DEF SegmentSelected
<1>4. /\ DOMAIN ui' = Fields /\ ui'.open = TRUE /\ ui'.valid = ui.valid /\ ui'.segment = k
      /\ ui'.selected = ui.selected /\ ui'.dragging = ui.dragging /\ ui'.through = None
      /\ ui'.moved = ui.moved
  BY <1>2, <1>3 DEF Fields
<1>5. IndicesLie(ui', waypoints, segments)
  BY <1>2, <1>4 DEF IndicesLie
<1>6. ui'.dragging # None /\ ui'.moved => history # <<>>
  BY <1>1, <1>4 DEF EditorInvariant, HistoryFollows
<1>7. QED
  BY <1>1, <1>4, <1>5, <1>6, OnlyUiKeeps

\* The buttons for the direction of the segment (_on_direction_selected).
LEMMA DirectionSelectedKeeps ==
  ASSUME EditorInvariant, NEW direction, DirectionSelected(direction)
  PROVE  EditorInvariant'
<1> DEFINE s == [Current EXCEPT !.direction = direction]
           t == [segments EXCEPT ![ui.segment] = s]
<1>1. Edit /\ Push /\ ui.open
  BY DEF DirectionSelected, Edit, Event
<1>2. MarkChanged(ui, waypoints, t)
  BY DEF DirectionSelected, Current
<1>3. /\ DOMAIN ui = Fields /\ ui.open = TRUE /\ IndicesLie(ui, waypoints, segments)
      /\ IsRoute(waypoints, segments) /\ segments # <<>> /\ IsSegment(Current)
  BY <1>1, OpenIs
<1>4. IsSegment(s) /\ s.through_ids = Current.through_ids
  BY <1>3 DEF IsSegment
<1> HIDE DEF s
<1>5. ui.segment \in DOMAIN segments
  BY <1>3 DEF IndicesLie
<1>6. IsRoute(waypoints, t) /\ t # <<>> /\ DOMAIN t = DOMAIN segments /\ t[ui.segment] = s
  BY <1>3, <1>4, <1>5, SegmentChanged
<1> HIDE DEF t
<1>7. IndicesLie(ui, waypoints, t)
  BY <1>3, <1>4, <1>6 DEF IndicesLie, Current
<1>8. QED
  BY <1>1, <1>2, <1>3, <1>6, <1>7, EditKeeps

\* The buttons that let the next click choose an end (_set_pick_target).
LEMMA SetPickTargetKeeps ==
  ASSUME EditorInvariant, NEW target, SetPickTarget(target)
  PROVE  EditorInvariant'
<1>1. /\ ui.open /\ temp = NoFile
      /\ UNCHANGED <<file, temp, waypoints, segments, history, edits>>
      /\ ui' = [ui EXCEPT !.pick = target]
  BY DEF OnlyUi, SetPickTarget, Event, NotSaving
<1>2. DOMAIN ui = Fields /\ ui.open = TRUE /\ IndicesLie(ui, waypoints, segments)
  BY <1>1, OpenIs
<1>3. /\ DOMAIN ui' = Fields /\ ui'.open = TRUE /\ ui'.valid = ui.valid
      /\ ui'.segment = ui.segment /\ ui'.selected = ui.selected
      /\ ui'.dragging = ui.dragging /\ ui'.through = ui.through /\ ui'.moved = ui.moved
  BY <1>1, <1>2 DEF Fields
<1>4. IndicesLie(ui', waypoints, segments)
  BY <1>2, <1>3 DEF IndicesLie
<1>5. ui'.dragging # None /\ ui'.moved => history # <<>>
  BY <1>1, <1>3 DEF EditorInvariant, HistoryFollows
<1>6. QED
  BY <1>1, <1>3, <1>4, <1>5, OnlyUiKeeps

\* The button that lets the next click add a through point (_begin_add_through).
LEMMA BeginAddThroughKeeps ==
  ASSUME EditorInvariant, BeginAddThrough
  PROVE  EditorInvariant'
<1>1. /\ ui.open /\ temp = NoFile
      /\ UNCHANGED <<file, temp, waypoints, segments, history, edits>>
  BY DEF OnlyUi, BeginAddThrough, Event, NotSaving
<1>2. DOMAIN ui = Fields /\ ui.open = TRUE /\ IndicesLie(ui, waypoints, segments)
  BY <1>1, OpenIs
<1> DEFINE a == ~ ui.adding
           p == IF ui.adding THEN ui.pick ELSE "none"
<1>3. ui' = [ui EXCEPT !.adding = a, !.pick = p]
  BY DEF BeginAddThrough
<1> HIDE DEF a, p
<1>4. /\ DOMAIN ui' = Fields /\ ui'.open = TRUE /\ ui'.valid = ui.valid
      /\ ui'.segment = ui.segment /\ ui'.selected = ui.selected
      /\ ui'.dragging = ui.dragging /\ ui'.through = ui.through /\ ui'.moved = ui.moved
  BY <1>2, <1>3 DEF Fields
<1>5. IndicesLie(ui', waypoints, segments)
  BY <1>2, <1>4 DEF IndicesLie
<1>6. ui'.dragging # None /\ ui'.moved => history # <<>>
  BY <1>1, <1>4 DEF EditorInvariant, HistoryFollows
<1>7. QED
  BY <1>1, <1>4, <1>5, <1>6, OnlyUiKeeps

\* The list of through points (_on_through_selected).
LEMMA ThroughSelectedKeeps ==
  ASSUME EditorInvariant, NEW j \in DOMAIN Current.through_ids, ThroughSelected(j)
  PROVE  EditorInvariant'
<1>1. /\ ui.open /\ temp = NoFile
      /\ UNCHANGED <<file, temp, waypoints, segments, history, edits>>
      /\ ui' = [ui EXCEPT !.through = j]
  BY DEF OnlyUi, ThroughSelected, Event, NotSaving
<1>2. DOMAIN ui = Fields /\ ui.open = TRUE /\ IndicesLie(ui, waypoints, segments)
  BY <1>1, OpenIs
<1>3. /\ DOMAIN ui' = Fields /\ ui'.open = TRUE /\ ui'.valid = ui.valid
      /\ ui'.segment = ui.segment /\ ui'.selected = ui.selected
      /\ ui'.dragging = ui.dragging /\ ui'.through = j /\ ui'.moved = ui.moved
  BY <1>1, <1>2 DEF Fields
<1>4. IndicesLie(ui', waypoints, segments)
  BY <1>2, <1>3 DEF IndicesLie, Current
<1>5. ui'.dragging # None /\ ui'.moved => history # <<>>
  BY <1>1, <1>3 DEF EditorInvariant, HistoryFollows
<1>6. QED
  BY <1>1, <1>3, <1>4, <1>5, OnlyUiKeeps

\* The selected waypoint becomes a through point (_add_selected_through).
LEMMA AddSelectedThroughKeeps ==
  ASSUME EditorInvariant, AddSelectedThrough
  PROVE  EditorInvariant'
<1> DEFINE id == waypoints[ui.selected].id
           cleared == [k \in DOMAIN segments |->
                         [segments[k] EXCEPT !.through_ids = Without(@, id)]]
           old == cleared[ui.segment].through_ids
           s == [cleared[ui.segment] EXCEPT !.through_ids = Append(@, id)]
           t == [cleared EXCEPT ![ui.segment] = s]
           u == [ui EXCEPT !.through = Len(old) + 1]
<1>1. Edit /\ Push /\ ui.open
  BY DEF AddSelectedThrough, Edit, Event
<1>2. MarkChanged(u, waypoints, t)
  BY DEF AddSelectedThrough
<1>3. /\ DOMAIN ui = Fields /\ ui.open = TRUE /\ IndicesLie(ui, waypoints, segments)
      /\ IsRoute(waypoints, segments) /\ segments # <<>> /\ ui.segment \in DOMAIN segments
  BY <1>1, OpenIs DEF IndicesLie
<1>4. /\ IsRoute(waypoints, cleared) /\ cleared # <<>> /\ DOMAIN cleared = DOMAIN segments
      /\ \A k \in DOMAIN cleared : IsSegment(cleared[k])
  BY <1>3, ClearedIs
<1> HIDE DEF cleared, id
<1>5. IsSegment(cleared[ui.segment]) /\ IsSequence(old)
  BY <1>3, <1>4 DEF IsSegment
<1> DEFINE new == Append(old, id)
<1>6. IsSequence(new) /\ Len(new) = Len(old) + 1 /\ Len(old) \in Nat /\ Len(new) \in Nat
      /\ DOMAIN new = 1 .. Len(new)
  BY <1>5, AppendIs, ElementsAre
<1> HIDE DEF new
<1>7. IsSegment(s) /\ s.through_ids = new
  BY <1>5, <1>6 DEF IsSegment, new
<1> HIDE DEF s, old
<1>8. IsRoute(waypoints, t) /\ t # <<>> /\ DOMAIN t = DOMAIN segments /\ t[ui.segment] = s
  BY <1>3, <1>4, <1>7, SegmentChanged
<1> HIDE DEF t
<1>9. /\ DOMAIN u = Fields /\ u.open = TRUE /\ u.segment = ui.segment
      /\ u.selected = ui.selected /\ u.dragging = ui.dragging /\ u.through = Len(old) + 1
  BY <1>3 DEF Fields
<1> HIDE DEF u
<1>10. IndicesLie(u, waypoints, t)
  BY <1>3, <1>6, <1>7, <1>8, <1>9 DEF IndicesLie
<1>11. QED
  BY <1>1, <1>2, <1>8, <1>9, <1>10, EditKeeps

\* A through point leaves the segment, and the route when no segment has it
\* any more (_remove_selected_through): what is selected moves with the indices.
LEMMA RemoveSelectedThroughKeeps ==
  ASSUME EditorInvariant, Click, RemoveSelectedThrough
  PROVE  EditorInvariant'
<1> DEFINE id == Current.through_ids[ui.through]
           at == {i \in DOMAIN waypoints : waypoints[i].id = id}
           sel == IF at = {} \/ ui.selected < Min(at) THEN ui.selected
                  ELSE IF ui.selected = Min(at) THEN None ELSE ui.selected - 1
           w == IF at = {} THEN waypoints ELSE RemoveAt(waypoints, Min(at))
           t == [k \in DOMAIN segments |->
                   [segments[k] EXCEPT !.through_ids = Without(@, id)]]
           u == [ui EXCEPT !.selected = sel, !.through = None]
<1>1. Edit /\ Push /\ ui.open /\ ui.dragging = None
  BY DEF RemoveSelectedThrough, Edit, Event, Click
<1>2. MarkChanged(u, w, t)
  BY DEF RemoveSelectedThrough
<1>3. /\ DOMAIN ui = Fields /\ ui.open = TRUE /\ IndicesLie(ui, waypoints, segments)
      /\ IsRoute(waypoints, segments) /\ segments # <<>> /\ ui.segment \in DOMAIN segments
      /\ Len(waypoints) \in Nat /\ DOMAIN waypoints = 1 .. Len(waypoints)
      /\ IsSequence(waypoints) /\ \A x \in ToSet(waypoints) : IsWaypoint(x)
      /\ ui.selected \in {None} \cup DOMAIN waypoints
  BY <1>1, OpenIs DEF IndicesLie, IsRoute
<1> HIDE DEF id
<1>4. /\ IsRoute(waypoints, t) /\ t # <<>> /\ DOMAIN t = DOMAIN segments
      /\ \A k \in DOMAIN t : IsSegment(t[k])
  BY <1>3, ClearedIs
<1> HIDE DEF t
<1>5. at \in SUBSET Nat /\ at \subseteq 1 .. Len(waypoints)
  BY <1>3
<1> HIDE DEF at
<1>6. IsSequence(w) /\ sel \in {None} \cup DOMAIN w /\ \A x \in ToSet(w) : IsWaypoint(x)
  <2>1. CASE at = {}
    BY <1>3, <2>1
  <2>2. CASE at # {}
    <3> DEFINE m == Min(at)
    <3>1. m \in 1 .. Len(waypoints)
      BY <1>5, <2>2, MinIsLeast
    <3>2. w = RemoveAt(waypoints, m)
      BY <2>2
    <3>3. sel = IF ui.selected < m THEN ui.selected
                ELSE IF ui.selected = m THEN None ELSE ui.selected - 1
      BY <2>2
    <3> HIDE DEF m, w, sel
    <3>4. /\ IsSequence(w) /\ Len(w) = Len(waypoints) - 1 /\ ToSet(w) \subseteq ToSet(waypoints)
      BY <1>3, <3>1, <3>2, RemoveIs
    <3>5. DOMAIN w = 1 .. Len(w)
      BY <3>4, ElementsAre
    <3>6. sel \in {None} \cup DOMAIN w
      BY <1>3, <3>1, <3>3, <3>4, <3>5 DEF None
    <3>7. QED
      BY <1>3, <3>4, <3>6
  <2>3. QED
    BY <2>1, <2>2
<1> HIDE DEF w, sel
<1>7. /\ DOMAIN u = Fields /\ u.open = TRUE /\ u.segment = ui.segment
      /\ u.selected = sel /\ u.dragging = None /\ u.through = None
  BY <1>1, <1>3 DEF Fields
<1> HIDE DEF u
<1>8. IndicesLie(u, w, t)
  BY <1>3, <1>4, <1>6, <1>7 DEF IndicesLie
<1>9. IsRoute(w, t)
  BY <1>4, <1>6 DEF IsRoute
<1>10. QED
  BY <1>1, <1>2, <1>4, <1>7, <1>8, <1>9, EditKeeps

\* A through point changes places with its neighbour (_move_selected_through).
LEMMA MoveSelectedThroughKeeps ==
  ASSUME EditorInvariant, NEW offset, MoveSelectedThrough(offset)
  PROVE  EditorInvariant'
<1> DEFINE to == ui.through + offset
           ids == Current.through_ids
           first == [ids EXCEPT ![ui.through] = ids[to]]
           swapped == [first EXCEPT ![to] = ids[ui.through]]
           s == [Current EXCEPT !.through_ids = swapped]
           t == [segments EXCEPT ![ui.segment] = s]
           u == [ui EXCEPT !.through = to]
<1>1. Edit /\ Push /\ ui.open /\ to \in DOMAIN ids
  BY DEF MoveSelectedThrough, Edit, Event
<1>2. MarkChanged(u, waypoints, t)
  BY DEF MoveSelectedThrough, Current
<1>3. /\ DOMAIN ui = Fields /\ ui.open = TRUE /\ IndicesLie(ui, waypoints, segments)
      /\ IsRoute(waypoints, segments) /\ segments # <<>> /\ ui.segment \in DOMAIN segments
      /\ IsSegment(Current) /\ IsSequence(ids)
  BY <1>1, OpenIs DEF IndicesLie
<1> HIDE DEF to
<1>4. IsSequence(first) /\ DOMAIN first = DOMAIN ids
  <2> HIDE DEF ids
  <2>1. QED
    BY <1>3, ExceptIs
<1>5. IsSequence(swapped) /\ DOMAIN swapped = DOMAIN ids
  <2> HIDE DEF first, ids
  <2>1. QED
    BY <1>4, ExceptIs
<1> HIDE DEF swapped, first
<1>6. IsSegment(s) /\ s.through_ids = swapped
  BY <1>3, <1>5 DEF IsSegment
<1> HIDE DEF s, ids
<1>7. IsRoute(waypoints, t) /\ t # <<>> /\ DOMAIN t = DOMAIN segments /\ t[ui.segment] = s
  BY <1>3, <1>6, SegmentChanged
<1> HIDE DEF t
<1>8. /\ DOMAIN u = Fields /\ u.open = TRUE /\ u.segment = ui.segment
      /\ u.selected = ui.selected /\ u.dragging = ui.dragging /\ u.through = to
  BY <1>3 DEF Fields
<1> HIDE DEF u
<1>9. IndicesLie(u, waypoints, t)
  BY <1>1, <1>3, <1>5, <1>6, <1>7, <1>8 DEF IndicesLie
<1>10. QED
  BY <1>1, <1>2, <1>7, <1>8, <1>9, EditKeeps

\* A segment is split at a through point (_split_segment).
LEMMA SplitSegmentKeeps ==
  ASSUME EditorInvariant, SplitSegment
  PROVE  EditorInvariant'
<1> DEFINE ids == Current.through_ids
           k == ui.segment
<1>1. PICK j \in DOMAIN ids : TRUE /\
        /\ Edit /\ Push
        /\ MarkChanged([ui EXCEPT !.segment = @ + 1, !.through = None], waypoints,
             ReplaceAt(InsertAt(segments, k + 1,
                         [Current EXCEPT !.id = FirstUnused(SegmentIds, {s.id : s \in ToSet(segments)}),
                                         !.start_id = ids[j],
                                         !.through_ids = SubSeq(ids, j + 1, Len(ids))]),
                       k, [Current EXCEPT !.end_id = ids[j], !.through_ids = SubSeq(ids, 1, j - 1)]))
  BY DEF SplitSegment
<1> DEFINE name == FirstUnused(SegmentIds, {s.id : s \in ToSet(segments)})
           left == SubSeq(ids, 1, j - 1)
           right == SubSeq(ids, j + 1, Len(ids))
           a == [Current EXCEPT !.end_id = ids[j], !.through_ids = left]
           b == [Current EXCEPT !.id = name, !.start_id = ids[j], !.through_ids = right]
           longer == InsertAt(segments, k + 1, b)
           t == [longer EXCEPT ![k] = a]
           u == [ui EXCEPT !.segment = k + 1, !.through = None]
<1>2. Edit /\ Push /\ ui.open /\ MarkChanged(u, waypoints, t)
  BY <1>1 DEF Edit, Event, ReplaceAt
<1>3. /\ DOMAIN ui = Fields /\ ui.open = TRUE /\ IndicesLie(ui, waypoints, segments)
      /\ IsRoute(waypoints, segments) /\ segments # <<>> /\ k \in DOMAIN segments
      /\ Len(segments) \in Nat \ {0} /\ DOMAIN segments = 1 .. Len(segments)
      /\ IsSegment(Current) /\ IsSequence(ids)
      /\ DOMAIN ids = 1 .. Len(ids) /\ Len(ids) \in Nat
  BY <1>2, OpenIs DEF IndicesLie
<1> HIDE DEF ids, name
<1>4. IsSequence(left) /\ IsSequence(right)
  <2>1. j \in 1 .. Len(ids) /\ j - 1 \in Nat /\ j + 1 \in Nat
    BY <1>1, <1>3
  <2>2. j - 1 <= Len(ids) /\ 1 <= j + 1 /\ Len(ids) <= Len(ids)
    BY <1>3, <2>1
  <2>3. IsSequence(left)
    <3> DEFINE n == j - 1
    <3>1. /\ IsSequence(ids) /\ 1 \in Nat /\ n \in Nat /\ 1 <= 1 /\ n <= Len(ids)
      BY <1>3, <2>1, <2>2
    <3> HIDE DEF n
    <3>2. IsSequence(SubSeq(ids, 1, n))
      BY <3>1, PartIs
    <3>3. QED
      BY <3>2 DEF n
  <2>4. IsSequence(right)
    <3>1. /\ IsSequence(ids) /\ j + 1 \in Nat /\ Len(ids) \in Nat
          /\ 1 <= j + 1 /\ Len(ids) <= Len(ids)
      BY <1>3, <2>1, <2>2
    <3>2. IsSequence(SubSeq(ids, j + 1, Len(ids)))
      BY <3>1, PartIs
    <3>3. QED
      BY <3>2
  <2>5. QED
    BY <2>3, <2>4
<1> HIDE DEF left, right
<1>5. IsSegment(a) /\ IsSegment(b)
  BY <1>3, <1>4 DEF IsSegment
<1> HIDE DEF a, b
<1>6. /\ IsSequence(segments) /\ \A x \in ToSet(segments) : IsSegment(x)
      /\ IsSequence(waypoints) /\ \A x \in ToSet(waypoints) : IsWaypoint(x)
      /\ k + 1 \in 1 .. Len(segments) + 1
  BY <1>3 DEF IsRoute
<1>7. /\ IsSequence(longer) /\ Len(longer) = Len(segments) + 1
      /\ ToSet(longer) \subseteq ToSet(segments) \cup {b}
  BY <1>6, InsertIs
<1> HIDE DEF longer
<1>8. /\ IsRoute(waypoints, longer) /\ longer # <<>> /\ DOMAIN longer = 1 .. Len(segments) + 1
      /\ k \in DOMAIN longer
  BY <1>3, <1>5, <1>6, <1>7, ElementsAre DEF IsRoute
<1>9. IsRoute(waypoints, t) /\ t # <<>> /\ DOMAIN t = DOMAIN longer
  BY <1>5, <1>8, SegmentChanged
<1> HIDE DEF t
<1>10. /\ DOMAIN u = Fields /\ u.open = TRUE /\ u.segment = k + 1
       /\ u.selected = ui.selected /\ u.dragging = ui.dragging /\ u.through = None
  BY <1>3 DEF Fields
<1> HIDE DEF u
<1>11. IndicesLie(u, waypoints, t)
  BY <1>3, <1>8, <1>9, <1>10 DEF IndicesLie
<1>12. QED
  BY <1>2, <1>9, <1>10, <1>11, EditKeeps

\* A segment is merged with its neighbour of the same direction (_delete_segment).
LEMMA DeleteSegmentKeeps ==
  ASSUME EditorInvariant, DeleteSegment
  PROVE  EditorInvariant'
<1> DEFINE k == ui.segment
           c == Current
           merges(i) == i \in DOMAIN segments /\ segments[i].direction = c.direction
           p == segments[k-1]
           q == segments[k+1]
           idsBefore == p.through_ids \o <<p.end_id>> \o c.through_ids
           idsAfter == c.through_ids \o <<c.end_id>> \o q.through_ids
           before == [p EXCEPT !.end_id = c.end_id, !.through_ids = idsBefore]
           after == [q EXCEPT !.start_id = c.start_id, !.through_ids = idsAfter]
           merged == IF merges(k-1) THEN [segments EXCEPT ![k-1] = before]
                                    ELSE [segments EXCEPT ![k+1] = after]
           t == RemoveAt(merged, k)
           place == IF merges(k-1) THEN k - 1 ELSE k
           u == [ui EXCEPT !.segment = place, !.through = None]
<1>1. Edit /\ Push /\ ui.open /\ Len(segments) > 1 /\ (merges(k-1) \/ merges(k+1))
  BY DEF DeleteSegment, Edit, Event
<1>2. MarkChanged(u, waypoints, t)
  BY DEF DeleteSegment, ReplaceAt
<1>3. /\ DOMAIN ui = Fields /\ ui.open = TRUE /\ IndicesLie(ui, waypoints, segments)
      /\ IsRoute(waypoints, segments) /\ segments # <<>> /\ k \in DOMAIN segments
      /\ Len(segments) \in Nat \ {0} /\ DOMAIN segments = 1 .. Len(segments)
      /\ IsSegment(c) /\ IsSequence(c.through_ids)
      /\ \A i \in DOMAIN segments : IsSegment(segments[i])
  BY <1>1, OpenIs DEF IndicesLie
<1>4. /\ IsRoute(waypoints, merged) /\ merged # <<>> /\ DOMAIN merged = DOMAIN segments
      /\ place \in 1 .. Len(segments) - 1
  <2>1. CASE merges(k-1)
    <3>1. k - 1 \in DOMAIN segments /\ IsSegment(p) /\ IsSequence(p.through_ids)
      BY <1>3, <2>1 DEF IsSegment
    <3>2. IsSequence(idsBefore)
      BY <1>3, <3>1, SingletonIs, ConcatIs
    <3> HIDE DEF idsBefore
    <3>3. IsSegment(before)
      BY <3>1, <3>2 DEF IsSegment
    <3> HIDE DEF before
    <3>4. merged = [segments EXCEPT ![k-1] = before] /\ place = k - 1
      BY <2>1
    <3>5. place \in 1 .. Len(segments) - 1
      BY <1>3, <3>1, <3>4
    <3>6. PICK i : i = k-1
      OBVIOUS
    <3>7. merged = [segments EXCEPT ![i] = before] /\ i \in DOMAIN segments
      BY <3>1, <3>4, <3>6
    <3> HIDE DEF merged, place
    <3>8. QED
      BY <1>3, <3>3, <3>5, <3>7, SegmentChanged
  <2>2. CASE ~ merges(k-1)
    <3>1. k + 1 \in DOMAIN segments /\ IsSegment(q) /\ IsSequence(q.through_ids)
      BY <1>1, <1>3, <2>2 DEF IsSegment
    <3>2. IsSequence(idsAfter)
      BY <1>3, <3>1, SingletonIs, ConcatIs
    <3> HIDE DEF idsAfter
    <3>3. IsSegment(after)
      BY <3>1, <3>2 DEF IsSegment
    <3> HIDE DEF after
    <3>4. merged = [segments EXCEPT ![k+1] = after] /\ place = k
      BY <2>2
    <3>5. place \in 1 .. Len(segments) - 1
      BY <1>3, <3>1, <3>4
    <3>6. PICK i : i = k+1
      OBVIOUS
    <3>7. merged = [segments EXCEPT ![i] = after] /\ i \in DOMAIN segments
      BY <3>1, <3>4, <3>6
    <3> HIDE DEF merged, place
    <3>8. QED
      BY <1>3, <3>3, <3>5, <3>7, SegmentChanged
  <2>3. QED
    BY <2>1, <2>2
<1> HIDE DEF merged, place
<1>5. /\ IsSequence(merged) /\ \A x \in ToSet(merged) : IsSegment(x)
      /\ IsSequence(waypoints) /\ \A x \in ToSet(waypoints) : IsWaypoint(x)
      /\ Len(merged) = Len(segments) /\ k \in 1 .. Len(merged)
  <2>1. IsSequence(merged) /\ \A x \in ToSet(merged) : IsSegment(x)
    BY <1>4 DEF IsRoute
  <2>2. 1 .. Len(merged) = 1 .. Len(segments) /\ Len(merged) \in Nat
    BY <1>3, <1>4, <2>1, ElementsAre
  <2>3. Len(merged) = Len(segments)
    BY <1>3, <2>2
  <2>4. QED
    BY <1>3, <2>1, <2>3 DEF IsRoute
<1>6. /\ IsSequence(t) /\ Len(t) = Len(segments) - 1 /\ ToSet(t) \subseteq ToSet(merged)
  BY <1>5, RemoveIs
<1> HIDE DEF t
<1>7. DOMAIN t = 1 .. Len(segments) - 1 /\ t # <<>> /\ IsRoute(waypoints, t)
  BY <1>1, <1>3, <1>5, <1>6, ElementsAre DEF IsRoute
<1>8. /\ DOMAIN u = Fields /\ u.open = TRUE /\ u.segment = place
      /\ u.selected = ui.selected /\ u.dragging = ui.dragging /\ u.through = None
  BY <1>3 DEF Fields
<1> HIDE DEF u
<1>9. IndicesLie(u, waypoints, t)
  BY <1>3, <1>4, <1>7, <1>8 DEF IndicesLie
<1>10. QED
  BY <1>1, <1>2, <1>7, <1>8, <1>9, EditKeeps

\* An end of the segment is another name (_set_segment_endpoint).
LEMMA SetEndpointKeeps ==
  ASSUME EditorInvariant, Edit, NEW target, NEW id, NEW newUi, SetEndpoint(target, id, newUi),
         DOMAIN newUi = Fields, newUi.open = TRUE, newUi.segment = ui.segment,
         newUi.dragging = ui.dragging, newUi.selected \in {None} \cup DOMAIN waypoints
  PROVE  EditorInvariant'
<1> DEFINE k == ui.segment
           a == [Current EXCEPT !.start_id = id]
           b == [Current EXCEPT !.end_id = id]
           t == IF target = "start" THEN [segments EXCEPT ![k] = a] ELSE [segments EXCEPT ![k] = b]
           u == [newUi EXCEPT !.pick = "none", !.through = None]
<1>1. Push /\ ui.open /\ MarkChanged(u, waypoints, t)
  BY DEF SetEndpoint, Edit, Event, Current
<1>2. /\ IndicesLie(ui, waypoints, segments) /\ IsRoute(waypoints, segments) /\ segments # <<>>
      /\ k \in DOMAIN segments /\ IsSegment(Current)
  BY <1>1, OpenIs DEF IndicesLie
<1>3. IsSegment(a) /\ IsSegment(b)
  BY <1>2 DEF IsSegment
<1> HIDE DEF a, b
<1>4. IsRoute(waypoints, t) /\ t # <<>> /\ DOMAIN t = DOMAIN segments
  <2>1. /\ IsRoute(waypoints, [segments EXCEPT ![k] = a]) /\ [segments EXCEPT ![k] = a] # <<>>
        /\ DOMAIN [segments EXCEPT ![k] = a] = DOMAIN segments
    BY <1>2, <1>3, SegmentChanged
  <2>2. /\ IsRoute(waypoints, [segments EXCEPT ![k] = b]) /\ [segments EXCEPT ![k] = b] # <<>>
        /\ DOMAIN [segments EXCEPT ![k] = b] = DOMAIN segments
    BY <1>2, <1>3, SegmentChanged
  <2>3. QED
    BY <2>1, <2>2
<1> HIDE DEF t
<1>5. /\ DOMAIN u = Fields /\ u.open = TRUE /\ u.segment = k /\ u.through = None
      /\ u.selected = newUi.selected /\ u.dragging = ui.dragging
  BY DEF Fields
<1> HIDE DEF u
<1>6. IndicesLie(u, waypoints, t)
  BY <1>2, <1>4, <1>5 DEF IndicesLie
<1>7. QED
  BY <1>1, <1>4, <1>5, <1>6, EditKeeps

\* The name of an end is typed (_set_segment_endpoint).
LEMMA EndpointTypedKeeps ==
  ASSUME EditorInvariant, NEW target, NEW id, EndpointTyped(target, id)
  PROVE  EditorInvariant'
<1>1. Edit /\ SetEndpoint(target, id, ui) /\ ui.open
  BY DEF EndpointTyped, Edit, Event
<1>2. /\ DOMAIN ui = Fields /\ ui.open = TRUE /\ ui.selected \in {None} \cup DOMAIN waypoints
  BY <1>1, OpenIs DEF IndicesLie
<1>3. QED
  BY <1>1, <1>2, SetEndpointKeeps

\* A change of one point's heading, with another selected or not.
LEMMA HeadingChangedKeeps ==
  ASSUME EditorInvariant, Edit, Push, NEW newUi, NEW i \in DOMAIN waypoints, NEW heading,
         MarkChanged(newUi, [waypoints EXCEPT ![i].heading = heading], segments),
         DOMAIN newUi = Fields, newUi.open = TRUE, IndicesLie(newUi, waypoints, segments)
  PROVE  EditorInvariant'
<1> DEFINE w == [waypoints[i] EXCEPT !.heading = heading]
           t == [waypoints EXCEPT ![i] = w]
<1>1. ui.open /\ MarkChanged(newUi, t, segments)
  BY DEF Edit, Event
<1>2. IsRoute(waypoints, segments) /\ segments # <<>> /\ IsWaypoint(waypoints[i])
  BY <1>1, OpenIs
<1>3. IsWaypoint(w)
  BY <1>2 DEF IsWaypoint
<1> HIDE DEF w
<1>4. IsRoute(t, segments) /\ DOMAIN t = DOMAIN waypoints
  BY <1>2, <1>3, PointChanged
<1> HIDE DEF t
<1>5. IndicesLie(newUi, t, segments)
  BY <1>4 DEF IndicesLie
<1>6. QED
  BY <1>1, <1>2, <1>4, <1>5, EditKeeps

\* The heading of an end is typed (_set_endpoint_yaw).
LEMMA EndpointYawKeeps ==
  ASSUME EditorInvariant, NEW target, NEW heading, EndpointYaw(target, heading)
  PROVE  EditorInvariant'
<1>1. PICK i \in 2 .. Len(waypoints) :
        /\ Edit /\ Push
        /\ MarkChanged([ui EXCEPT !.selected = i],
                       [waypoints EXCEPT ![i].heading = heading], segments)
  BY DEF EndpointYaw
<1> DEFINE u == [ui EXCEPT !.selected = i]
<1>2. ui.open
  BY <1>1 DEF Edit, Event
<1>3. /\ DOMAIN ui = Fields /\ ui.open = TRUE /\ IndicesLie(ui, waypoints, segments)
      /\ i \in DOMAIN waypoints
  BY <1>2, OpenIs
<1>4. DOMAIN u = Fields /\ u.open = TRUE /\ IndicesLie(u, waypoints, segments)
  BY <1>3 DEF Fields, IndicesLie
<1>5. QED
  BY <1>1, <1>3, <1>4, HeadingChangedKeeps

-----------------------------------------------------------------------------
(* The pointer. *)

\* What lies under the pointer is a point.
LEMMA UnderIs ==
  ASSUME EditorInvariant, ui.open, NEW pos
  PROVE  Under(pos) \in {None} \cup DOMAIN waypoints
<1> DEFINE here == {i \in DOMAIN waypoints : waypoints[i].pos = pos}
<1>1. Len(waypoints) \in Nat /\ here \in SUBSET (1 .. Len(waypoints))
  BY OpenIs
<1> HIDE DEF here
<1>2. CASE here # {}
  <2>1. Max(here) \in here
    BY <1>1, <1>2, MaxIsGreatest
  <2>2. QED
    BY <1>2, <2>1 DEF Under, here
<1>3. QED
  BY <1>2 DEF Under, here

\* The right button pans, during a drag too (_on_press).
LEMMA RightPressKeeps ==
  ASSUME EditorInvariant, RightPress
  PROVE  EditorInvariant'
<1>1. /\ ui.open /\ temp = NoFile
      /\ UNCHANGED <<file, temp, waypoints, segments, history, edits>>
      /\ ui' = [ui EXCEPT !.panning = TRUE]
  BY DEF OnlyUi, RightPress, Event, NotSaving
<1>2. DOMAIN ui = Fields /\ ui.open = TRUE /\ IndicesLie(ui, waypoints, segments)
  BY <1>1, OpenIs
<1>3. /\ DOMAIN ui' = Fields /\ ui'.open = TRUE /\ ui'.valid = ui.valid
      /\ ui'.segment = ui.segment /\ ui'.selected = ui.selected
      /\ ui'.dragging = ui.dragging /\ ui'.through = ui.through /\ ui'.moved = ui.moved
  BY <1>1, <1>2 DEF Fields
<1>4. IndicesLie(ui', waypoints, segments)
  BY <1>2, <1>3 DEF IndicesLie
<1>5. ui'.dragging # None /\ ui'.moved => history # <<>>
  BY <1>1, <1>3 DEF EditorInvariant, HistoryFollows
<1>6. QED
  BY <1>1, <1>3, <1>4, <1>5, OnlyUiKeeps

\* A new through point between others (_on_press, _create_through_at).
LEMMA PointAddedKeeps ==
  ASSUME EditorInvariant, NEW pos, PressToAdd(pos), waypoints # <<>>
  PROVE  EditorInvariant'
<1> DEFINE id == FirstUnused(ViaIds, IdsOf(waypoints))
           point == [id |-> id, task |-> "via", direction |-> Current.direction,
                     profile |-> "standard", mode |-> "none", pos |-> pos, heading |-> Open]
           ids == Current.through_ids
           place == IF ui.through = None THEN Len(ids) + 1 ELSE ui.through + 1
           n == Len(waypoints)
           w == InsertAt(waypoints, n, point)
           longer == InsertAt(ids, place, id)
           s == [Current EXCEPT !.through_ids = longer]
           t == [segments EXCEPT ![ui.segment] = s]
           u == [ui EXCEPT !.selected = n, !.through = place, !.adding = FALSE]
<1>1. Edit /\ Push /\ ui.open /\ waypoints # <<>>
  BY DEF PressToAdd, CreateThroughAt, Edit, Event
<1>2. MarkChanged(u, w, t)
  BY DEF PressToAdd, CreateThroughAt, Current
<1>3. /\ DOMAIN ui = Fields /\ ui.open = TRUE /\ IndicesLie(ui, waypoints, segments)
      /\ IsRoute(waypoints, segments) /\ segments # <<>> /\ ui.segment \in DOMAIN segments
      /\ IsSegment(Current) /\ IsSequence(ids) /\ Len(ids) \in Nat
      /\ DOMAIN ids = 1 .. Len(ids) /\ n \in Nat /\ DOMAIN waypoints = 1 .. n
      /\ ui.through \in {None} \cup DOMAIN ids
  BY <1>1, OpenIs DEF IndicesLie, Current
<1>4. IsWaypoint(point)
  BY DEF IsWaypoint
<1> HIDE DEF point, id
<1>5. place \in 1 .. Len(ids) + 1
  BY <1>3 DEF None
<1> HIDE DEF place, ids
<1>6. IsSequence(longer) /\ DOMAIN longer = 1 .. Len(ids) + 1
  BY <1>3, <1>5, InsertIs, ElementsAre
<1> HIDE DEF longer
<1>7. IsSegment(s) /\ s.through_ids = longer
  BY <1>3, <1>6 DEF IsSegment
<1> HIDE DEF s
<1>8. /\ IsRoute(waypoints, t) /\ t # <<>> /\ DOMAIN t = DOMAIN segments
      /\ t[ui.segment] = s
  BY <1>3, <1>7, SegmentChanged
<1> HIDE DEF t
<1>9. /\ IsSequence(waypoints) /\ \A x \in ToSet(waypoints) : IsWaypoint(x)
      /\ n \in 1 .. Len(waypoints) + 1
  BY <1>1, <1>3, ElementsAre DEF IsRoute
<1>10. IsSequence(w) /\ Len(w) = n + 1 /\ ToSet(w) \subseteq ToSet(waypoints) \cup {point}
  BY <1>9, InsertIs
<1> HIDE DEF w
<1>11. IsRoute(w, t) /\ DOMAIN w = 1 .. n + 1
  BY <1>4, <1>8, <1>9, <1>10, ElementsAre DEF IsRoute
<1>12. /\ DOMAIN u = Fields /\ u.open = TRUE /\ u.segment = ui.segment
       /\ u.selected = n /\ u.dragging = ui.dragging /\ u.through = place
  BY <1>3 DEF Fields
<1> HIDE DEF u
<1>13. IndicesLie(u, w, t)
  BY <1>3, <1>5, <1>6, <1>7, <1>8, <1>9, <1>11, <1>12 DEF IndicesLie
<1>14. QED
  BY <1>1, <1>2, <1>8, <1>11, <1>12, <1>13, EditKeeps

\* A press that adds a point, with or without a point left (_on_press, _create_through_at).
LEMMA PressToAddKeeps ==
  ASSUME EditorInvariant, NEW pos, PressToAdd(pos)
  PROVE  EditorInvariant'
<1>1. CASE waypoints # <<>>
  BY <1>1, PointAddedKeeps
<1>2. CASE waypoints = <<>>
  <2>1. /\ ui.open /\ temp = NoFile /\ Push
        /\ UNCHANGED <<file, temp, ui, waypoints, segments>>
    BY <1>2 DEF PressToAdd, CreateThroughAt, Edit, Event, NotSaving
  <2>2. DOMAIN ui = Fields /\ ui.open = TRUE /\ IndicesLie(ui, waypoints, segments)
    BY <2>1, OpenIs
  <2>3. /\ HistoryIs(history', edits') /\ history' # <<>>
        /\ edits' <= HistoryLimit => history'[1] = <<file.waypoints, file.segments>>
    BY <2>1, PushKeeps
  <2>4. /\ DOMAIN ui' = Fields /\ ui'.open = TRUE /\ ui'.valid = ui.valid
        /\ IndicesLie(ui', waypoints, segments)
    BY <2>1, <2>2
  <2>5. QED
    BY <2>1, <2>3, <2>4, UiKeeps
<1>3. QED
  BY <1>1, <1>2

\* A press that picks an end (_on_press).
LEMMA PressToPickKeeps ==
  ASSUME EditorInvariant, NEW pos, PressToPick(pos)
  PROVE  EditorInvariant'
<1> DEFINE u == [ui EXCEPT !.selected = Under(pos)]
           target == ui.pick
           id == waypoints[Under(pos)].id
<1>1. Edit /\ ui.open /\ SetEndpoint(target, id, u)
  BY DEF PressToPick, Edit, Event
<1>2. DOMAIN ui = Fields /\ ui.open = TRUE /\ Under(pos) \in {None} \cup DOMAIN waypoints
  BY <1>1, OpenIs, UnderIs
<1>3. /\ DOMAIN u = Fields /\ u.open = TRUE /\ u.segment = ui.segment
      /\ u.dragging = ui.dragging /\ u.selected \in {None} \cup DOMAIN waypoints
  BY <1>2 DEF Fields
<1> HIDE DEF u, target, id
<1>4. QED
  BY <1>1, <1>3, SetEndpointKeeps

\* A press that selects, and begins to drag (_on_press).
LEMMA PressToSelectKeeps ==
  ASSUME EditorInvariant, NEW pos, PressToSelect(pos)
  PROVE  EditorInvariant'
<1> DEFINE i == Under(pos)
<1>1. /\ ui.open /\ temp = NoFile
      /\ UNCHANGED <<file, temp, waypoints, segments, history, edits>>
      /\ ui' = IF i = 1 THEN [ui EXCEPT !.selected = i]
               ELSE [ui EXCEPT !.selected = i, !.dragging = i, !.moved = FALSE]
  BY DEF OnlyUi, PressToSelect, Event, NotSaving
<1>2. /\ DOMAIN ui = Fields /\ ui.open = TRUE /\ IndicesLie(ui, waypoints, segments)
      /\ i \in {None} \cup DOMAIN waypoints
  BY <1>1, OpenIs, UnderIs
<1> HIDE DEF i
<1>3. /\ DOMAIN ui' = Fields /\ ui'.open = TRUE /\ ui'.valid = ui.valid
      /\ ui'.segment = ui.segment /\ ui'.selected = i /\ ui'.through = ui.through
      /\ \/ ui'.dragging = ui.dragging /\ ui'.moved = ui.moved
         \/ ui'.dragging = i /\ ui'.moved = FALSE
  BY <1>1, <1>2 DEF Fields
<1>4. IndicesLie(ui', waypoints, segments)
  BY <1>2, <1>3 DEF IndicesLie
<1>5. ui'.dragging # None /\ ui'.moved => history # <<>>
  BY <1>1, <1>3 DEF EditorInvariant, HistoryFollows
<1>6. QED
  BY <1>1, <1>3, <1>4, <1>5, OnlyUiKeeps

\* The pointer drags a point: the first motion saves the history (_on_motion).
LEMMA MotionKeeps ==
  ASSUME EditorInvariant, NEW pos, Motion(pos)
  PROVE  EditorInvariant'
<1>1. /\ ui.open /\ temp = NoFile /\ UNCHANGED <<file, temp, waypoints, segments>>
      /\ ui.dragging # None /\ ui' = [ui EXCEPT !.moved = TRUE, !.preview = pos]
      /\ \/ ui.moved /\ UNCHANGED <<history, edits>>
         \/ Push
  BY DEF Motion, Edit, Event, NotSaving
<1>2. DOMAIN ui = Fields /\ ui.open = TRUE /\ IndicesLie(ui, waypoints, segments)
  BY <1>1, OpenIs
<1>3. /\ DOMAIN ui' = Fields /\ ui'.open = TRUE /\ ui'.valid = ui.valid
      /\ ui'.segment = ui.segment /\ ui'.selected = ui.selected
      /\ ui'.dragging = ui.dragging /\ ui'.through = ui.through
  BY <1>1, <1>2 DEF Fields
<1>4. IndicesLie(ui', waypoints, segments)
  BY <1>2, <1>3 DEF IndicesLie
<1>5. /\ HistoryIs(history', edits') /\ history' # <<>>
      /\ edits' <= HistoryLimit => history'[1] = <<file.waypoints, file.segments>>
  <2>1. CASE ui.moved /\ UNCHANGED <<history, edits>>
    <3>1. HistoryIs(history', edits')
      BY <2>1, HistoryOf
    <3>2. history # <<>>
      BY <1>1, <2>1 DEF EditorInvariant, HistoryFollows
    <3>3. QED
      BY <1>1, <2>1, <3>1, <3>2 DEF EditorInvariant, EditsAreUndoable
  <2>2. CASE Push
    BY <1>1, <2>2, PushKeeps
  <2>3. QED
    BY <1>1, <2>1, <2>2
<1>6. QED
  BY <1>1, <1>3, <1>4, <1>5, UiKeeps

\* The button is released: the pan ends, or the dragged point is put down (_on_release).
LEMMA ReleaseKeeps ==
  ASSUME EditorInvariant, Release
  PROVE  EditorInvariant'
<1> DEFINE i == ui.dragging
           ended == [ui EXCEPT !.dragging = None, !.moved = FALSE]
           still == ui.panning \/ i = None \/ ~ ui.moved \/ ui.preview = Nowhere
           p == ui.preview
           moved == [waypoints[i] EXCEPT !.pos = p]
           a == [waypoints EXCEPT ![i] = moved]
           h == IF HeadingLocked(waypoints[i]) THEN a[i].heading ELSE Open
           turned == [a[i] EXCEPT !.heading = h]
           w == [a EXCEPT ![i] = turned]
<1>1. /\ ui.open /\ temp = NoFile /\ temp' = NoFile
      /\ UNCHANGED <<file, temp, history, edits>>
  BY DEF Release, Edit, Event, NotSaving
<1>2. /\ DOMAIN ui = Fields /\ ui.open = TRUE /\ IndicesLie(ui, waypoints, segments)
      /\ IsRoute(waypoints, segments) /\ segments # <<>>
      /\ \A j \in DOMAIN waypoints : IsWaypoint(waypoints[j])
  BY <1>1, OpenIs
<1>3. CASE still
  <2>1. /\ UNCHANGED <<waypoints, segments>>
        /\ ui' = IF ui.panning THEN [ui EXCEPT !.panning = FALSE]
                               ELSE [ended EXCEPT !.preview = Nowhere]
    BY <1>3 DEF Release
  <2>2. /\ DOMAIN ui' = Fields /\ ui'.open = TRUE /\ ui'.valid = ui.valid
        /\ ui'.segment = ui.segment /\ ui'.selected = ui.selected /\ ui'.through = ui.through
        /\ \/ ui'.dragging = ui.dragging /\ ui'.moved = ui.moved
           \/ ui'.dragging = None
    BY <1>2, <2>1 DEF Fields
  <2>3. IndicesLie(ui', waypoints, segments)
    BY <1>2, <2>2 DEF IndicesLie
  <2>4. ui'.dragging # None /\ ui'.moved => history # <<>>
    BY <1>1, <2>2 DEF EditorInvariant, HistoryFollows
  <2>5. QED
    BY <1>1, <2>1, <2>2, <2>3, <2>4, OnlyUiKeeps
<1>4. CASE ~ still
  <2>1. MarkChanged(ended, w, segments)
    BY <1>4 DEF Release
  <2>2. i # None /\ ui.moved /\ i \in DOMAIN waypoints
    BY <1>2, <1>4 DEF IndicesLie
  <2>3. IsWaypoint(moved)
    BY <1>2, <2>2 DEF IsWaypoint
  <2>4. a[i] = moved
    BY <2>2
  <2> HIDE DEF moved
  <2>5. IsRoute(a, segments) /\ DOMAIN a = DOMAIN waypoints
    BY <1>2, <2>3, PointChanged
  <2> HIDE DEF a, h
  <2>6. IsWaypoint(turned)
    BY <2>3, <2>4 DEF IsWaypoint
  <2> HIDE DEF turned
  <2>7. IsRoute(w, segments) /\ DOMAIN w = DOMAIN waypoints
    BY <2>5, <2>6, PointChanged
  <2> HIDE DEF w
  <2>8. /\ DOMAIN ended = Fields /\ ended.open = TRUE /\ ended.dragging = None
        /\ ended.segment = ui.segment /\ ended.selected = ui.selected
        /\ ended.through = ui.through
    BY <1>2 DEF Fields
  <2> HIDE DEF ended
  <2>9. IndicesLie(ended, w, segments)
    BY <1>2, <2>7, <2>8 DEF IndicesLie
  <2>10. HistoryIs(history', edits')
    BY <1>1, HistoryOf
  <2>11. history # <<>>
    BY <1>1, <2>2 DEF EditorInvariant, HistoryFollows
  <2>12. edits' <= HistoryLimit =>
           (IF history' = <<>> THEN <<w, segments>> ELSE history'[1])
             = <<file'.waypoints, file'.segments>>
    BY <1>1, <2>11 DEF EditorInvariant, EditsAreUndoable
  <2>13. IsRoute(file'.waypoints, file'.segments)
    BY <1>1 DEF EditorInvariant, EditorTyped
  <2>14. QED
    BY <1>1, <1>2, <2>1, <2>7, <2>8, <2>9, <2>10, <2>12, <2>13, MarkChangedKeeps
<1>5. QED
  BY <1>3, <1>4

\* A heading turns by one notch, the common part of the wheel and the keys (_rotate_selected).
LEMMA RotateKeeps ==
  ASSUME EditorInvariant, Edit, NEW i \in {None} \cup DOMAIN waypoints, NEW left, NEW newUi,
         Rotate(i, left, newUi), DOMAIN newUi = Fields, newUi.open = TRUE,
         IndicesLie(newUi, waypoints, segments)
  PROVE  EditorInvariant'
<1> DEFINE h == QuarterTurn(waypoints[i].heading, left)
<1>1. i \in DOMAIN waypoints /\ Push
  BY DEF Rotate
<1>2. MarkChanged(newUi, [waypoints EXCEPT ![i].heading = h], segments)
  BY DEF Rotate
<1> HIDE DEF h
<1>3. QED
  BY <1>1, <1>2, HeadingChangedKeeps

\* The wheel turns the heading of the point under the pointer (_on_scroll).
LEMMA ScrollKeeps ==
  ASSUME EditorInvariant, NEW pos, NEW left, Scroll(pos, left)
  PROVE  EditorInvariant'
<1> DEFINE i == Under(pos)
           u == [ui EXCEPT !.selected = i]
<1>1. \/ Edit /\ Rotate(i, left, u)
      \/ Event /\ OnlyUi /\ ui' = u
  BY DEF Scroll
<1>2. ui.open /\ temp = NoFile
  BY <1>1 DEF Edit, Event, NotSaving
<1>3. /\ DOMAIN ui = Fields /\ ui.open = TRUE /\ IndicesLie(ui, waypoints, segments)
      /\ i \in {None} \cup DOMAIN waypoints
  BY <1>2, OpenIs, UnderIs
<1> HIDE DEF i
<1>4. /\ DOMAIN u = Fields /\ u.open = TRUE /\ u.valid = ui.valid /\ u.segment = ui.segment
      /\ u.selected = i /\ u.dragging = ui.dragging /\ u.through = ui.through
      /\ u.moved = ui.moved
  BY <1>3 DEF Fields
<1> HIDE DEF u
<1>5. IndicesLie(u, waypoints, segments)
  BY <1>3, <1>4 DEF IndicesLie
<1>6. CASE Edit /\ Rotate(i, left, u)
  BY <1>3, <1>4, <1>5, <1>6, RotateKeeps
<1>7. CASE Event /\ OnlyUi /\ ui' = u
  <2>1. UNCHANGED <<file, temp, waypoints, segments, history, edits>>
    BY <1>7 DEF OnlyUi
  <2>2. ui'.dragging # None /\ ui'.moved => history # <<>>
    BY <1>2, <1>4, <1>7 DEF EditorInvariant, HistoryFollows
  <2>3. QED
    BY <1>2, <1>4, <1>5, <1>7, <2>1, <2>2, OnlyUiKeeps
<1>8. QED
  BY <1>1, <1>6, <1>7

-----------------------------------------------------------------------------
(* The keyboard, saving, and the process. *)

LEMMA KeyRKeeps ==
  ASSUME EditorInvariant, NEW left, KeyR(left)
  PROVE  EditorInvariant'
<1>1. Edit /\ ui.open /\ Rotate(ui.selected, left, ui)
  BY DEF KeyR, Edit, Event
<1>2. /\ DOMAIN ui = Fields /\ ui.open = TRUE /\ IndicesLie(ui, waypoints, segments)
      /\ ui.selected \in {None} \cup DOMAIN waypoints
  BY <1>1, OpenIs DEF IndicesLie
<1>3. QED
  BY <1>1, <1>2, RotateKeeps

\* Escape, or delete, which ends adding first (_on_key).
LEMMA KeyEscapeKeeps ==
  ASSUME EditorInvariant, KeyEscape
  PROVE  EditorInvariant'
<1>1. /\ ui.open /\ temp = NoFile
      /\ UNCHANGED <<file, temp, waypoints, segments, history, edits>>
      /\ ui' = IF ui.adding THEN [ui EXCEPT !.adding = FALSE] ELSE [ui EXCEPT !.selected = None]
  BY DEF OnlyUi, KeyEscape, Event, NotSaving
<1>2. DOMAIN ui = Fields /\ ui.open = TRUE /\ IndicesLie(ui, waypoints, segments)
  BY <1>1, OpenIs
<1>3. /\ DOMAIN ui' = Fields /\ ui'.open = TRUE /\ ui'.valid = ui.valid
      /\ ui'.segment = ui.segment /\ ui'.selected \in {None, ui.selected}
      /\ ui'.dragging = ui.dragging /\ ui'.through = ui.through /\ ui'.moved = ui.moved
  BY <1>1, <1>2 DEF Fields
<1>4. IndicesLie(ui', waypoints, segments)
  BY <1>2, <1>3 DEF IndicesLie
<1>5. ui'.dragging # None /\ ui'.moved => history # <<>>
  BY <1>1, <1>3 DEF EditorInvariant, HistoryFollows
<1>6. QED
  BY <1>1, <1>3, <1>4, <1>5, OnlyUiKeeps

\* The last entry of the history comes back, and what was selected is clamped to it (_undo).
LEMMA UndoKeeps ==
  ASSUME EditorInvariant, Undo
  PROVE  EditorInvariant'
<1> DEFINE e == Last(history)
           m == Min({ui.segment, Len(e[2])})
           u == [ui EXCEPT !.selected = None, !.dragging = None, !.through = None, !.segment = m]
<1>1. /\ ui.open /\ temp' = NoFile /\ file' = file /\ history # <<>>
      /\ history' = Front(history) /\ edits' = edits
      /\ MarkChanged(u, e[1], e[2])
  BY DEF Undo, Edit, Event, NotSaving
<1>2. /\ DOMAIN ui = Fields /\ ui.open = TRUE /\ ui.segment \in Nat \ {0}
  BY <1>1, OpenIs DEF IndicesLie
<1>3. /\ HistoryIs(history, edits) /\ IsSequence(history) /\ Len(history) \in Nat \ {0}
      /\ e \in ToSet(history)
  <2>1. HistoryIs(history, edits)
    BY HistoryOf
  <2>2. IsSequence(history)
    BY <2>1 DEF HistoryIs
  <2>3. Len(history) \in Nat \ {0}
    BY <1>1, <2>2, ElementsAre
  <2>4. Len(history) \in 1 .. Len(history)
    BY <2>3
  <2>5. QED
    BY <2>1, <2>2, <2>3, <2>4, ElementsAre DEF Last
<1>4. /\ e = <<e[1], e[2]>> /\ IsRoute(e[1], e[2]) /\ e[2] # <<>>
  BY <1>3 DEF HistoryIs
<1> HIDE DEF e
<1>5. /\ Len(e[2]) \in Nat \ {0} /\ DOMAIN e[2] = 1 .. Len(e[2])
  BY <1>4, ElementsAre DEF IsRoute
<1>6. m \in DOMAIN e[2]
  <2> DEFINE I == {ui.segment, Len(e[2])}
  <2>1. I \in SUBSET Nat /\ I # {}
    BY <1>2, <1>5
  <2>2. Min(I) \in I /\ \A y \in I : Min(I) <= y
    <3> HIDE DEF I
    <3>1. QED
      BY <2>1, MinIsLeast
  <2>3. QED
    BY <1>2, <1>5, <2>2
<1> HIDE DEF m
<1>7. /\ DOMAIN u = Fields /\ u.open = TRUE /\ u.dragging = None /\ u.selected = None
      /\ u.through = None /\ u.segment = m
  BY <1>2 DEF Fields
<1> HIDE DEF u
<1>8. IndicesLie(u, e[1], e[2])
  BY <1>6, <1>7 DEF IndicesLie
<1> DEFINE f == Front(history)
<1>9. /\ IsSequence(f) /\ ToSet(f) \subseteq ToSet(history) /\ Len(f) = Len(history) - 1
      /\ \A i \in 1 .. Len(f) : f[i] = history[i]
  <2>1. /\ 1 \in Nat /\ Len(history) - 1 \in Nat /\ 1 <= 1
        /\ Len(history) - 1 <= Len(history)
    BY <1>3
  <2> DEFINE s == SubSeq(history, 1, Len(history) - 1)
  <2>2. /\ IsSequence(s) /\ ToSet(s) \subseteq ToSet(history)
        /\ Len(s) = IF 1 <= Len(history) - 1 THEN Len(history) - 1 - 1 + 1 ELSE 0
        /\ \A i \in 1 .. Len(history) - 1 - 1 + 1 : s[i] = history[1 + i - 1]
    BY <1>3, <2>1, PartIs
  <2> HIDE DEF s
  <2>3. Len(s) = Len(history) - 1
    <3> DEFINE n == Len(history)
    <3>1. n \in Nat \ {0} /\ Len(s) = IF 1 <= n - 1 THEN n - 1 - 1 + 1 ELSE 0
      BY <1>3, <2>2
    <3> HIDE DEF n
    <3>2. Len(s) = n - 1
      BY <3>1
    <3>3. QED
      BY <3>2 DEF n
  <2>4. ASSUME NEW i \in 1 .. Len(s) PROVE s[i] = history[i]
    <3>1. i \in Nat /\ i \in 1 .. Len(history) - 1 - 1 + 1 /\ 1 + i - 1 = i
      BY <1>3, <2>3
    <3>2. s[i] = history[1 + i - 1]
      BY <2>2, <3>1
    <3>3. QED
      BY <3>1, <3>2
  <2>5. f = s
    BY DEF Front, s
  <2>6. QED
    BY <2>2, <2>3, <2>4, <2>5
<1> HIDE DEF f
<1>10. HistoryIs(f, edits)
  BY <1>3, <1>9 DEF HistoryIs
<1>11. ASSUME edits <= HistoryLimit
       PROVE  (IF f = <<>> THEN <<e[1], e[2]>> ELSE f[1]) = <<file.waypoints, file.segments>>
  <2>1. history[1] = <<file.waypoints, file.segments>>
    BY <1>1, <1>11 DEF EditorInvariant, EditsAreUndoable
  <2>2. CASE f = <<>>
    <3>1. Len(history) = 1
      BY <1>3, <1>9, <2>2, ElementsAre
    <3>2. e = history[1]
      BY <3>1 DEF e, Last
    <3>3. QED
      BY <1>4, <2>1, <2>2, <3>2
  <2>3. CASE f # <<>>
    <3>1. 1 \in 1 .. Len(f)
      BY <1>9, <2>3, ElementsAre
    <3>2. QED
      BY <1>9, <2>1, <2>3, <3>1
  <2>4. QED
    BY <2>2, <2>3
<1>12. IsRoute(file'.waypoints, file'.segments)
  BY <1>1 DEF EditorInvariant, EditorTyped
<1>13. history' = f
  BY <1>1 DEF f
<1>14. QED
  BY <1>1, <1>4, <1>7, <1>8, <1>10, <1>11, <1>12, <1>13, MarkChangedKeeps

\* What a save writes, by name.
LEMMA WrittenIs ==
  Written = [calibrated |-> FALSE, segments |-> segments,
             waypoints |-> SavedPoints(waypoints, segments)]
  BY DEF Written, SavedPoints, SavedPoint

\* A save that may begin writes its temporary file (_save, write_waypoints_atomic).
LEMMA SaveBeginsKeeps ==
  ASSUME EditorInvariant, SaveBegins
  PROVE  EditorInvariant'
<1>1. /\ ui.open /\ Savable(waypoints, segments) /\ temp' = Written
      /\ UNCHANGED <<file, ui, waypoints, segments, history, edits>>
  BY DEF SaveBegins, SaveWrites, Event
<1>2. ui.valid
  BY <1>1 DEF EditorInvariant, StatusIsTrue
<1>3. Written' = Written
  BY <1>1 DEF Written
<1>4. SaveFollows'
  BY <1>1, <1>2, <1>3 DEF SaveFollows
<1>5. EditorTyped' /\ IndicesFollow' /\ HistoryFollows'
  BY <1>1 DEF EditorInvariant, EditorTyped, IndicesFollow, HistoryFollows, Current
<1>6. StatusIsTrue' /\ EditsAreUndoable'
  BY <1>1 DEF EditorInvariant, StatusIsTrue, EditsAreUndoable
<1>7. QED
  BY <1>4, <1>5, <1>6 DEF EditorInvariant

\* A save that fails removes its temporary file (write_waypoints_atomic).
LEMMA SaveFailsKeeps ==
  ASSUME EditorInvariant, SaveFails
  PROVE  EditorInvariant'
<1>1. temp' = NoFile /\ UNCHANGED <<file, ui, waypoints, segments, history, edits>>
  BY DEF SaveFails
<1>2. EditorTyped' /\ IndicesFollow' /\ HistoryFollows' /\ SaveFollows'
  BY <1>1 DEF EditorInvariant, EditorTyped, IndicesFollow, HistoryFollows, Current, SaveFollows
<1>3. StatusIsTrue' /\ EditsAreUndoable'
  BY <1>1 DEF EditorInvariant, StatusIsTrue, EditsAreUndoable
<1>4. QED
  BY <1>2, <1>3 DEF EditorInvariant

\* The document that replaces the one on disk is the saved route; it is what the editor
\* then shows.
LEMMA SaveEndsIs ==
  ASSUME EditorInvariant, SaveEnds
  PROVE  /\ ui.open /\ ui.valid /\ Savable(waypoints, segments) /\ IsRoute(waypoints, segments)
         /\ file'.waypoints = SavedPoints(waypoints, segments)
         /\ file'.segments = segments /\ ~ file'.calibrated
         /\ waypoints' = file'.waypoints /\ segments' = segments
<1>1. /\ ui.open /\ ui.valid /\ Savable(waypoints, segments) /\ file' = Written
      /\ waypoints' = file'.waypoints /\ segments' = file'.segments
  BY DEF EditorInvariant, SaveFollows, SaveEnds
<1>2. /\ file'.waypoints = SavedPoints(waypoints, segments)
      /\ file'.segments = segments /\ file'.calibrated = FALSE
  BY <1>1, WrittenIs
<1>3. QED
  BY <1>1, <1>2, OpenIs

\* The empty history, which an opened or a just saved editor has.
LEMMA EmptyHistory ==
  ASSUME NEW n \in Nat
  PROVE  HistoryIs(<<>>, n)
<1> DEFINE s == <<>>
           S == {}
<1>1. s \in Seq(S) /\ Len(s) = 0
  BY EmptySeq
<1> HIDE DEF s, S
<1>2. IsSequence(s) /\ ToSet(s) \subseteq S
  BY <1>1, SequenceIs
<1>3. ToSet(s) = {}
  BY <1>2 DEF S
<1>4. HistoryIs(s, n)
  BY <1>1, <1>2, <1>3 DEF HistoryIs
<1>5. QED
  BY <1>4 DEF s

\* The temporary file replaces the document, which is loaded again (_save).
LEMMA SaveEndsKeeps ==
  ASSUME EditorInvariant, SaveEnds
  PROVE  EditorInvariant'
<1>1. /\ ui.open /\ ui.valid /\ Savable(waypoints, segments) /\ IsRoute(waypoints, segments)
      /\ file'.waypoints = SavedPoints(waypoints, segments)
      /\ file'.segments = segments
      /\ waypoints' = SavedPoints(waypoints, segments) /\ segments' = segments
  BY SaveEndsIs
<1>2. /\ temp' = NoFile /\ history' = <<>> /\ edits' = edits
      /\ ui' = [ui EXCEPT !.selected = None, !.dragging = None, !.through = None,
                          !.preview = Nowhere]
  BY DEF SaveEnds
<1>3. /\ DOMAIN ui = Fields /\ ui.open = TRUE /\ IndicesLie(ui, waypoints, segments)
      /\ segments # <<>>
  BY <1>1, OpenIs
<1>4. /\ DOMAIN ui' = Fields /\ ui'.open = TRUE /\ ui'.valid = ui.valid
      /\ ui'.segment = ui.segment /\ ui'.selected = None
      /\ ui'.dragging = None /\ ui'.through = None
  BY <1>2, <1>3 DEF Fields
<1>5. /\ IsRoute(waypoints', segments') /\ Savable(waypoints', segments')
      /\ file'.waypoints = waypoints' /\ file'.segments = segments'
  BY <1>1, SavedRouteLoads
<1>6. HistoryIs(history', edits')
  <2>1. edits \in Nat
    BY DEF EditorInvariant, EditorTyped
  <2>2. QED
    BY <1>2, <2>1, EmptyHistory
<1>7. EditorTyped'
  BY <1>1, <1>3, <1>4, <1>5, <1>6 DEF EditorTyped, HistoryIs, IdleUi, Fields
<1>8. IndicesFollow'
  BY <1>1, <1>3, <1>4 DEF IndicesFollow, IndicesLie, Current
<1>9. HistoryFollows' /\ SaveFollows'
  BY <1>2, <1>4, <1>6 DEF HistoryFollows, HistoryIs, SaveFollows
<1>10. StatusIsTrue' /\ EditsAreUndoable'
  BY <1>1, <1>2, <1>4, <1>5 DEF StatusIsTrue, EditsAreUndoable
<1>11. QED
  BY <1>7, <1>8, <1>9, <1>10 DEF EditorInvariant

\* The editor opens on a document that loads (WaypointDragEditor.__init__).
LEMMA OpenEditorKeeps ==
  ASSUME EditorInvariant, OpenEditor
  PROVE  EditorInvariant'
<1> DEFINE w == file.waypoints
           s == file.segments
<1>1. /\ ~ ui.open /\ Loads(file) /\ MarkChanged(IdleUi, w, s)
      /\ history' = <<>> /\ UNCHANGED <<file, temp, edits>>
  BY DEF OpenEditor
<1>2. temp' = NoFile
  BY <1>1 DEF EditorInvariant, SaveFollows
<1>3. IsRoute(w, s) /\ edits \in Nat
  BY DEF EditorInvariant, EditorTyped
<1>4. s # <<>>
  BY <1>1 DEF Loads, ValidSegments
<1>5. HistoryIs(history', edits')
  BY <1>1, <1>3, EmptyHistory
<1>6. 1 \in DOMAIN s
  BY <1>3, <1>4, ElementsAre DEF IsRoute
<1>7. /\ DOMAIN IdleUi = Fields /\ IdleUi.open = TRUE /\ IdleUi.dragging = None
      /\ IndicesLie(IdleUi, w, s)
  BY <1>6 DEF IdleUi, Fields, IndicesLie
<1> HIDE DEF w, s
<1>8. w = file'.waypoints /\ s = file'.segments
  BY <1>1 DEF w, s
<1>9. QED
  BY <1>1, <1>2, <1>3, <1>4, <1>5, <1>7, <1>8, MarkChangedKeeps

\* A closed editor, with nothing under way.
LEMMA ClosedIs ==
  ASSUME IsRoute(file.waypoints, file.segments), temp = NoFile,
         ui = [IdleUi EXCEPT !.open = FALSE], history = <<>>, edits \in Nat
  PROVE  EditorInvariant
<1>1. DOMAIN ui = DOMAIN IdleUi /\ ui.open = FALSE
  BY DEF IdleUi
<1>2. HistoryIs(history, edits)
  BY EmptyHistory
<1>3. EditorTyped /\ IndicesFollow /\ HistoryFollows /\ SaveFollows
  BY <1>1, <1>2 DEF EditorTyped, IndicesFollow, HistoryFollows, SaveFollows, HistoryIs
<1>4. StatusIsTrue /\ EditsAreUndoable
  BY <1>1 DEF StatusIsTrue, EditsAreUndoable
<1>5. QED
  BY <1>3, <1>4 DEF EditorInvariant

\* The editor dies: the document stays, the temporary file is abandoned.
LEMMA CrashKeeps ==
  ASSUME EditorInvariant, Crash
  PROVE  EditorInvariant'
<1>1. /\ IsRoute(file'.waypoints, file'.segments) /\ temp' = NoFile
      /\ ui' = [IdleUi EXCEPT !.open = FALSE] /\ history' = <<>> /\ edits' \in Nat
  BY DEF EditorInvariant, EditorTyped, Crash
<1>2. DOMAIN ui' = DOMAIN IdleUi /\ ui'.open = FALSE
  BY <1>1 DEF IdleUi
<1>3. HistoryIs(history', edits')
  BY <1>1, EmptyHistory
<1>4. EditorTyped' /\ IndicesFollow' /\ HistoryFollows' /\ SaveFollows'
  BY <1>1, <1>2, <1>3 DEF EditorTyped, IndicesFollow, HistoryFollows, SaveFollows, HistoryIs
<1>5. StatusIsTrue' /\ EditsAreUndoable'
  BY <1>2 DEF StatusIsTrue, EditsAreUndoable
<1>6. QED
  BY <1>4, <1>5 DEF EditorInvariant

\* Before the first editor opens.
LEMMA InitEditor == Init => EditorInvariant
<1> SUFFICES ASSUME Init PROVE EditorInvariant
  OBVIOUS
<1>1. IsRoute(file.waypoints, file.segments)
  BY EditorAssumption DEF Init
<1>2. QED
  BY <1>1, ClosedIs DEF Init

-----------------------------------------------------------------------------
(* The results. *)

LEMMA NextKeeps == EditorInvariant /\ [Next]_vars => EditorInvariant'
<1> SUFFICES ASSUME EditorInvariant, [Next]_vars PROVE EditorInvariant'
  OBVIOUS
<1>1. CASE UNCHANGED vars
  <2>1. UNCHANGED <<file, temp, ui, waypoints, segments, history, edits>>
    BY <1>1 DEF vars
  <2>2. Written' = Written
    BY <2>1 DEF Written
  <2>3. QED
    BY <2>1, <2>2 DEF EditorInvariant, EditorTyped, IndicesFollow, HistoryFollows, SaveFollows,
       StatusIsTrue, EditsAreUndoable, Current
<1>2. CASE OpenEditor \/ Crash \/ SaveFails \/ SaveEnds
  BY <1>2, OpenEditorKeeps, CrashKeeps, SaveFailsKeeps, SaveEndsKeeps
<1>3. CASE Click /\ PanelClick
  BY <1>3, SegmentSelectedKeeps, DirectionSelectedKeeps, SetPickTargetKeeps,
     BeginAddThroughKeeps, ThroughSelectedKeeps, AddSelectedThroughKeeps,
     RemoveSelectedThroughKeeps, MoveSelectedThroughKeeps, SplitSegmentKeeps,
     DeleteSegmentKeeps DEF PanelClick
<1>4. CASE TextSubmitted
  BY <1>4, EndpointTypedKeeps, EndpointYawKeeps DEF TextSubmitted
<1>5. CASE PointerEvent
  BY <1>5, RightPressKeeps, ReleaseKeeps, PressToAddKeeps, PressToPickKeeps,
     PressToSelectKeeps, MotionKeeps, ScrollKeeps DEF PointerEvent
<1>6. CASE KeyEvent
  BY <1>6, KeyEscapeKeeps, UndoKeeps, SaveBeginsKeeps, KeyRKeeps DEF KeyEvent
<1>7. QED
  BY <1>1, <1>2, <1>3, <1>4, <1>5, <1>6 DEF Next

\* In every reachable state the window, the history, the save under way and the document on
\* disk agree: for any documents, names and limit of the history, any sequence of events,
\* and failed saves and crashes between them.
THEOREM EditorInvariantHolds == Spec => []EditorInvariant
<1>1. QED
  BY InitEditor, NextKeeps, PTL DEF Spec

\* The line that says whether the route may be saved always tells the truth
\* (_mark_route_changed).
THEOREM StatusIsAlwaysTrue == Spec => []StatusIsTrue
<1>1. EditorInvariant => StatusIsTrue
  BY DEF EditorInvariant
<1>2. QED
  BY <1>1, EditorInvariantHolds, PTL

\* Up to the history's limit, undoing everything always leads back to the document on disk
\* (_push_history, _undo, _save).
THEOREM EditsAreAlwaysUndoable == Spec => []EditsAreUndoable
<1>1. EditorInvariant => EditsAreUndoable
  BY DEF EditorInvariant
<1>2. QED
  BY <1>1, EditorInvariantHolds, PTL

\* The file on disk changes only to a whole document that loads again, not calibrated, with
\* the points, their order and the authored headings of the route in the editor
\* (write_waypoints_atomic, _save).
THEOREM SavesAlwaysWriteTheRoute == Spec => SaveWritesTheRoute
<1> DEFINE Written_ ==
      file' # file =>
        /\ Loads(file') /\ ~ file'.calibrated
        /\ DisplayRoute(file'.waypoints, file'.segments) = DisplayRoute(waypoints, segments)
        /\ \A w \in ToSet(waypoints) : HeadingLocked(w) =>
             Named(file'.waypoints, w.id).heading = w.heading
<1>1. EditorInvariant /\ [Next]_vars => [Written_]_vars
  <2> SUFFICES ASSUME EditorInvariant, Next, file' # file PROVE Written_
    BY DEF vars
  <2>1. SaveEnds
    BY DEF Next, OpenEditor, Crash, SaveFails, PanelClick, SegmentSelected, DirectionSelected,
       SetPickTarget, BeginAddThrough, ThroughSelected, AddSelectedThrough,
       RemoveSelectedThrough, MoveSelectedThrough, SplitSegment, DeleteSegment, TextSubmitted,
       EndpointTyped, EndpointYaw, PointerEvent, RightPress, Release, PressToAdd, PressToPick,
       PressToSelect, Motion, Scroll, KeyEvent, KeyEscape, Undo, SaveBegins, SaveWrites, KeyR,
       Edit, OnlyUi
  <2>2. /\ Savable(waypoints, segments) /\ IsRoute(waypoints, segments)
        /\ file'.waypoints = SavedPoints(waypoints, segments)
        /\ file'.segments = segments /\ ~ file'.calibrated
    BY <2>1, SaveEndsIs
  <2>3. QED
    BY <2>2, SavedRouteLoads DEF Loads
<1>2. QED
  BY <1>1, EditorInvariantHolds, PTL DEF Spec, SaveWritesTheRoute

=============================================================================
