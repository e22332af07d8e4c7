---------------------------- MODULE HistoryFacts ----------------------------
(***************************************************************************)
(* Facts about histories: sequences of receipts that only grow, of which a *)
(* power loss may bring back a prefix.                                     *)
(***************************************************************************)
EXTENDS Sequences, SequencesExt, TLAPS

\* A history with one more receipt, index by index.
LEMMA AppendFacts ==
  ASSUME NEW S, NEW h \in Seq(S), NEW r \in S
  PROVE  /\ Append(h, r) \in [1 .. (Len(h) + 1) -> S]
         /\ \A i \in 1 .. Len(h) : Append(h, r)[i] = h[i]
         /\ Append(h, r)[Len(h) + 1] = r
<1>1. Append(h, r) \in Seq(S) /\ Len(Append(h, r)) = Len(h) + 1
  OBVIOUS
<1>2. Append(h, r) \in [1 .. (Len(h) + 1) -> S]
  <2>1. ASSUME NEW a \in Seq(S) PROVE a \in [1 .. Len(a) -> S]
    OBVIOUS
  <2> QED BY <1>1, <2>1
<1>3. \A i \in 1 .. Len(h) : Append(h, r)[i] = h[i]
  OBVIOUS
<1>4. Append(h, r)[Len(h) + 1] = r
  OBVIOUS
<1> QED BY <1>2, <1>3, <1>4

\* An appended receipt is a member of the history, and nothing is forgotten.
LEMMA AppendSet ==
  ASSUME NEW S, NEW h \in Seq(S), NEW r \in S
  PROVE  ToSet(Append(h, r)) = ToSet(h) \cup {r}
<1> DEFINE a == Append(h, r)
<1>1. /\ Len(h) \in Nat
      /\ DOMAIN h = 1 .. Len(h) /\ DOMAIN a = 1 .. (Len(h) + 1)
      /\ \A i \in 1 .. Len(h) : a[i] = h[i]
      /\ a[Len(h) + 1] = r
  OBVIOUS
<1>2. ToSet(a) \subseteq ToSet(h) \cup {r}
  BY <1>1 DEF ToSet
<1>3. ToSet(h) \subseteq ToSet(a)
  <2>1. SUFFICES ASSUME NEW i \in 1 .. Len(h) PROVE h[i] \in ToSet(a)
    BY <1>1 DEF ToSet
  <2>2. i \in DOMAIN a /\ a[i] = h[i]
    BY <1>1
  <2> QED BY <2>2 DEF ToSet
<1>4. r \in ToSet(a)
  <2>1. Len(h) + 1 \in DOMAIN a
    BY <1>1
  <2> QED BY <1>1, <2>1 DEF ToSet
<1> QED BY <1>2, <1>3, <1>4

\* Appending a request that is not there keeps a history free of repetitions.
LEMMA ReceiptsStayDistinct ==
  ASSUME NEW S, NEW h \in Seq(S), NEW r \in S, r \notin ToSet(h), IsInjective(h),
         NEW longer, longer = Append(h, r)
  PROVE  IsInjective(longer)
<1>1. /\ Len(h) \in Nat
      /\ DOMAIN h = 1 .. Len(h) /\ DOMAIN longer = 1 .. (Len(h) + 1)
      /\ \A i \in 1 .. Len(h) : longer[i] = h[i]
      /\ longer[Len(h) + 1] = r
  OBVIOUS
<1>2. \A i \in 1 .. Len(h) : h[i] # r
  BY <1>1 DEF ToSet
<1>3. ASSUME NEW i \in 1 .. (Len(h) + 1), NEW j \in 1 .. (Len(h) + 1), longer[i] = longer[j]
      PROVE  i = j
  <2>1. CASE i = Len(h) + 1 \/ j = Len(h) + 1
    BY <1>1, <1>2, <1>3, <2>1
  <2>2. CASE i \in 1 .. Len(h) /\ j \in 1 .. Len(h)
    BY <1>1, <1>3, <2>2 DEF IsInjective
  <2> QED BY <1>1, <2>1, <2>2
<1> QED BY <1>1, <1>3 DEF IsInjective

\* The prefix relation, index by index.
LEMMA PrefixByIndex ==
  ASSUME NEW S, NEW s \in Seq(S), NEW t \in Seq(S)
  PROVE  IsPrefix(s, t) <=> Len(s) <= Len(t) /\ \A i \in 1 .. Len(s) : s[i] = t[i]
BY DEF IsPrefix

\* A prefix of a history is a prefix of the history with one more receipt.
LEMMA PrefixAppend ==
  ASSUME NEW S, NEW s \in Seq(S), NEW t \in Seq(S), NEW r \in S, IsPrefix(s, t)
  PROVE  IsPrefix(s, Append(t, r))
<1>1. /\ Append(t, r) \in Seq(S)
      /\ Len(Append(t, r)) = Len(t) + 1
      /\ \A i \in 1 .. Len(t) : Append(t, r)[i] = t[i]
  OBVIOUS
<1>2. Len(s) <= Len(t) /\ \A i \in 1 .. Len(s) : s[i] = t[i]
  BY PrefixByIndex
<1>3. /\ Len(s) <= Len(Append(t, r))
      /\ \A i \in 1 .. Len(s) : s[i] = Append(t, r)[i]
  BY <1>1, <1>2
<1> QED BY <1>1, <1>3, PrefixByIndex

\* A history is a prefix of itself.
LEMMA PrefixReflexive ==
  ASSUME NEW S, NEW s \in Seq(S)
  PROVE  IsPrefix(s, s)
BY PrefixByIndex

\* What a prefix records the longer history records.
LEMMA PrefixSet ==
  ASSUME NEW S, NEW s \in Seq(S), NEW t \in Seq(S), IsPrefix(s, t)
  PROVE  ToSet(s) \subseteq ToSet(t)
BY PrefixByIndex DEF ToSet

\* A prefix of a history without repetitions has none.
LEMMA PrefixDistinct ==
  ASSUME NEW S, NEW s \in Seq(S), NEW t \in Seq(S), IsPrefix(s, t), IsInjective(t)
  PROVE  IsInjective(s)
BY PrefixByIndex DEF IsInjective
=============================================================================
