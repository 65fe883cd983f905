--------------------------- MODULE SequenceFacts ---------------------------
(***************************************************************************)
(* Facts about the values that occur in a sequence, for the proof modules. *)
(***************************************************************************)
EXTENDS Integers, Sequences, Functions, TLAPS

LEMMA RangeEmpty == Range(<<>>) = {}
BY DEF Range

LEMMA RangeAppend ==
    ASSUME NEW S, NEW s \in Seq(S), NEW x \in S
    PROVE  Range(Append(s, x)) = Range(s) \cup {x}
<1>1. DOMAIN Append(s, x) = 1..Len(s) + 1 /\ Len(s) \in Nat
  OBVIOUS
<1>2. Append(s, x)[Len(s) + 1] = x
  OBVIOUS
<1>3. \A i \in 1..Len(s) : Append(s, x)[i] = s[i]
  OBVIOUS
<1>4. DOMAIN s = 1..Len(s)
  OBVIOUS
<1> QED
  BY <1>1, <1>2, <1>3, <1>4 DEF Range

LEMMA RangeHeadTail ==
    ASSUME NEW S, NEW s \in Seq(S), s # <<>>
    PROVE  /\ Head(s) \in S /\ Tail(s) \in Seq(S)
           /\ Len(Tail(s)) = Len(s) - 1
           /\ Range(s) = {Head(s)} \cup Range(Tail(s))
<1>1. Len(s) \in Nat /\ Len(s) > 0 /\ DOMAIN s = 1..Len(s)
  OBVIOUS
<1>2. Tail(s) \in Seq(S) /\ Len(Tail(s)) = Len(s) - 1
  BY <1>1
<1>3. \A i \in 1..Len(s) - 1 : Tail(s)[i] = s[i + 1]
  BY <1>1
<1>4. DOMAIN Tail(s) = 1..Len(s) - 1
  BY <1>2
<1>5. Head(s) = s[1] /\ Head(s) \in S
  BY <1>1
<1>6. Range(s) \subseteq {Head(s)} \cup Range(Tail(s))
  <2> SUFFICES ASSUME NEW i \in 1..Len(s)
               PROVE  s[i] \in {Head(s)} \cup Range(Tail(s))
    BY <1>1 DEF Range
  <2>1. CASE i = 1
    BY <2>1, <1>5
  <2>2. CASE i # 1
    <3>1. i - 1 \in 1..Len(s) - 1 /\ (i - 1) + 1 = i
      BY <2>2, <1>1
    <3>2. Tail(s)[i - 1] = s[i]
      BY <3>1, <1>3
    <3> QED
      BY <3>1, <3>2, <1>4 DEF Range
  <2> QED
    BY <2>1, <2>2
<1>7. {Head(s)} \cup Range(Tail(s)) \subseteq Range(s)
  <2>1. Head(s) \in Range(s)
    BY <1>1, <1>5 DEF Range
  <2>2. ASSUME NEW i \in 1..Len(s) - 1
        PROVE  Tail(s)[i] \in Range(s)
    <3>1. i + 1 \in 1..Len(s) /\ Tail(s)[i] = s[i + 1]
      BY <1>1, <1>3
    <3> QED
      BY <3>1, <1>1 DEF Range
  <2> QED
    BY <2>1, <2>2, <1>4 DEF Range
<1> QED
  BY <1>2, <1>5, <1>6, <1>7

LEMMA RangeSubSeq ==
    ASSUME NEW S, NEW s \in Seq(S), NEW m \in 1..Len(s) + 1, NEW n \in 0..Len(s)
    PROVE  /\ SubSeq(s, m, n) \in Seq(S)
           /\ Range(SubSeq(s, m, n)) \subseteq Range(s)
           /\ Len(SubSeq(s, m, n)) = IF m <= n THEN n - m + 1 ELSE 0
<1>1. Len(s) \in Nat /\ DOMAIN s = 1..Len(s)
  OBVIOUS
<1>2. Len(SubSeq(s, m, n)) = (IF m <= n THEN n - m + 1 ELSE 0)
  BY <1>1
<1>3. SubSeq(s, m, n) \in Seq(S)
  BY <1>1
<1>4. \A i \in 1..Len(SubSeq(s, m, n)) : 
         i + m - 1 \in 1..Len(s) /\ SubSeq(s, m, n)[i] = s[i + m - 1]
  BY <1>1, <1>2
<1>5. DOMAIN SubSeq(s, m, n) = 1..Len(SubSeq(s, m, n))
  BY <1>3
<1> QED
  BY <1>1, <1>2, <1>3, <1>4, <1>5 DEF Range
=============================================================================
