----------------------------- MODULE IngestFacts -----------------------------
(***************************************************************************)
(* Facts shared by the proofs about the ingestion service and the worker:  *)
(* what the queue operations do to the set of elements of a sequence and   *)
(* to the number of copies of a record in it, and what the transaction     *)
(* and the deletion of a site do to the tables.                            *)
(***************************************************************************)
EXTENDS IngestStore, SequenceTheorems, FiniteSetTheorems, TLAPS

(* Sending on a channel or appending to a batch adds one element. *)
LEMMA RangeOfAppend ==
  ASSUME NEW S, NEW s \in Seq(S), NEW e \in S
  PROVE  Range(Append(s, e)) = Range(s) \cup {e}
<1>1. Append(s, e) = s \o <<e>>
  BY AppendIsConcat
<1>2. <<e>> \in Seq(S) /\ Range(<<e>>) = {e}
  BY DEF Range
<1>3. Range(s \o <<e>>) = Range(s) \cup Range(<<e>>)
  BY <1>2, RangeConcatenation
<1>4. QED
  BY <1>1, <1>2, <1>3

(* LPUSH adds one element. *)
LEMMA RangeOfCons ==
  ASSUME NEW S, NEW s \in Seq(S), NEW e \in S
  PROVE  /\ <<e>> \o s \in Seq(S)
         /\ Range(<<e>> \o s) = Range(s) \cup {e}
<1>1. <<e>> \in Seq(S) /\ Range(<<e>>) = {e}
  BY DEF Range
<1>2. Range(<<e>> \o s) = Range(<<e>>) \cup Range(s)
  BY <1>1, RangeConcatenation
<1>3. <<e>> \o s \in Seq(S)
  BY <1>1, ConcatProperties
<1>4. QED
  BY <1>1, <1>2, <1>3

(* Receiving from a channel takes its head away. *)
LEMMA RangeOfTail ==
  ASSUME NEW S, NEW s \in Seq(S), s # <<>>
  PROVE  /\ Head(s) \in S
         /\ Tail(s) \in Seq(S)
         /\ Len(Tail(s)) = Len(s) - 1
         /\ Range(s) = Range(Tail(s)) \cup {Head(s)}
<1>1. /\ Head(s) \in S /\ Tail(s) \in Seq(S) /\ Len(Tail(s)) = Len(s) - 1
      /\ \A i \in 1..Len(Tail(s)) : Tail(s)[i] = s[i + 1]
  BY HeadTailProperties
<1>2. Len(s) \in Nat /\ Len(s) # 0 /\ DOMAIN s = 1..Len(s)
      /\ DOMAIN Tail(s) = 1..Len(Tail(s)) /\ Head(s) = s[1]
  BY <1>1, LenProperties, EmptySeq
<1>3. Range(s) \subseteq Range(Tail(s)) \cup {Head(s)}
  <2>1. SUFFICES ASSUME NEW i \in 1..Len(s)
                 PROVE  s[i] = Head(s) \/ s[i] \in Range(Tail(s))
    BY <1>2 DEF Range
  <2>2. CASE i = 1
    BY <2>2, <1>2
  <2>3. CASE i # 1
    <3>1. i - 1 \in 1..Len(Tail(s)) /\ Tail(s)[i - 1] = s[i]
      BY <2>3, <1>1, <1>2
    <3>2. QED
      BY <3>1, <1>2 DEF Range
  <2>4. QED
    BY <2>2, <2>3
<1>4. Range(Tail(s)) \cup {Head(s)} \subseteq Range(s)
  <2>1. ASSUME NEW i \in 1..Len(Tail(s))
        PROVE  i + 1 \in 1..Len(s) /\ Tail(s)[i] = s[i + 1]
    BY <1>1, <1>2
  <2>2. QED
    BY <1>2, <2>1 DEF Range
<1>5. QED
  BY <1>1, <1>3, <1>4

(* Topping a batch up splits the channel in two. *)
LEMMA RangeOfSplit ==
  ASSUME NEW S, NEW s \in Seq(S), NEW n \in 0..Len(s)
  PROVE  /\ SubSeq(s, 1, n) \in Seq(S) /\ SubSeq(s, n + 1, Len(s)) \in Seq(S)
         /\ Len(SubSeq(s, 1, n)) = n
         /\ Len(SubSeq(s, n + 1, Len(s))) = Len(s) - n
         /\ Range(s) = Range(SubSeq(s, 1, n)) \cup Range(SubSeq(s, n + 1, Len(s)))
<1>0. Len(s) \in Nat
  BY LenProperties
<1>1. SubSeq(s, 1, n) \in Seq(S) /\ Len(SubSeq(s, 1, n)) = n
  BY <1>0, SubSeqProperties
<1>2. SubSeq(s, n + 1, Len(s)) \in Seq(S)
      /\ Len(SubSeq(s, n + 1, Len(s))) = Len(s) - n
  BY <1>0, SubSeqProperties
<1>3. SubSeq(s, 1, n) \o SubSeq(s, n + 1, Len(s)) = SubSeq(s, 1, Len(s))
  <2>1. 1 \in 1..Len(s) + 1 /\ n \in 1 - 1..Len(s) /\ Len(s) \in n..Len(s)
    BY <1>0
  <2>2. QED
    BY <2>1, ConcatAdjacentSubSeq, Zenon
<1>4. SubSeq(s, 1, Len(s)) = s
  BY SubSeqFull
<1>5. Range(SubSeq(s, 1, n) \o SubSeq(s, n + 1, Len(s)))
        = Range(SubSeq(s, 1, n)) \cup Range(SubSeq(s, n + 1, Len(s)))
  BY <1>1, <1>2, RangeConcatenation
<1>6. QED
  BY <1>1, <1>2, <1>3, <1>4, <1>5

-----------------------------------------------------------------------------
(* How many copies of a record a sequence holds. *)
Places(s, id) == {i \in DOMAIN s : s[i] = id}
Occurrences(s, id) == Cardinality(Places(s, id))

LEMMA OccurrencesType ==
  ASSUME NEW S, NEW s \in Seq(S), NEW id
  PROVE  /\ IsFiniteSet(Places(s, id))
         /\ Occurrences(s, id) \in Nat
         /\ Occurrences(s, id) > 0 <=> id \in Range(s)
<1>1. Len(s) \in Nat /\ DOMAIN s = 1..Len(s)
  BY LenProperties
<1>2. IsFiniteSet(1..Len(s))
  BY <1>1, FS_Interval
<1>3. Places(s, id) \in SUBSET (1..Len(s))
  BY <1>1 DEF Places
<1>4. IsFiniteSet(Places(s, id))
  BY <1>2, <1>3, FS_Subset
<1>5. Occurrences(s, id) \in Nat
  BY <1>4, FS_CardinalityType DEF Occurrences
<1>6. Occurrences(s, id) = 0 <=> Places(s, id) = {}
  BY <1>4, FS_EmptySet DEF Occurrences
<1>7. Places(s, id) = {} <=> id \notin Range(s)
  BY DEF Places, Range
<1>8. QED
  BY <1>4, <1>5, <1>6, <1>7

LEMMA OccurrencesOfConcat ==
  ASSUME NEW S, NEW s \in Seq(S), NEW t \in Seq(S), NEW id
  PROVE  Occurrences(s \o t, id) = Occurrences(s, id) + Occurrences(t, id)
<1> DEFINE shifted == {i \in Len(s) + 1..Len(s) + Len(t) : t[i - Len(s)] = id}
           back == [i \in Places(t, id) |-> i + Len(s)]
<1>1. /\ Len(s) \in Nat /\ DOMAIN s = 1..Len(s)
      /\ Len(t) \in Nat /\ DOMAIN t = 1..Len(t)
  BY LenProperties
<1>2. /\ s \o t \in Seq(S) /\ Len(s \o t) = Len(s) + Len(t)
      /\ \A i \in 1..Len(s) + Len(t) :
           (s \o t)[i] = IF i <= Len(s) THEN s[i] ELSE t[i - Len(s)]
  BY ConcatProperties
<1>3. DOMAIN (s \o t) = 1..Len(s) + Len(t)
  BY <1>2, LenProperties
<1>4. Places(s \o t, id) = Places(s, id) \cup shifted
  <2>1. \A i \in 1..Len(s) + Len(t) :
          \/ i \in 1..Len(s) /\ (s \o t)[i] = s[i]
          \/ i \in Len(s) + 1..Len(s) + Len(t) /\ (s \o t)[i] = t[i - Len(s)]
    BY <1>1, <1>2
  <2>2. \A i \in 1..Len(s) : i \in 1..Len(s) + Len(t) /\ i \notin Len(s) + 1..Len(s) + Len(t)
    BY <1>1
  <2>3. \A i \in Len(s) + 1..Len(s) + Len(t) : i \in 1..Len(s) + Len(t)
    BY <1>1
  <2>4. QED
    BY <1>1, <1>3, <2>1, <2>2, <2>3 DEF Places
<1>5. Places(s, id) \cap shifted = {}
  BY <1>1 DEF Places
<1>6. back \in Bijection(Places(t, id), shifted)
  <2>1. \A i \in Places(t, id) : i \in 1..Len(t) /\ i + Len(s) \in shifted
    BY <1>1 DEF Places
  <2>2. back \in [Places(t, id) -> shifted]
    BY <2>1
  <2>3. \A a, b \in Places(t, id) : back[a] = back[b] => a = b
    BY <1>1, <2>1
  <2>4. \A k \in shifted : k - Len(s) \in Places(t, id) /\ back[k - Len(s)] = k
    BY <1>1 DEF Places
  <2>5. QED
    BY <2>2, <2>3, <2>4 DEF Bijection, Injection, Surjection, IsInjective
<1>7. ExistsBijection(Places(t, id), shifted)
  BY <1>6 DEF ExistsBijection
<1>8. /\ IsFiniteSet(Places(s, id)) /\ IsFiniteSet(Places(t, id))
      /\ Occurrences(s, id) \in Nat /\ Occurrences(t, id) \in Nat
  BY OccurrencesType
<1>9. IsFiniteSet(shifted) /\ Cardinality(shifted) = Occurrences(t, id)
  BY <1>7, <1>8, FS_Bijection DEF Occurrences
<1> HIDE DEF shifted
<1>10. Cardinality(Places(s, id) \cup shifted)
         = Cardinality(Places(s, id)) + Cardinality(shifted) - Cardinality({})
  BY <1>5, <1>8, <1>9, FS_Union
<1>11. QED
  BY <1>4, <1>8, <1>9, <1>10, FS_EmptySet DEF Occurrences

LEMMA OccurrencesOfOne ==
  ASSUME NEW e, NEW id
  PROVE  Occurrences(<<e>>, id) = IF e = id THEN 1 ELSE 0
<1>1. Places(<<e>>, id) = IF e = id THEN {1} ELSE {}
  BY DEF Places
<1>2. QED
  BY <1>1, FS_Singleton, FS_EmptySet DEF Occurrences

-----------------------------------------------------------------------------
(* The transaction keeps the tables well-typed. *)
LEMMA CommitType ==
  ASSUME StoreTypeOK, NEW b \in Seq(Ids), Commit(b)
  PROVE  StoreTypeOK'
<1>1. Range(b) \subseteq Ids
  BY RangeOfSeq
<1>2. \A id \in Ids : RowsCopied(b, id) \in {0, 1}
  BY DEF RowsCopied
<1>3. rows' \in [Ids -> Nat]
  <2>1. \A id \in Ids : rows[id] + RowsCopied(b, id) \in Nat
    BY <1>2 DEF StoreTypeOK
  <2>2. QED
    BY <2>1 DEF Commit
<1>4. QED
  BY <1>1, <1>3 DEF Commit, Accepted, StoreTypeOK

(* A committed batch leaves each of its records with a receipt and a row.  *)
LEMMA CommitFacts ==
  ASSUME StoreTypeOK, ExactlyOnce, NEW b \in Seq(Ids), Commit(b)
  PROVE  /\ StoreTypeOK'
         /\ ExactlyOnce'
         /\ receipts' = receipts \cup Range(b)
         /\ sites' = sites
<1>1. StoreTypeOK'
  BY CommitType
<1>2. receipts' = receipts \cup Range(b) /\ sites' = sites
  BY DEF Commit, Accepted
<1>3. ASSUME NEW id \in Ids
      PROVE  /\ RowsCopied(b, id) \in {0, 1}
             /\ RowsCopied(b, id) = 1 <=> id \in Range(b) \ receipts
  BY DEF RowsCopied, Accepted
<1>5. ASSUME NEW id \in Ids
      PROVE  rows'[id] = IF id \in receipts' THEN 1 ELSE 0
  <2>1. rows'[id] = rows[id] + RowsCopied(b, id)
    BY DEF Commit
  <2>2. rows[id] = IF id \in receipts THEN 1 ELSE 0
    BY DEF ExactlyOnce
  <2>3. QED
    BY <1>2, <1>3, <2>1, <2>2
<1>6. QED
  BY <1>1, <1>2, <1>5 DEF ExactlyOnce

(* Deleting a site removes its receipts and rows and nothing else. *)
LEMMA DeleteFacts ==
  ASSUME StoreTypeOK, ExactlyOnce, NEW s, DeleteSite(s)
  PROVE  /\ StoreTypeOK'
         /\ ExactlyOnce'
         /\ sites' = sites \ {s}
         /\ \A id \in receipts : SiteOf[id] # s => id \in receipts'
BY DEF DeleteSite, StoreTypeOK, ExactlyOnce
=============================================================================
