-------------------------- MODULE QueryIndexProofs --------------------------
(* The queries of the message archive: whatever is stored, torn or asked   *)
(* meanwhile, a query passes over no stored message and gives exactly the  *)
(* page that was asked for.  The invariant says what an index is, that the *)
(* lines of the start are covered, and of the merge that what the cursors  *)
(* have passed is the beginning of the list of all wanted messages.        *)
EXTENDS QueryIndex, SortingProofs, SequenceTheorems

Records == Shapes \cup {Garbled}

(* What every variable holds, once a query has begun.                      *)
TypeOK ==
    /\ files \in [Files -> Seq(Records)]
    /\ torn \subseteq Files
    /\ DOMAIN indexes \subseteq Files
    /\ DOMAIN next \subseteq Files
    /\ pc \in {"idle", "index", "merge", "done"}
    /\ pc # "idle" => query \in Queries
    /\ atStart \in [Files -> Nat]

(* Every line that an index covers has one entry, newest first, and could  *)
(* be decoded.                                                             *)
Good(f, s) ==
    /\ s \in Seq(Nat)
    /\ Len(s) <= Len(files[f])
    /\ \A i \in 1 .. Len(s) : s[i] \in 1 .. Len(s)
    /\ \A n \in 1 .. Len(s) : \E i \in 1 .. Len(s) : s[i] = n
    /\ \A i, j \in 1 .. Len(s) : i < j => Newer(f, s[i], s[j])
    /\ \A n \in 1 .. Len(s) : At(f, n) # Garbled

IndexInv ==
    /\ \A f \in DOMAIN indexes : Good(f, indexes[f])
    /\ \A f \in DOMAIN next : Good(f, next[f])

(* The lines that the files had at the start are still there, in the index *)
(* of every file that has been read, and every file is read before merging.*)
StartListed ==
    pc = "index" =>
        \A f \in Files : /\ atStart[f] <= Len(files[f]) + 1
                         /\ f \in torn \/ atStart[f] <= Len(files[f])

StartIndexed ==
    pc # "idle" => \A f \in DOMAIN next : atStart[f] <= Len(next[f])

StartComplete ==
    pc = "merge" \/ (pc = "done" /\ ~response.error) =>
        \A f \in Files : atStart[f] > 0 => f \in DOMAIN next

StartInv == StartListed /\ StartIndexed /\ StartComplete

(* The wanted messages that the cursors have not passed.                   *)
Left ==
    {p \in Wanted : /\ p[1] \in DOMAIN heap
                    /\ \E i \in heap[p[1]] .. Len(next[p[1]]) : next[p[1]][i] = p[2]}

Passed == Wanted \ Left

CursorInv ==
    /\ DOMAIN heap \subseteq DOMAIN next
    /\ \A f \in DOMAIN heap :
          /\ heap[f] \in 1 .. Len(next[f])
          /\ \A i \in heap[f] .. Len(next[f]) : At(f, next[f][i]).at <= query.until

FoundInv ==
    /\ skipped \in Nat /\ skipped <= query.offset
    /\ messages \in Seq(Wanted)
    /\ Len(messages) <= StoreLimit
    /\ Len(messages) > 0 => skipped = query.offset
    /\ \A i \in 1 .. Len(messages) :
          Rank(messages[i], Wanted, Before) = query.offset + i - 1

PassedInv ==
    /\ \A p \in Passed, q \in Left : <<p, q>> \in Before
    /\ Cardinality(Passed) = skipped + Len(messages)

SearchInv ==
    /\ pc = "index" => skipped = 0 /\ messages = <<>>
    /\ pc = "merge" => CursorInv /\ FoundInv /\ PassedInv

Inv == TypeOK /\ IndexInv /\ StartInv /\ SearchInv /\ PageExact

-----------------------------------------------------------------------------
(* Records, times and the orders they give.                                *)

LEMMA RecordTimes ==
    \A m \in Records : m.at \in Int
<1>1. Garbled.at = 0
  BY DEF Garbled
<1>. QED
  BY <1>1, ShapesAssumption DEF Records

(* Lines of a file are in a linear order.                                  *)
LEMMA NewerLinear ==
    ASSUME TypeOK, NEW f \in Files, NEW S \in SUBSET (1 .. Len(files[f]))
    PROVE  LinearOn(S, {p \in S \X S : Newer(f, p[1], p[2])})
<1>1. \A n \in S : n \in Int /\ At(f, n).at \in Int
  BY RecordTimes DEF TypeOK, At
<1>2. \A a \in S : ~Newer(f, a, a)
  BY <1>1 DEF Newer
<1>3. \A a, b \in S : a # b => Newer(f, a, b) \/ Newer(f, b, a)
  BY <1>1 DEF Newer
<1>4. \A a, b, c \in S : Newer(f, a, b) /\ Newer(f, b, c) => Newer(f, a, c)
  BY <1>1 DEF Newer
<1>. DEFINE N(a, b) == Newer(f, a, b)
<1>5. \A a, b \in S : <<a, b>> \in {p \in S \X S : N(p[1], p[2])} <=> N(a, b)
  OBVIOUS
<1>. QED
  BY <1>2, <1>3, <1>4, <1>5 DEF LinearOn

(* The entries that are left when the new ones are sorted in.              *)
LEMMA NewestGood ==
    ASSUME TypeOK, NEW f \in Files,
           \A n \in 1 .. Len(files[f]) : At(f, n) # Garbled
    PROVE  Good(f, Newest(f, 1 .. Len(files[f])))
<1>. DEFINE L == Len(files[f])
            S == 1 .. L
            order == {p \in S \X S : Newer(f, p[1], p[2])}
            s == Sorted(S, order)
<1>1. L \in Nat
  BY DEF TypeOK
<1>2. IsFiniteSet(S) /\ Cardinality(S) = L
  <2>. HIDE DEF L
  <2>. QED
    BY <1>1, FS_Interval
<1>3. LinearOn(S, order)
  BY NewerLinear
<1>. HIDE DEF order
<1>4. /\ s \in Seq(S) /\ Len(s) = L
      /\ \A i, j \in 1 .. L : i < j => <<s[i], s[j]>> \in order
      /\ \A a \in S : \E i \in 1 .. L : s[i] = a
  <2>. HIDE DEF L
  <2>1. /\ s \in Seq(S) /\ Len(s) = Cardinality(S)
        /\ \A i, j \in 1 .. Cardinality(S) : i < j => <<s[i], s[j]>> \in order
        /\ \A a \in S : \E i \in 1 .. Cardinality(S) : s[i] = a
    BY <1>2, <1>3, SortedOrders
  <2>. QED
    BY <1>2, <2>1
<1>5. Newest(f, S) = s
  BY DEF Newest, order
<1>. HIDE DEF s
<1>6. \A i \in 1 .. L : s[i] \in S
  <2>. HIDE DEF L, S
  <2>. QED
    BY <1>4, ElementOfSeq
<1>7. \A i, j \in 1 .. L : i < j => Newer(f, s[i], s[j])
  BY <1>4, <1>6 DEF order
<1>8. s \in Seq(Nat)
  BY <1>1, <1>4
<1>. QED
  <2>1. \A n \in 1 .. Len(s) : \E i \in 1 .. Len(s) : s[i] = n
    BY <1>4
  <2>2. Len(s) <= Len(files[f])
    <3>. HIDE DEF L
    <3>1. Len(s) <= L
      BY <1>1, <1>4
    <3>. QED
      BY <3>1 DEF L
  <2>3. \A i \in 1 .. Len(s) : s[i] \in 1 .. Len(s)
    BY <1>4, <1>6
  <2>4. \A n \in 1 .. Len(s) : At(f, n) # Garbled
    BY <1>4
  <2>5. \A i, j \in 1 .. Len(s) : i < j => Newer(f, s[i], s[j])
    BY <1>4, <1>7
  <2>6. Good(f, s)
    BY <1>8, <2>1, <2>2, <2>3, <2>4, <2>5 DEF Good
  <2>. QED
    BY <1>5, <2>6

(* queryIndexes: an index brought up to date covers the whole file.        *)
LEMMA EntriesGood ==
    ASSUME TypeOK, IndexInv, NEW f \in Files, ~Unreadable(f)
    PROVE  Good(f, Entries(f)) /\ Len(Entries(f)) = Len(files[f])
<1>. DEFINE C == Cached(f)
            L == Len(files[f])
<1>1. Good(f, C)
  <2>1. CASE f \in DOMAIN indexes
    BY <2>1 DEF IndexInv, Cached
  <2>2. CASE f \notin DOMAIN indexes
    BY <2>2 DEF Cached, Good, TypeOK
  <2>. QED
    BY <2>1, <2>2
<1>2. L \in Nat /\ Len(C) \in Nat /\ Len(C) <= L
  BY <1>1 DEF Good, TypeOK
<1>3. CASE L = Len(C)
  BY <1>1, <1>3 DEF Entries
<1>4. CASE L # Len(C)
  <2>1. ToSet(C) = 1 .. Len(C)
    <3>1. /\ DOMAIN C = 1 .. Len(C)
          /\ \A i \in 1 .. Len(C) : C[i] \in 1 .. Len(C)
          /\ \A n \in 1 .. Len(C) : \E i \in 1 .. Len(C) : C[i] = n
      BY <1>1 DEF Good
    <3>. HIDE DEF C
    <3>. QED
      BY <3>1 DEF ToSet
  <2>2. ToSet(C) \cup (Len(C) + 1 .. L) = 1 .. L
    BY <1>2, <2>1
  <2>3. Entries(f) = Newest(f, 1 .. L)
    BY <1>4, <2>2 DEF Entries
  <2>4. \A n \in 1 .. Len(C) : At(f, n) # Garbled
    BY <1>1 DEF Good
  <2>5. \A n \in Len(C) + 1 .. L : At(f, n) # Garbled
    BY DEF Unreadable, At
  <2>6. \A n \in 1 .. L : At(f, n) # Garbled
    BY <1>2, <2>4, <2>5
  <2>7. Good(f, Newest(f, 1 .. L))
    BY <2>6, NewestGood
  <2>8. Len(Newest(f, 1 .. L)) = L
    <3>1. IsFiniteSet(1 .. L) /\ Cardinality(1 .. L) = L
      <4>. HIDE DEF L, C
      <4>. QED
        BY <1>2, FS_Interval
    <3>. QED
      BY <1>2, <3>1, NewerLinear, SortedOrders DEF Newest
  <2>. QED
    BY <2>3, <2>7, <2>8
<1>. QED
  BY <1>3, <1>4

-----------------------------------------------------------------------------
(* The list of the wanted messages.                                        *)

LEMMA WantedMembers ==
    ASSUME TypeOK, IndexInv
    PROVE  \A p \in Wanted :
              /\ p = <<p[1], p[2]>>
              /\ p[1] \in DOMAIN next /\ p[1] \in Files /\ p[1] \in Int
              /\ p[2] \in 1 .. Len(next[p[1]]) /\ p[2] \in Nat
              /\ p[2] \in 1 .. Len(files[p[1]])
              /\ At(p[1], p[2]).at \in Int
<1>. SUFFICES ASSUME NEW p \in Wanted
              PROVE  /\ p = <<p[1], p[2]>>
                     /\ p[1] \in DOMAIN next /\ p[1] \in Files /\ p[1] \in Int
                     /\ p[2] \in 1 .. Len(next[p[1]]) /\ p[2] \in Nat
                     /\ p[2] \in 1 .. Len(files[p[1]])
                     /\ At(p[1], p[2]).at \in Int
  OBVIOUS
<1>1. PICK f \in DOMAIN next : p \in {f} \X (1 .. Len(next[f]))
  BY DEF Wanted
<1>2. p = <<p[1], p[2]>> /\ p[1] = f /\ p[2] \in 1 .. Len(next[f])
  BY <1>1
<1>3. f \in Files /\ Len(next[f]) \in Nat /\ Len(next[f]) <= Len(files[f])
  BY DEF TypeOK, IndexInv, Good
<1>4. Len(files[f]) \in Nat /\ f \in Int
  BY <1>3, NumFilesAssumption DEF TypeOK, Files
<1>5. p[2] \in 1 .. Len(files[f])
  BY <1>2, <1>3, <1>4
<1>6. At(f, p[2]).at \in Int
  BY <1>3, <1>5, RecordTimes DEF TypeOK, At
<1>. QED
  BY <1>2, <1>3, <1>4, <1>5, <1>6

LEMMA WantedFinite ==
    ASSUME TypeOK, IndexInv
    PROVE  IsFiniteSet(Wanted)
<1>. DEFINE lines == [f \in DOMAIN next |-> {f} \X (1 .. Len(next[f]))]
            T == {{f} \X (1 .. Len(next[f])) : f \in DOMAIN next}
<1>1. IsFiniteSet(DOMAIN next)
  <2>1. IsFiniteSet(Files)
    BY NumFilesAssumption, FS_Interval DEF Files
  <2>. QED
    BY <2>1, FS_Subset DEF TypeOK
<1>2. lines \in Surjection(DOMAIN next, T)
  BY DEF Surjection
<1>3. IsFiniteSet(T)
  <2>. HIDE DEF lines, T
  <2>. QED
    BY <1>1, <1>2, FS_Surjection
<1>4. ASSUME NEW f \in DOMAIN next PROVE IsFiniteSet({f} \X (1 .. Len(next[f])))
  <2>1. Len(next[f]) \in Nat
    BY DEF IndexInv, Good
  <2>2. IsFiniteSet(1 .. Len(next[f]))
    BY <2>1, FS_Interval
  <2>3. IsFiniteSet({f})
    BY FS_Singleton
  <2>. QED
    BY <2>2, <2>3, FS_Product
<1>5. \A U \in T : IsFiniteSet(U)
  BY <1>4
<1>6. IsFiniteSet(UNION T)
  <2>. HIDE DEF T
  <2>. QED
    BY <1>3, <1>5, FS_UNION
<1>7. Wanted \subseteq UNION T
  BY DEF Wanted
<1>. QED
  BY <1>6, <1>7, FS_Subset

LEMMA AheadLinear ==
    ASSUME TypeOK, IndexInv
    PROVE  /\ LinearOn(Wanted, Before)
           /\ \A p, q \in Wanted : <<p, q>> \in Before <=> Ahead(p, q)
<1>1. \A p, q \in Wanted : <<p, q>> \in Before <=> Ahead(p, q)
  BY DEF Before
<1>2. \A p \in Wanted : /\ p = <<p[1], p[2]>> /\ p[1] \in Int /\ p[2] \in Int
                        /\ At(p[1], p[2]).at \in Int
  BY WantedMembers
<1>3. \A p \in Wanted : ~Ahead(p, p)
  BY <1>2 DEF Ahead
<1>4. \A p, q \in Wanted : p # q => Ahead(p, q) \/ Ahead(q, p)
  BY <1>2 DEF Ahead
<1>5. \A p, q, r \in Wanted : Ahead(p, q) /\ Ahead(q, r) => Ahead(p, r)
  BY <1>2 DEF Ahead
<1>. QED
  BY <1>1, <1>3, <1>4, <1>5 DEF LinearOn

(* What was found, cut at the limit, is the page of the list, and is cut   *)
(* if and only if the list goes on.                                        *)
IsPage(found, list, offset, limit) ==
    /\ SubSeq(found, 1, IF Len(found) > limit THEN limit ELSE Len(found))
           = SubSeq(list, offset + 1, LesserOf(offset + limit, Len(list)))
    /\ (Len(found) > limit) = (Len(list) > offset + limit)

(* Messages found one after the other, from the rank of the offset on, are *)
(* the page, once there is one too many or nothing is left.                *)
LEMMA FoundIsPage ==
    ASSUME NEW S, IsFiniteSet(S), NEW before, LinearOn(S, before),
           NEW offset \in Nat, NEW limit \in Nat, NEW past \in Nat,
           NEW found \in Seq(S), Len(found) <= limit + 1,
           past <= offset, Len(found) > 0 => past = offset,
           \A i \in 1 .. Len(found) : Rank(found[i], S, before) = offset + i - 1,
           Len(found) = limit + 1 \/ Cardinality(S) = past + Len(found)
    PROVE  IsPage(found, Sorted(S, before), offset, limit)
<1>. DEFINE N == Cardinality(S)
            L == Len(found)
            list == Sorted(S, before)
            last == IF L > limit THEN limit ELSE L
            end == LesserOf(offset + limit, N)
<1>1. N \in Nat /\ L \in Nat
  BY FS_CardinalityType
<1>2. \A a \in S : Rank(a, S, before) \in Nat /\ Rank(a, S, before) + 1 \in 1 .. N
  BY RanksAll
<1>3. \A i \in 1 .. L : found[i] \in S
  BY <1>1
<1>4. /\ Len(list) = N
      /\ list \in Seq(S)
      /\ \A k \in 1 .. N : list[k] \in S /\ Rank(list[k], S, before) = k - 1
  BY SortedOrders, SortedRank
<1>. HIDE DEF N, L, list
<1>5. \A i \in 1 .. L : offset + i \in 1 .. N
  <2>. SUFFICES ASSUME NEW i \in 1 .. L PROVE offset + i \in 1 .. N
    OBVIOUS
  <2>1. Rank(found[i], S, before) = offset + i - 1
    BY DEF L
  <2>2. Rank(found[i], S, before) + 1 \in 1 .. N
    BY <1>2, <1>3
  <2>. QED
    BY <1>1, <2>1, <2>2
<1>6. \A i \in 1 .. L : list[offset + i] = found[i]
  <2>. SUFFICES ASSUME NEW i \in 1 .. L PROVE list[offset + i] = found[i]
    OBVIOUS
  <2>1. offset + i \in 1 .. N /\ found[i] \in S
    BY <1>3, <1>5
  <2>2. /\ list[offset + i] \in S
        /\ Rank(list[offset + i], S, before) = offset + i - 1
    BY <1>4, <2>1
  <2>3. Rank(found[i], S, before) = offset + i - 1
    BY DEF L
  <2>4. \A a, b \in S : Rank(a, S, before) = Rank(b, S, before) => a = b
    BY RanksAll
  <2>. QED
    BY <2>1, <2>2, <2>3, <2>4
<1>7. L <= limit + 1 /\ (L > 0 => past = offset)
  BY DEF L
<1>8. L = limit + 1 \/ N = past + L
  BY DEF L, N
<1>9. (L > limit) = (N > offset + limit)
  <2>1. CASE L = limit + 1
    <3>1. offset + L \in 1 .. N
      BY <1>1, <1>5, <2>1
    <3>. QED
      BY <1>1, <2>1, <3>1
  <2>2. CASE L # limit + 1 /\ N = past + L
    BY <1>1, <1>7, <2>2
  <2>. QED
    BY <1>8, <2>1, <2>2
<1>10. last \in Nat /\ last <= L /\ end \in Int /\ end <= N
  BY <1>1 DEF LesserOf
<1>11. (last = 0 /\ end <= offset) \/ end = offset + last
  <2>1. CASE L = limit + 1
    <3>1. offset + L \in 1 .. N
      BY <1>1, <1>5, <2>1
    <3>. QED
      BY <1>1, <2>1, <3>1 DEF LesserOf
  <2>2. CASE L # limit + 1 /\ N = past + L
    BY <1>1, <1>7, <2>2 DEF LesserOf
  <2>. QED
    BY <1>8, <2>1, <2>2
<1>. HIDE DEF last, end
<1>12. CASE last = 0 /\ end <= offset
  <2>1. SubSeq(found, 1, last) = <<>>
    BY <1>12, SubSeqEmpty
  <2>2. SubSeq(list, offset + 1, end) = <<>>
    BY <1>10, <1>12, SubSeqEmpty
  <2>3. SubSeq(found, 1, last) = SubSeq(list, offset + 1, end)
    BY <2>1, <2>2
  <2>. QED
    BY <1>4, <1>9, <2>3 DEF IsPage, list, end, last, L, N
<1>13. CASE end = offset + last
  <2>1. \A i \in 1 .. last : found[i] \in S
    BY <1>1, <1>3, <1>10
  <2>2. /\ SubSeq(found, 1, last) \in Seq(S)
        /\ Len(SubSeq(found, 1, last)) = last
        /\ \A i \in 1 .. last : SubSeq(found, 1, last)[i] = found[i]
    BY <1>10, <2>1, SubSeqProperties
  <2>3. \A k \in offset + 1 .. end : list[k] \in S
    <3>1. \A k \in offset + 1 .. end : k \in 1 .. N
      BY <1>1, <1>10
    <3>. QED
      BY <1>4, <3>1
  <2>4. /\ SubSeq(list, offset + 1, end) \in Seq(S)
        /\ Len(SubSeq(list, offset + 1, end)) = last
        /\ \A i \in 1 .. last : SubSeq(list, offset + 1, end)[i] = list[offset + i]
    <3>1. /\ SubSeq(list, offset + 1, end) \in Seq(S)
          /\ Len(SubSeq(list, offset + 1, end))
                = IF offset + 1 <= end THEN end - (offset + 1) + 1 ELSE 0
          /\ \A i \in 1 .. end - (offset + 1) + 1 :
                SubSeq(list, offset + 1, end)[i] = list[(offset + 1) + i - 1]
      BY <1>10, <2>3, SubSeqProperties
    <3>2. end - (offset + 1) + 1 = last
      BY <1>10, <1>13
    <3>3. \A i \in 1 .. last : (offset + 1) + i - 1 = offset + i
      OBVIOUS
    <3>. QED
      BY <1>10, <1>13, <3>1, <3>2, <3>3
  <2>5. \A i \in 1 .. last : found[i] = list[offset + i]
    BY <1>1, <1>6, <1>10
  <2>6. SubSeq(found, 1, last) = SubSeq(list, offset + 1, end)
    BY <2>2, <2>4, <2>5, SeqEqual
  <2>. QED
    BY <1>4, <1>9, <2>6 DEF IsPage, list, end, last, L, N
<1>. QED
  BY <1>11, <1>12, <1>13

-----------------------------------------------------------------------------
(* Files only grow: what an index covers stays as it was.                  *)

Grows ==
    \A f \in Files :
        /\ Len(files[f]) <= Len(files'[f])
        /\ \A n \in 1 .. Len(files[f]) : files'[f][n] = files[f][n]

LEMMA FilesGrow ==
    ASSUME TypeOK, [Next]_vars
    PROVE  Grows /\ files' \in [Files -> Seq(Records)]
<1>. \A f \in Files : Len(files[f]) \in Nat
  BY DEF TypeOK
<1>1. CASE files' = files
  BY <1>1 DEF Grows, TypeOK
<1>2. ASSUME NEW f \in Files, NEW m \in Shapes, AppendMessage(f, m)
      PROVE  Grows /\ files' \in [Files -> Seq(Records)]
  <2>. DEFINE r == IF f \in torn THEN Garbled ELSE m
  <2>1. r \in Records
    BY DEF Records
  <2>2. files' = [files EXCEPT ![f] = Append(files[f], r)]
    BY <1>2 DEF AppendMessage
  <2>. HIDE DEF r
  <2>3. files[f] \in Seq(Records)
    BY DEF TypeOK
  <2>4. /\ Append(files[f], r) \in Seq(Records)
        /\ Len(Append(files[f], r)) = Len(files[f]) + 1
        /\ \A n \in 1 .. Len(files[f]) : Append(files[f], r)[n] = files[f][n]
    BY <2>1, <2>3, AppendProperties
  <2>5. files'[f] = Append(files[f], r) /\ \A g \in Files : g # f => files'[g] = files[g]
    BY <2>2 DEF TypeOK
  <2>6. files' \in [Files -> Seq(Records)]
    BY <2>2, <2>4 DEF TypeOK
  <2>7. Len(files[f]) <= Len(files'[f])
    BY <2>4, <2>5
  <2>8. Grows
    BY <2>4, <2>5, <2>7 DEF Grows
  <2>. QED
    BY <2>6, <2>8
<1>3. CASE Next
  <2>1. \/ \E f \in Files, m \in Shapes : AppendMessage(f, m)
        \/ files' = files
    BY <1>3 DEF Next, BeginQuery, AppendTorn, IndexFile, IndexFails, IndexDone, Pop, Respond
  <2>. QED
    BY <1>1, <1>2, <2>1
<1>4. CASE UNCHANGED vars
  BY <1>1, <1>4 DEF vars
<1>. QED
  BY <1>3, <1>4

(* An index that covers the beginning of a file does so when it has grown. *)
LEMMA IndexKept ==
    ASSUME TypeOK, IndexInv, Grows, files' \in [Files -> Seq(Records)],
           indexes' = indexes \/ indexes' = next \/ indexes' = NoIndexes,
           next' = next \/ next' = NoIndexes
    PROVE  IndexInv'
<1>1. ASSUME NEW f \in Files, NEW s, Good(f, s)
      PROVE  /\ s \in Seq(Nat)
             /\ Len(s) <= Len(files'[f])
             /\ \A i \in 1 .. Len(s) : s[i] \in 1 .. Len(s)
             /\ \A n \in 1 .. Len(s) : \E i \in 1 .. Len(s) : s[i] = n
             /\ \A i, j \in 1 .. Len(s) : i < j =>
                   \/ files'[f][s[i]].at > files'[f][s[j]].at
                   \/ files'[f][s[i]].at = files'[f][s[j]].at /\ s[i] > s[j]
             /\ \A n \in 1 .. Len(s) : files'[f][n] # Garbled
  <2>1. Len(s) \in Nat /\ Len(files[f]) \in Nat /\ Len(files'[f]) \in Nat
    BY <1>1 DEF Good, TypeOK
  <2>2. \A n \in 1 .. Len(s) : files'[f][n] = files[f][n]
    <3>1. Len(s) <= Len(files[f])
      BY <1>1 DEF Good
    <3>2. \A n \in 1 .. Len(s) : n \in 1 .. Len(files[f])
      BY <2>1, <3>1
    <3>. QED
      BY <3>2 DEF Grows
  <2>3. Len(s) <= Len(files'[f])
    <3>1. Len(s) <= Len(files[f])
      BY <1>1 DEF Good
    <3>2. Len(files[f]) <= Len(files'[f])
      BY DEF Grows
    <3>. QED
      BY <2>1, <3>1, <3>2
  <2>4. \A i \in 1 .. Len(s) : s[i] \in 1 .. Len(s)
    BY <1>1 DEF Good
  <2>5. \A i, j \in 1 .. Len(s) : i < j =>
              \/ files[f][s[i]].at > files[f][s[j]].at
              \/ files[f][s[i]].at = files[f][s[j]].at /\ s[i] > s[j]
    BY <1>1 DEF Good, Newer, At
  <2>6. \A i, j \in 1 .. Len(s) : i < j =>
              \/ files'[f][s[i]].at > files'[f][s[j]].at
              \/ files'[f][s[i]].at = files'[f][s[j]].at /\ s[i] > s[j]
    BY <2>2, <2>4, <2>5
  <2>7. s \in Seq(Nat) /\ \A n \in 1 .. Len(s) : \E i \in 1 .. Len(s) : s[i] = n
    BY <1>1 DEF Good
  <2>8. \A n \in 1 .. Len(s) : files'[f][n] # Garbled
    BY <1>1, <2>2 DEF Good, At
  <2>. QED
    BY <2>3, <2>4, <2>6, <2>7, <2>8
<1>2. ASSUME NEW f \in DOMAIN indexes' PROVE Good(f, indexes[f])'
  <2>1. f \in Files /\ Good(f, indexes'[f])
    BY <1>2 DEF IndexInv, TypeOK, NoIndexes
  <2>. QED
    BY <1>1, <2>1 DEF Good, Newer, At
<1>3. ASSUME NEW f \in DOMAIN next' PROVE Good(f, next[f])'
  <2>1. f \in Files /\ Good(f, next'[f])
    BY <1>3 DEF IndexInv, TypeOK, NoIndexes
  <2>. QED
    BY <1>1, <2>1 DEF Good, Newer, At
<1>. QED
  BY <1>2, <1>3 DEF IndexInv

(* What a query should list does not depend on what is stored meanwhile.   *)
LEMMA ListKept ==
    ASSUME TypeOK, IndexInv, Grows, next' = next, query' = query
    PROVE  Wanted' = Wanted /\ Before' = Before
<1>1. \A f \in DOMAIN next : \A n \in 1 .. Len(next[f]) : files'[f][n] = files[f][n]
  <2>. SUFFICES ASSUME NEW f \in DOMAIN next, NEW n \in 1 .. Len(next[f])
                PROVE  files'[f][n] = files[f][n]
    OBVIOUS
  <2>1. f \in Files /\ Len(next[f]) \in Nat /\ Len(next[f]) <= Len(files[f])
    BY DEF TypeOK, IndexInv, Good
  <2>2. Len(files[f]) \in Nat
    BY <2>1 DEF TypeOK
  <2>. QED
    BY <2>1, <2>2 DEF Grows
<1>. DEFINE all == UNION {{f} \X (1 .. Len(next[f])) : f \in DOMAIN next}
<1>2. \A p \in all : p[1] \in DOMAIN next /\ p[2] \in 1 .. Len(next[p[1]])
  OBVIOUS
<1>3. \A p \in all : files'[p[1]][p[2]] = files[p[1]][p[2]]
  BY <1>1, <1>2
<1>4. /\ Wanted = {p \in all : /\ Selects(query, files[p[1]][p[2]])
                              /\ files[p[1]][p[2]].at >= query.since
                              /\ files[p[1]][p[2]].at <= query.until}
      /\ Wanted' = {p \in all : /\ Selects(query, files'[p[1]][p[2]])
                               /\ files'[p[1]][p[2]].at >= query.since
                               /\ files'[p[1]][p[2]].at <= query.until}
  BY DEF Wanted, At, Selects
<1>5. Wanted \subseteq all
  BY <1>4
<1>. HIDE DEF all
<1>6. Wanted' = Wanted
  BY <1>3, <1>4
<1>7. \A p, q \in Wanted : Ahead(p, q)' <=> Ahead(p, q)
  BY <1>3, <1>5 DEF Ahead, At
<1>8. Before' = {pair \in Wanted \X Wanted : Ahead(pair[1], pair[2])'}
  BY <1>6 DEF Before
<1>9. Before' = Before
  BY <1>7, <1>8 DEF Before
<1>. QED
  BY <1>6, <1>9

-----------------------------------------------------------------------------
(* The invariant, one part after the other.                                *)

LEMMA InitInv == Init => Inv
<1>. SUFFICES ASSUME Init PROVE Inv
  OBVIOUS
<1>1. TypeOK
  <2>1. files \in [Files -> Seq(Records)]
    BY DEF Init
  <2>2. atStart \in [Files -> Nat]
    BY DEF Init
  <2>. QED
    BY <2>1, <2>2 DEF Init, TypeOK, NoIndexes
<1>2. IndexInv
  BY DEF Init, IndexInv, NoIndexes
<1>3. StartInv /\ SearchInv /\ PageExact
  BY DEF Init, StartInv, StartListed, StartIndexed, StartComplete, SearchInv, PageExact
<1>. QED
  BY <1>1, <1>2, <1>3 DEF Inv

LEMMA TypeStep ==
    ASSUME TypeOK, [Next]_vars
    PROVE  TypeOK'
<1>1. files' \in [Files -> Seq(Records)]
  BY FilesGrow
<1>2. ASSUME NEW f \in Files, NEW m \in Shapes, AppendMessage(f, m)
      PROVE  TypeOK'
  BY <1>1, <1>2 DEF AppendMessage, TypeOK, queryVars
<1>3. ASSUME NEW f \in Files, AppendTorn(f) PROVE TypeOK'
  <2>1. torn' \subseteq Files
    BY <1>3 DEF AppendTorn, TypeOK
  <2>2. CASE UNCHANGED <<indexes, queryVars>>
    BY <1>1, <2>1, <2>2 DEF TypeOK, queryVars
  <2>3. CASE /\ indexes' = NoIndexes
             /\ next' = NoIndexes
             /\ pc' = "idle"
             /\ UNCHANGED <<query, heap, skipped, messages, response, atStart, asked>>
    BY <1>1, <2>1, <2>3 DEF TypeOK, NoIndexes
  <2>. QED
    BY <1>3, <2>2, <2>3 DEF AppendTorn
<1>4. ASSUME NEW q \in Queries, BeginQuery(q) PROVE TypeOK'
  <2>1. atStart' \in [Files -> Nat]
    <3>1. \A f \in Files : Len(files[f]) + (IF f \in torn THEN 1 ELSE 0) \in Nat
      BY DEF TypeOK
    <3>. QED
      BY <1>4, <3>1 DEF BeginQuery
  <2>. QED
    BY <1>1, <1>4, <2>1 DEF BeginQuery, TypeOK, NoIndexes
<1>5. ASSUME NEW f \in Files, IndexFile(f) PROVE TypeOK'
  BY <1>1, <1>5 DEF IndexFile, Indexing, TypeOK
<1>6. ASSUME NEW f \in Files, IndexFails(f) PROVE TypeOK'
  BY <1>1, <1>6 DEF IndexFails, Indexing, TypeOK
<1>7. CASE IndexDone
  BY <1>1, <1>7 DEF IndexDone, TypeOK
<1>8. ASSUME NEW f \in DOMAIN heap, Pop(f) PROVE TypeOK'
  BY <1>1, <1>8 DEF Pop, TypeOK
<1>9. CASE Respond
  BY <1>1, <1>9 DEF Respond, TypeOK
<1>10. CASE UNCHANGED vars
  BY <1>1, <1>10 DEF vars, queryVars, TypeOK
<1>. QED
  BY <1>2, <1>3, <1>4, <1>5, <1>6, <1>7, <1>8, <1>9, <1>10 DEF Next

LEMMA IndexStep ==
    ASSUME TypeOK, IndexInv, [Next]_vars
    PROVE  IndexInv'
<1>1. Grows /\ files' \in [Files -> Seq(Records)]
  BY FilesGrow
<1>2. ASSUME NEW f \in Files, IndexFile(f) PROVE IndexInv'
  <2>1. Good(f, Entries(f))
    BY <1>2, EntriesGood DEF IndexFile
  <2>2. \A g \in DOMAIN next' : Good(g, next'[g])
    BY <1>2, <2>1 DEF IndexFile, IndexInv
  <2>3. files' = files /\ indexes' = indexes
    BY <1>2 DEF IndexFile
  <2>4. ASSUME NEW g \in DOMAIN indexes' PROVE Good(g, indexes[g])'
    <3>1. Good(g, indexes[g])
      BY <2>3, <2>4 DEF IndexInv
    <3>. QED
      BY <2>3, <3>1 DEF Good, Newer, At
  <2>5. ASSUME NEW g \in DOMAIN next' PROVE Good(g, next[g])'
    <3>1. Good(g, next'[g])
      BY <2>2, <2>5
    <3>. QED
      BY <2>3, <3>1 DEF Good, Newer, At
  <2>. QED
    BY <2>4, <2>5 DEF IndexInv
<1>3. \/ \E f \in Files : IndexFile(f)
      \/ /\ indexes' = indexes \/ indexes' = next \/ indexes' = NoIndexes
         /\ next' = next \/ next' = NoIndexes
  <2>1. CASE Next
    BY <2>1 DEF Next, AppendMessage, BeginQuery, AppendTorn, IndexFails, IndexDone, Pop,
                Respond, queryVars
  <2>2. CASE UNCHANGED vars
    BY <2>2 DEF vars, queryVars
  <2>. QED
    BY <2>1, <2>2
<1>4. CASE /\ indexes' = indexes \/ indexes' = next \/ indexes' = NoIndexes
           /\ next' = next \/ next' = NoIndexes
  BY <1>1, <1>4, IndexKept
<1>. QED
  BY <1>2, <1>3, <1>4

LEMMA StartStep ==
    ASSUME TypeOK, IndexInv, StartInv, [Next]_vars
    PROVE  StartInv'
<1>. \A f \in Files : Len(files[f]) \in Nat /\ atStart[f] \in Nat
  BY DEF TypeOK
<1>1. ASSUME NEW f \in Files, NEW m \in Shapes, AppendMessage(f, m)
      PROVE  StartInv'
  <2>1. ASSUME pc = "index", NEW g \in Files
        PROVE  /\ atStart[g] <= Len(files'[g]) + 1
               /\ g \in torn' \/ atStart[g] <= Len(files'[g])
    <3>1. /\ atStart[g] <= Len(files[g]) + 1
          /\ g \in torn \/ atStart[g] <= Len(files[g])
      BY <2>1 DEF StartInv, StartListed
    <3>2. CASE g = f
      <4>1. files'[f] = Append(files[f], IF f \in torn THEN Garbled ELSE m)
        BY <1>1 DEF AppendMessage, TypeOK
      <4>2. Len(files'[f]) = Len(files[f]) + 1
        BY <4>1 DEF TypeOK
      <4>. QED
        BY <3>1, <3>2, <4>2
    <3>3. CASE g # f
      <4>1. files'[g] = files[g] /\ (g \in torn => g \in torn')
        BY <1>1, <3>3 DEF AppendMessage, TypeOK
      <4>. QED
        BY <3>1, <4>1
    <3>. QED
      BY <3>2, <3>3
  <2>2. UNCHANGED queryVars
    BY <1>1 DEF AppendMessage
  <2>. QED
    BY <2>1, <2>2 DEF StartInv, StartListed, StartIndexed, StartComplete, queryVars
<1>2. ASSUME NEW f \in Files, AppendTorn(f) PROVE StartInv'
  <2>1. CASE UNCHANGED <<indexes, queryVars>>
    <3>1. files' = files /\ torn \subseteq torn'
      BY <1>2 DEF AppendTorn
    <3>. QED
      BY <2>1, <3>1 DEF StartInv, StartListed, StartIndexed, StartComplete, queryVars
  <2>2. CASE pc' = "idle"
    BY <2>2 DEF StartInv, StartListed, StartIndexed, StartComplete
  <2>. QED
    BY <1>2, <2>1, <2>2 DEF AppendTorn
<1>3. ASSUME NEW q \in Queries, BeginQuery(q) PROVE StartInv'
  <2>1. \A f \in Files : /\ atStart'[f] <= Len(files'[f]) + 1
                         /\ f \in torn' \/ atStart'[f] <= Len(files'[f])
    <3>. SUFFICES ASSUME NEW f \in Files
                  PROVE  /\ atStart'[f] <= Len(files'[f]) + 1
                         /\ f \in torn' \/ atStart'[f] <= Len(files'[f])
      OBVIOUS
    <3>1. files' = files /\ torn' = torn
      BY <1>3 DEF BeginQuery
    <3>2. atStart'[f] = Len(files[f]) + (IF f \in torn THEN 1 ELSE 0)
      BY <1>3 DEF BeginQuery
    <3>3. CASE f \in torn
      <4>1. atStart'[f] = Len(files[f]) + 1
        BY <3>2, <3>3
      <4>. QED
        BY <3>1, <3>3, <4>1
    <3>4. CASE f \notin torn
      <4>1. atStart'[f] = Len(files[f]) + 0
        BY <3>2, <3>4
      <4>. QED
        BY <3>1, <4>1
    <3>. QED
      BY <3>3, <3>4
  <2>. QED
    BY <1>3, <2>1 DEF BeginQuery, StartInv, StartListed, StartIndexed, StartComplete, NoIndexes
<1>4. ASSUME NEW f \in Files, IndexFile(f) PROVE StartInv'
  <2>1. f \notin torn /\ Len(Entries(f)) = Len(files[f])
    BY <1>4, EntriesGood DEF IndexFile, Unreadable
  <2>2. atStart[f] <= Len(Entries(f))
    <3>1. pc = "index"
      BY <1>4 DEF IndexFile, Indexing
    <3>2. atStart[f] <= Len(files[f])
      BY <2>1, <3>1 DEF StartInv, StartListed, StartIndexed, StartComplete
    <3>. QED
      BY <2>1, <3>2
  <2>3. \A g \in DOMAIN next' : atStart[g] <= Len(next'[g])
    BY <1>4, <2>2 DEF IndexFile, Indexing, StartInv, StartListed, StartIndexed, StartComplete
  <2>. QED
    BY <1>4, <2>3 DEF IndexFile, Indexing, StartInv, StartListed, StartIndexed, StartComplete
<1>5. ASSUME NEW f \in Files, IndexFails(f) PROVE StartInv'
  BY <1>5 DEF IndexFails, Indexing, StartInv, StartListed, StartIndexed, StartComplete, Failure, NoResponse
<1>6. CASE IndexDone
  BY <1>6 DEF IndexDone, StartInv, StartListed, StartIndexed, StartComplete
<1>7. ASSUME NEW f \in DOMAIN heap, Pop(f) PROVE StartInv'
  BY <1>7 DEF Pop, Searching, StartInv, StartListed, StartIndexed, StartComplete
<1>8. CASE Respond
  BY <1>8 DEF Respond, StartInv, StartListed, StartIndexed, StartComplete
<1>9. CASE UNCHANGED vars
  BY <1>9 DEF vars, queryVars, StartInv, StartListed, StartIndexed, StartComplete
<1>. QED
  BY <1>1, <1>2, <1>3, <1>4, <1>5, <1>6, <1>7, <1>8, <1>9 DEF Next

LEMMA SeesStoredHolds ==
    ASSUME TypeOK, IndexInv, StartInv
    PROVE  SeesStored
<1>. SUFFICES ASSUME pc \in {"merge", "done"}, ~response.error,
                     NEW f \in Files, atStart[f] > 0
              PROVE  /\ f \in DOMAIN next /\ 1 .. atStart[f] \subseteq ToSet(next[f])
                     /\ \A n \in 1 .. atStart[f] : files[f][n] # Garbled
  BY DEF SeesStored
<1>1. f \in DOMAIN next
  BY DEF StartInv, StartComplete
<1>2. atStart[f] <= Len(next[f]) /\ Good(f, next[f])
  BY <1>1 DEF StartInv, StartIndexed, IndexInv
<1>3. atStart[f] \in Nat /\ Len(next[f]) \in Nat
  BY <1>2 DEF TypeOK, Good
<1>4. \A n \in 1 .. atStart[f] : n \in 1 .. Len(next[f])
  BY <1>2, <1>3
<1>5. DOMAIN next[f] = 1 .. Len(next[f])
  BY <1>2 DEF Good
<1>6. 1 .. atStart[f] \subseteq ToSet(next[f])
  BY <1>2, <1>4, <1>5 DEF Good, ToSet
<1>7. \A n \in 1 .. atStart[f] : files[f][n] # Garbled
  BY <1>2, <1>4 DEF Good, At
<1>. QED
  BY <1>1, <1>6, <1>7

-----------------------------------------------------------------------------
(* The merge.                                                              *)

(* Nothing the merge relies on is touched by what is stored meanwhile.     *)
LEMMA SearchKept ==
    ASSUME TypeOK, IndexInv, SearchInv, Grows, UNCHANGED queryVars
    PROVE  SearchInv'
<1>1. Wanted' = Wanted /\ Before' = Before
  BY ListKept DEF queryVars
<1>2. UNCHANGED <<query, pc, next, heap, skipped, messages>>
  BY DEF queryVars
<1>3. Left' = Left /\ Passed' = Passed
  <2>1. Left' = Left
    BY <1>1, <1>2 DEF Left
  <2>. QED
    BY <1>1, <2>1 DEF Passed
<1>4. CASE pc # "merge"
  BY <1>2, <1>4 DEF SearchInv
<1>5. CASE pc = "merge"
  <2>1. CursorInv /\ FoundInv /\ PassedInv
    BY <1>5 DEF SearchInv
  <2>2. CursorInv'
    <3>1. ASSUME NEW f \in DOMAIN heap, NEW i \in heap[f] .. Len(next[f])
          PROVE  files'[f][next[f][i]].at <= query.until
      <4>1. f \in DOMAIN next /\ f \in Files /\ i \in 1 .. Len(next[f])
        BY <2>1 DEF CursorInv, TypeOK
      <4>2. /\ next[f][i] \in 1 .. Len(next[f])
            /\ Len(next[f]) \in Nat /\ Len(next[f]) <= Len(files[f])
        BY <4>1 DEF IndexInv, Good
      <4>3. next[f][i] \in 1 .. Len(files[f])
        BY <4>1, <4>2 DEF TypeOK
      <4>4. files'[f][next[f][i]] = files[f][next[f][i]]
        BY <4>1, <4>3 DEF Grows
      <4>. QED
        BY <2>1, <4>4 DEF CursorInv, At
    <3>. QED
      BY <1>2, <2>1, <3>1 DEF CursorInv, At
  <2>3. FoundInv'
    BY <1>1, <1>2, <2>1 DEF FoundInv, StoreLimit
  <2>4. PassedInv'
    BY <1>1, <1>2, <1>3, <2>1 DEF PassedInv
  <2>. QED
    BY <1>2, <1>5, <2>2, <2>3, <2>4 DEF SearchInv
<1>. QED
  BY <1>4, <1>5

(* A set of positions that has every position before one of its own is the *)
(* beginning, as long as it is large.                                      *)
LEMMA Beginning ==
    ASSUME NEW n \in Nat, NEW D \in SUBSET (1 .. n),
           \A i \in D, j \in 1 .. n : j < i => j \in D
    PROVE  /\ Cardinality(D) \in Nat
           /\ \A i \in 1 .. n : i \in D <=> i <= Cardinality(D)
<1>1. IsFiniteSet(D) /\ Cardinality(D) \in Nat
  <2>1. IsFiniteSet(1 .. n)
    BY FS_Interval
  <2>. QED
    BY <2>1, FS_Subset, FS_CardinalityType
<1>2. ASSUME NEW i \in D PROVE i <= Cardinality(D)
  <2>1. 1 .. i \subseteq D
    OBVIOUS
  <2>2. Cardinality(1 .. i) = i
    BY FS_Interval
  <2>. QED
    BY <1>1, <2>1, <2>2, FS_Subset
<1>3. ASSUME NEW i \in 1 .. n, i \notin D PROVE ~(i <= Cardinality(D))
  <2>. DEFINE E == 1 .. i - 1
  <2>1. D \subseteq E
    BY <1>3
  <2>2. IsFiniteSet(E) /\ Cardinality(E) = i - 1
    BY FS_Interval
  <2>3. Cardinality(D) <= i - 1
    <3>. HIDE DEF E
    <3>. QED
      BY <2>1, <2>2, FS_Subset
  <2>. QED
    BY <1>1, <2>3
<1>. QED
  BY <1>1, <1>2, <1>3

(* The cursors start at the first entry that is not newer than Until.      *)
LEMMA UntilFound ==
    ASSUME TypeOK, IndexInv, NEW f \in DOMAIN next, query \in Queries
    PROVE  /\ FirstUntil(f) \in Nat \ {0}
           /\ \A i \in 1 .. Len(next[f]) :
                 At(f, next[f][i]).at <= query.until <=> FirstUntil(f) <= i
<1>. DEFINE n == Len(next[f])
            D == {i \in 1 .. n : At(f, next[f][i]).at > query.until}
<1>1. n \in Nat /\ f \in Files /\ query.until \in Int
  BY QueriesAssumption DEF IndexInv, Good, TypeOK
<1>2. \A i \in 1 .. n : next[f][i] \in 1 .. n /\ At(f, next[f][i]).at \in Int
  <2>. SUFFICES ASSUME NEW i \in 1 .. n
                PROVE  next[f][i] \in 1 .. n /\ At(f, next[f][i]).at \in Int
    OBVIOUS
  <2>1. next[f][i] \in 1 .. n /\ n <= Len(files[f])
    BY DEF IndexInv, Good
  <2>2. next[f][i] \in 1 .. Len(files[f])
    BY <1>1, <2>1 DEF TypeOK
  <2>. QED
    BY <1>1, <2>1, <2>2, RecordTimes DEF At, TypeOK
<1>3. ASSUME NEW i \in D, NEW j \in 1 .. n, j < i PROVE j \in D
  <2>1. Newer(f, next[f][j], next[f][i])
    BY <1>3 DEF IndexInv, Good
  <2>. QED
    BY <1>1, <1>2, <2>1 DEF Newer
<1>4. FirstUntil(f) = Cardinality(D) + 1
  BY DEF FirstUntil
<1>5. \A i \in 1 .. n : i \in D <=> ~(At(f, next[f][i]).at <= query.until)
  BY <1>1, <1>2
<1>. HIDE DEF D, n
<1>6. D \in SUBSET (1 .. n)
  BY DEF D
<1>7. /\ Cardinality(D) \in Nat
      /\ \A i \in 1 .. n : i \in D <=> i <= Cardinality(D)
  BY <1>1, <1>3, <1>6, Beginning
<1>8. \A i \in 1 .. n : At(f, next[f][i]).at <= query.until <=> FirstUntil(f) <= i
  BY <1>1, <1>4, <1>5, <1>7
<1>. QED
  BY <1>4, <1>7, <1>8 DEF n

LEMMA IndexDoneStep ==
    ASSUME TypeOK, IndexInv, SearchInv, IndexDone
    PROVE  SearchInv'
<1>1. /\ pc = "index" /\ query \in Queries /\ skipped = 0 /\ messages = <<>>
      /\ UNCHANGED <<files, query, next, skipped, messages>> /\ pc' = "merge"
      /\ heap' = [f \in {g \in DOMAIN next : FirstUntil(g) <= Len(next[g])} |-> FirstUntil(f)]
  BY DEF IndexDone, SearchInv, TypeOK
<1>2. Wanted' = Wanted /\ Before' = Before
  BY <1>1, ListKept DEF Grows, TypeOK
<1>3. \A f \in DOMAIN next :
          /\ f \in DOMAIN heap' <=> FirstUntil(f) <= Len(next[f])
          /\ f \in DOMAIN heap' => heap'[f] = FirstUntil(f)
  BY <1>1
<1>4. \A f \in DOMAIN next :
          /\ FirstUntil(f) \in Nat \ {0}
          /\ \A i \in 1 .. Len(next[f]) :
                At(f, next[f][i]).at <= query.until <=> FirstUntil(f) <= i
  BY <1>1, UntilFound
<1>5. CursorInv'
  <2>1. DOMAIN heap' \subseteq DOMAIN next
    BY <1>1
  <2>2. ASSUME NEW f \in DOMAIN heap'
        PROVE  /\ heap'[f] \in 1 .. Len(next[f])
               /\ \A i \in heap'[f] .. Len(next[f]) : files[f][next[f][i]].at <= query.until
    <3>1. f \in DOMAIN next /\ heap'[f] = FirstUntil(f) /\ FirstUntil(f) <= Len(next[f])
      BY <1>3, <2>1
    <3>2. Len(next[f]) \in Nat /\ FirstUntil(f) \in Nat \ {0}
      BY <1>4, <3>1 DEF IndexInv, Good
    <3>3. \A i \in heap'[f] .. Len(next[f]) : i \in 1 .. Len(next[f]) /\ FirstUntil(f) <= i
      BY <3>1, <3>2
    <3>. QED
      BY <1>4, <3>1, <3>2, <3>3 DEF At
  <2>. QED
    BY <1>1, <2>1, <2>2 DEF CursorInv, At
<1>6. Left' = Wanted
  <2>1. ASSUME NEW p \in Wanted
        PROVE  /\ p[1] \in DOMAIN heap'
               /\ \E i \in heap'[p[1]] .. Len(next[p[1]]) : next[p[1]][i] = p[2]
    <3>1. p[1] \in DOMAIN next /\ p[2] \in 1 .. Len(next[p[1]])
      BY WantedMembers
    <3>2. PICK i \in 1 .. Len(next[p[1]]) : next[p[1]][i] = p[2]
      BY <3>1 DEF IndexInv, Good
    <3>3. At(p[1], p[2]).at <= query.until
      BY DEF Wanted
    <3>4. FirstUntil(p[1]) <= i
      BY <1>4, <3>1, <3>2, <3>3
    <3>5. Len(next[p[1]]) \in Nat /\ FirstUntil(p[1]) \in Nat
      BY <1>4, <3>1 DEF IndexInv, Good
    <3>6. FirstUntil(p[1]) <= Len(next[p[1]])
      BY <3>4, <3>5
    <3>7. p[1] \in DOMAIN heap' /\ heap'[p[1]] = FirstUntil(p[1])
      BY <1>3, <3>1, <3>6
    <3>. QED
      BY <3>2, <3>4, <3>5, <3>7
  <2>. QED
    BY <1>1, <1>2, <2>1 DEF Left
<1>7. Passed' = {}
  BY <1>2, <1>6 DEF Passed
<1>8. FoundInv'
  <2>1. query.offset \in Nat /\ query.limit \in Nat
    BY <1>1, QueriesAssumption
  <2>. QED
    BY <1>1, <2>1 DEF FoundInv, StoreLimit
<1>9. PassedInv'
  BY <1>1, <1>7, FS_EmptySet DEF PassedInv
<1>. QED
  BY <1>1, <1>5, <1>8, <1>9 DEF SearchInv

(* The cursor of a file is at the first of its messages that are left.     *)
LEMMA CursorFirst ==
    ASSUME TypeOK, IndexInv, CursorInv, NEW f \in DOMAIN heap
    PROVE  /\ f \in DOMAIN next /\ f \in Files /\ f \in Int
           /\ Entry(f) \in 1 .. Len(next[f]) /\ Entry(f) \in Int
           /\ At(f, Entry(f)).at \in Int
           /\ \A i \in heap[f] + 1 .. Len(next[f]) : Newer(f, Entry(f), next[f][i])
           /\ \A i \in heap[f] + 1 .. Len(next[f]) : next[f][i] # Entry(f)
<1>1. f \in DOMAIN next /\ f \in Files /\ f \in Int
  BY NumFilesAssumption DEF CursorInv, TypeOK, Files
<1>2. /\ Len(next[f]) \in Nat /\ Len(next[f]) <= Len(files[f]) /\ Len(files[f]) \in Nat
      /\ heap[f] \in 1 .. Len(next[f])
  <2>1. heap[f] \in 1 .. Len(next[f])
    BY DEF CursorInv
  <2>2. Len(next[f]) \in Nat /\ Len(next[f]) <= Len(files[f])
    BY <1>1 DEF IndexInv, Good
  <2>3. Len(files[f]) \in Nat
    BY <1>1 DEF TypeOK
  <2>. QED
    BY <2>1, <2>2, <2>3
<1>3. Entry(f) \in 1 .. Len(next[f])
  BY <1>1, <1>2 DEF IndexInv, Good, Entry
<1>4. Entry(f) \in 1 .. Len(files[f])
  BY <1>2, <1>3
<1>5. At(f, Entry(f)).at \in Int
  BY <1>1, <1>4, RecordTimes DEF TypeOK, At
<1>6. ASSUME NEW i \in heap[f] + 1 .. Len(next[f])
      PROVE  Newer(f, Entry(f), next[f][i]) /\ next[f][i] # Entry(f)
  <2>1. i \in 1 .. Len(next[f]) /\ heap[f] < i
    BY <1>2
  <2>2. Newer(f, Entry(f), next[f][i])
    BY <1>1, <1>2, <2>1 DEF IndexInv, Good, Entry
  <2>3. ~Newer(f, Entry(f), Entry(f))
    BY <1>2, <1>3, <1>5 DEF Newer
  <2>. QED
    BY <2>2, <2>3
<1>. QED
  BY <1>1, <1>2, <1>3, <1>5, <1>6

(* What is left of a file is at its cursor or older.                       *)
LEMMA LeftBehind ==
    ASSUME TypeOK, IndexInv, CursorInv, NEW q \in Left
    PROVE  /\ q[1] \in DOMAIN heap
           /\ q[2] = Entry(q[1]) \/ Newer(q[1], Entry(q[1]), q[2])
           /\ At(q[1], Entry(q[1])).at >= At(q[1], q[2]).at
<1>1. q[1] \in DOMAIN heap /\ q \in Wanted
  BY DEF Left
<1>2. PICK i \in heap[q[1]] .. Len(next[q[1]]) : next[q[1]][i] = q[2]
  BY DEF Left
<1>3. q[1] \in DOMAIN next /\ heap[q[1]] \in 1 .. Len(next[q[1]])
  BY <1>1 DEF CursorInv
<1>4. Len(next[q[1]]) \in Nat
  BY <1>3 DEF IndexInv, Good
<1>5. i = heap[q[1]] \/ i \in heap[q[1]] + 1 .. Len(next[q[1]])
  BY <1>3, <1>4
<1>6. q[2] = Entry(q[1]) \/ Newer(q[1], Entry(q[1]), q[2])
  BY <1>1, <1>2, <1>5, CursorFirst DEF Entry
<1>7. At(q[1], q[2]).at \in Int /\ At(q[1], Entry(q[1])).at \in Int
  BY <1>1, WantedMembers, CursorFirst
<1>8. At(q[1], Entry(q[1])).at >= At(q[1], q[2]).at
  BY <1>6, <1>7 DEF Newer
<1>. QED
  BY <1>1, <1>6, <1>8

(* The cursor on top of the heap is before everything else that is left.   *)
LEMMA TopFirst ==
    ASSUME TypeOK, IndexInv, CursorInv, NEW f \in DOMAIN heap, OnTop(f), NEW q \in Left
    PROVE  /\ At(f, Entry(f)).at >= At(q[1], q[2]).at
           /\ q = <<f, Entry(f)>> \/ Ahead(<<f, Entry(f)>>, q)
<1>. DEFINE g == q[1]
<1>1. /\ g \in DOMAIN heap
      /\ q[2] = Entry(g) \/ Newer(g, Entry(g), q[2])
      /\ At(g, Entry(g)).at >= At(g, q[2]).at
  BY LeftBehind
<1>2. /\ q \in Wanted /\ q = <<g, q[2]>> /\ q[2] \in Int
      /\ At(g, q[2]).at \in Int
  BY WantedMembers DEF Left
<1>3. /\ f \in Int /\ g \in Int /\ Entry(f) \in Int
      /\ At(f, Entry(f)).at \in Int /\ At(g, Entry(g)).at \in Int
  BY <1>1, CursorFirst
<1>4. \/ At(f, Entry(f)).at > At(g, Entry(g)).at
      \/ At(f, Entry(f)).at = At(g, Entry(g)).at /\ f >= g
  BY <1>1 DEF OnTop
<1>5. At(f, Entry(f)).at >= At(g, q[2]).at
  BY <1>1, <1>2, <1>3, <1>4
<1>6. CASE g = f
  <2>1. CASE q[2] = Entry(g)
    BY <1>2, <1>5, <1>6, <2>1
  <2>2. CASE Newer(g, Entry(g), q[2])
    BY <1>5, <1>6, <2>2 DEF Newer, Ahead
  <2>. QED
    BY <1>1, <2>1, <2>2
<1>7. CASE g # f
  <2>1. \/ At(f, Entry(f)).at > At(g, q[2]).at
        \/ At(f, Entry(f)).at = At(g, q[2]).at /\ f > g
    BY <1>1, <1>2, <1>3, <1>4, <1>7
  <2>2. Ahead(<<f, Entry(f)>>, q)
    BY <2>1 DEF Ahead
  <2>. QED
    BY <1>5, <2>2
<1>. QED
  BY <1>6, <1>7

(* A message that is popped leaves what is left, which it was the first of.*)
LEMMA PopLeft ==
    ASSUME TypeOK, IndexInv, CursorInv, query \in Queries, NEW f \in DOMAIN heap,
           OnTop(f), ~TooOld(f), heap' = Advanced(f), UNCHANGED <<files, query, next>>
    PROVE  /\ CursorInv'
           /\ Left' = Left \ {<<f, Entry(f)>>}
           /\ Selects(query, At(f, Entry(f))) <=> <<f, Entry(f)>> \in Wanted
           /\ <<f, Entry(f)>> \in Wanted => <<f, Entry(f)>> \in Left
<1>. DEFINE h == heap[f]
            L == Len(next[f])
            p == <<f, Entry(f)>>
<1>1. /\ f \in DOMAIN next /\ Entry(f) \in 1 .. L /\ At(f, Entry(f)).at \in Int
      /\ \A i \in h + 1 .. L : next[f][i] # Entry(f)
  BY CursorFirst
<1>2. h \in 1 .. L /\ L \in Nat
  BY <1>1 DEF CursorInv, IndexInv, Good
<1>3. /\ DOMAIN heap' \subseteq DOMAIN heap
      /\ \A g \in DOMAIN heap : g # f => g \in DOMAIN heap' /\ heap'[g] = heap[g]
      /\ f \in DOMAIN heap' <=> h < L
      /\ h < L => heap'[f] = h + 1
  <2>1. CASE h < L
    <3>1. heap' = [heap EXCEPT ![f] = h + 1]
      BY <2>1 DEF Advanced
    <3>. QED
      BY <2>1, <3>1
  <2>2. CASE ~(h < L)
    <3>1. heap' = [g \in DOMAIN heap \ {f} |-> heap[g]]
      BY <2>2 DEF Advanced
    <3>. QED
      BY <2>2, <3>1
  <2>. QED
    BY <2>1, <2>2
<1>4. CursorInv'
  <2>1. DOMAIN heap' \subseteq DOMAIN next
    BY <1>1, <1>3 DEF CursorInv
  <2>2. ASSUME NEW g \in DOMAIN heap'
        PROVE  /\ heap'[g] \in 1 .. Len(next[g])
               /\ \A i \in heap'[g] .. Len(next[g]) : files[g][next[g][i]].at <= query.until
    <3>1. CASE g = f
      <4>1. h < L /\ heap'[f] = h + 1
        BY <1>3, <2>2, <3>1
      <4>2. \A i \in h + 1 .. L : i \in h .. L
        BY <1>2
      <4>. QED
        BY <1>2, <3>1, <4>1, <4>2 DEF CursorInv, At
    <3>2. CASE g # f
      BY <1>3, <2>2, <3>2 DEF CursorInv, At
    <3>. QED
      BY <3>1, <3>2
  <2>. QED
    BY <2>1, <2>2 DEF CursorInv, At
<1>5. Wanted' = Wanted
  BY ListKept DEF Grows, TypeOK
<1>. DEFINE Ahd(q) == /\ q[1] \in DOMAIN heap
                      /\ \E i \in heap[q[1]] .. Len(next[q[1]]) : next[q[1]][i] = q[2]
            Ahd2(q) == /\ q[1] \in DOMAIN heap'
                       /\ \E i \in heap'[q[1]] .. Len(next[q[1]]) : next[q[1]][i] = q[2]
<1>6. Left = {q \in Wanted : Ahd(q)} /\ Left' = {q \in Wanted : Ahd2(q)}
  BY <1>5 DEF Left
<1>7. ASSUME NEW q \in Wanted PROVE Ahd2(q) <=> Ahd(q) /\ q # p
  <2>1. q = <<q[1], q[2]>>
    BY WantedMembers
  <2>2. CASE q[1] # f
    BY <1>3, <2>1, <2>2
  <2>3. CASE q[1] = f
    <3>1. Ahd(q) <=> \E i \in h .. L : next[f][i] = q[2]
      BY <2>3
    <3>2. Ahd2(q) <=> \E i \in h + 1 .. L : next[f][i] = q[2]
      <4>1. CASE h < L
        BY <1>3, <2>3, <4>1
      <4>2. CASE ~(h < L)
        <5>1. h + 1 .. L = {}
          BY <1>2, <4>2
        <5>. QED
          BY <1>3, <2>3, <4>2, <5>1
      <4>. QED
        BY <4>1, <4>2
    <3>3. \A i : i \in h .. L <=> i = h \/ i \in h + 1 .. L
      BY <1>2
    <3>4. q = p <=> q[2] = next[f][h]
      BY <2>1, <2>3 DEF Entry
    <3>5. \A i \in h + 1 .. L : next[f][i] # next[f][h]
      BY <1>1 DEF Entry
    <3>. QED
      BY <3>1, <3>2, <3>3, <3>4, <3>5
  <2>. QED
    BY <2>2, <2>3
<1>8. Left' = Left \ {p}
  BY <1>6, <1>7
<1>9. Selects(query, At(f, Entry(f))) <=> p \in Wanted
  <2>1. At(f, Entry(f)).at <= query.until
    BY <1>2 DEF CursorInv, Entry
  <2>2. At(f, Entry(f)).at >= query.since
    BY <1>1, QueriesAssumption DEF TooOld
  <2>3. p \in UNION {{g} \X (1 .. Len(next[g])) : g \in DOMAIN next}
    BY <1>1
  <2>. QED
    BY <2>1, <2>2, <2>3 DEF Wanted
<1>10. p \in Wanted => p \in Left
  <2>1. h \in h .. L /\ next[f][h] = Entry(f)
    BY <1>2 DEF Entry
  <2>. QED
    BY <2>1 DEF Left
<1>. QED
  BY <1>4, <1>8, <1>9, <1>10

LEMMA PopStep ==
    ASSUME TypeOK, IndexInv, SearchInv, NEW f \in DOMAIN heap, Pop(f)
    PROVE  SearchInv'
<1>. DEFINE p == <<f, Entry(f)>>
            R(q) == Rank(q, Wanted, Before)
<1>1. /\ pc = "merge" /\ pc' = "merge" /\ query \in Queries
      /\ Len(messages) < StoreLimit
      /\ OnTop(f) /\ ~TooOld(f) /\ heap' = Advanced(f)
      /\ UNCHANGED <<files, query, next>>
  BY DEF Pop, Searching, TypeOK
<1>2. CursorInv /\ FoundInv /\ PassedInv
  BY <1>1 DEF SearchInv
<1>3. Wanted' = Wanted /\ Before' = Before
  BY <1>1, ListKept DEF Grows, TypeOK
<1>4. /\ CursorInv'
      /\ Left' = Left \ {p}
      /\ Selects(query, At(f, Entry(f))) <=> p \in Wanted
      /\ p \in Wanted => p \in Left
  BY <1>1, <1>2, PopLeft
<1>5. query.limit \in Nat /\ query.offset \in Nat
  BY <1>1, QueriesAssumption
<1>6. /\ IsFiniteSet(Wanted) /\ LinearOn(Wanted, Before)
      /\ \A q, r \in Wanted : <<q, r>> \in Before <=> Ahead(q, r)
  BY WantedFinite, AheadLinear
<1>7. Left \subseteq Wanted /\ Passed = Wanted \ Left /\ Passed' = Wanted \ Left'
  BY <1>3 DEF Left, Passed
<1>8. \A q \in Left : q # p /\ p \in Wanted => <<p, q>> \in Before
  BY <1>1, <1>2, <1>6, <1>7, TopFirst
<1>9. /\ skipped \in Nat /\ skipped <= query.offset
      /\ messages \in Seq(Wanted) /\ Len(messages) \in Nat
      /\ Len(messages) > 0 => skipped = query.offset
      /\ \A i \in 1 .. Len(messages) : R(messages[i]) = query.offset + i - 1
      /\ \A q \in Passed, r \in Left : <<q, r>> \in Before
      /\ Cardinality(Passed) = skipped + Len(messages)
  BY <1>2 DEF FoundInv, PassedInv
<1>10. CASE ~Selects(query, At(f, Entry(f)))
  <2>1. UNCHANGED <<skipped, messages>>
    BY <1>10 DEF Pop
  <2>2. Left' = Left /\ Passed' = Passed
    BY <1>4, <1>7, <1>10
  <2>3. FoundInv' /\ PassedInv'
    BY <1>1, <1>2, <1>3, <2>1, <2>2 DEF FoundInv, PassedInv, StoreLimit
  <2>. QED
    BY <1>1, <1>4, <2>3 DEF SearchInv
<1>11. CASE Selects(query, At(f, Entry(f)))
  <2>1. p \in Wanted /\ p \in Left
    BY <1>4, <1>11
  <2>2. Passed' = Passed \cup {p}
    BY <1>4, <1>7, <2>1
  <2>3. \A q \in Passed', r \in Left' : <<q, r>> \in Before
    BY <1>4, <1>8, <1>9, <2>1, <2>2
  <2>4. R(p) = Cardinality(Passed) /\ Cardinality(Passed') = Cardinality(Passed) + 1
    <3>1. Passed \in SUBSET Wanted /\ p \in Wanted \ Passed
      BY <1>7, <2>1
    <3>2. \A q \in Passed : <<q, p>> \in Before
      BY <1>9, <2>1
    <3>3. \A q \in Wanted \ Passed : q # p => <<p, q>> \in Before
      BY <1>7, <1>8, <2>1
    <3>. HIDE DEF p
    <3>4. Rank(p, Wanted, Before) = Cardinality(Passed)
          /\ Cardinality(Passed \cup {p}) = Cardinality(Passed) + 1
      BY <1>6, <3>1, <3>2, <3>3, FirstRank
    <3>. QED
      BY <2>2, <3>4
  <2>5. CASE skipped < query.offset
    <3>1. skipped' = skipped + 1 /\ messages' = messages
      BY <1>9, <1>11, <2>5 DEF Pop
    <3>2. Len(messages) = 0
      BY <1>5, <1>9, <2>5
    <3>3. skipped' \in Nat /\ skipped' <= query.offset
      BY <1>5, <1>9, <2>5, <3>1
    <3>4. FoundInv'
      BY <1>1, <1>2, <1>3, <3>1, <3>2, <3>3 DEF FoundInv, StoreLimit
    <3>5. Cardinality(Passed') = skipped' + Len(messages')
      BY <1>9, <2>4, <3>1, <3>2
    <3>6. PassedInv'
      BY <1>3, <2>3, <3>5 DEF PassedInv
    <3>. QED
      BY <1>1, <1>4, <3>4, <3>6 DEF SearchInv
  <2>6. CASE skipped = query.offset
    <3>1. messages' = Append(messages, p) /\ skipped' = skipped
      BY <1>5, <1>11, <2>6 DEF Pop
    <3>2. /\ messages' \in Seq(Wanted) /\ Len(messages') = Len(messages) + 1
          /\ \A i \in 1 .. Len(messages) : messages'[i] = messages[i]
          /\ messages'[Len(messages) + 1] = p
      <4>. HIDE DEF p
      <4>. QED
        BY <1>9, <2>1, <3>1, AppendProperties
    <3>3. Len(messages') <= StoreLimit
      BY <1>1, <1>5, <1>9, <3>2 DEF StoreLimit
    <3>4. R(p) = query.offset + (Len(messages) + 1) - 1
      BY <1>5, <1>9, <2>4, <2>6
    <3>5. \A i \in 1 .. Len(messages') : R(messages'[i]) = query.offset + i - 1
      <4>. SUFFICES ASSUME NEW i \in 1 .. Len(messages')
                    PROVE  R(messages'[i]) = query.offset + i - 1
        OBVIOUS
      <4>1. CASE i = Len(messages) + 1
        BY <3>2, <3>4, <4>1
      <4>2. CASE i # Len(messages) + 1
        <5>1. i \in 1 .. Len(messages)
          BY <1>9, <3>2, <4>2
        <5>. QED
          BY <1>9, <3>2, <5>1
      <4>. QED
        BY <4>1, <4>2
    <3>6. FoundInv'
      BY <1>1, <1>3, <1>9, <2>6, <3>1, <3>2, <3>3, <3>5 DEF FoundInv, StoreLimit
    <3>7. Cardinality(Passed') = skipped' + Len(messages')
      BY <1>9, <2>4, <3>1, <3>2
    <3>8. PassedInv'
      BY <1>3, <2>3, <3>7 DEF PassedInv
    <3>. QED
      BY <1>1, <1>4, <3>6, <3>8 DEF SearchInv
  <2>. QED
    BY <1>5, <1>9, <2>5, <2>6
<1>. QED
  BY <1>10, <1>11

LEMMA SearchStep ==
    ASSUME TypeOK, IndexInv, SearchInv, [Next]_vars
    PROVE  SearchInv'
<1>1. Grows
  BY FilesGrow
<1>2. CASE UNCHANGED queryVars
  BY <1>1, <1>2, SearchKept
<1>3. ASSUME NEW f \in Files, AppendTorn(f) PROVE SearchInv'
  <2>1. UNCHANGED queryVars \/ pc' = "idle"
    BY <1>3 DEF AppendTorn
  <2>2. CASE pc' = "idle"
    BY <2>2 DEF SearchInv
  <2>. QED
    BY <1>2, <2>1, <2>2
<1>4. ASSUME NEW q \in Queries, BeginQuery(q) PROVE SearchInv'
  BY <1>4 DEF BeginQuery, SearchInv
<1>5. ASSUME NEW f \in Files, IndexFile(f) PROVE SearchInv'
  BY <1>5 DEF IndexFile, Indexing, SearchInv
<1>6. ASSUME NEW f \in Files, IndexFails(f) PROVE SearchInv'
  BY <1>6 DEF IndexFails, SearchInv
<1>7. CASE Respond
  BY <1>7 DEF Respond, SearchInv
<1>8. ASSUME NEW f \in Files, NEW m \in Shapes, AppendMessage(f, m) PROVE SearchInv'
  BY <1>2, <1>8 DEF AppendMessage
<1>9. CASE UNCHANGED vars
  BY <1>2, <1>9 DEF vars
<1>. QED
  BY <1>3, <1>4, <1>5, <1>6, <1>7, <1>8, <1>9, IndexDoneStep, PopStep DEF Next

(* The answer is the page: either there is one message too many, or none   *)
(* that is wanted is left.                                                 *)
LEMMA RespondExact ==
    ASSUME TypeOK, IndexInv, SearchInv, Respond
    PROVE  PageExact'
<1>1. /\ pc = "merge" /\ query \in Queries
      /\ UNCHANGED <<files, query, next>>
      /\ CursorInv /\ FoundInv /\ PassedInv
  BY DEF Respond, TypeOK, SearchInv
<1>2. Wanted' = Wanted /\ Before' = Before
  BY <1>1, ListKept DEF Grows, TypeOK
<1>3. query.limit \in Nat /\ query.offset \in Nat /\ query.since \in Int
  BY <1>1, QueriesAssumption
<1>4. IsFiniteSet(Wanted) /\ LinearOn(Wanted, Before)
  BY WantedFinite, AheadLinear
<1>5. /\ skipped \in Nat /\ skipped <= query.offset
      /\ messages \in Seq(Wanted) /\ Len(messages) <= query.limit + 1
      /\ Len(messages) > 0 => skipped = query.offset
      /\ \A i \in 1 .. Len(messages) :
            Rank(messages[i], Wanted, Before) = query.offset + i - 1
      /\ Cardinality(Passed) = skipped + Len(messages)
  BY <1>1 DEF FoundInv, PassedInv, StoreLimit
<1>6. Len(messages) = query.limit + 1 \/ Cardinality(Wanted) = skipped + Len(messages)
  <2>1. ASSUME NEW f \in DOMAIN heap, OnTop(f), TooOld(f), NEW q \in Left PROVE FALSE
    <3>1. At(f, Entry(f)).at >= At(q[1], q[2]).at
      BY <1>1, <2>1, TopFirst
    <3>2. q \in Wanted
      BY DEF Left
    <3>3. At(q[1], q[2]).at >= query.since
      BY <3>2 DEF Wanted
    <3>4. At(f, Entry(f)).at \in Int /\ At(q[1], q[2]).at \in Int
      BY <1>1, <3>2, CursorFirst, WantedMembers
    <3>. QED
      BY <1>3, <2>1, <3>1, <3>3, <3>4 DEF TooOld
  <2>2. CASE DOMAIN heap = {} \/ \E f \in DOMAIN heap : OnTop(f) /\ TooOld(f)
    <3>1. Left = {}
      BY <2>1, <2>2 DEF Left
    <3>2. Passed = Wanted
      BY <3>1 DEF Passed
    <3>. QED
      BY <1>5, <3>2
  <2>3. CASE ~(Len(messages) < StoreLimit)
    <3>1. Len(messages) \in Nat
      BY <1>5
    <3>. QED
      BY <1>3, <1>5, <2>3, <3>1 DEF StoreLimit
  <2>. QED
    BY <1>1, <2>2, <2>3 DEF Respond, Searching
<1>7. /\ SubSeq(messages, 1, IF Len(messages) > query.limit THEN query.limit
                             ELSE Len(messages))
            = SubSeq(Reference, query.offset + 1,
                     LesserOf(query.offset + query.limit, Len(Reference)))
      /\ (Len(messages) > query.limit) = (Len(Reference) > query.offset + query.limit)
  <2>1. IsPage(messages, Sorted(Wanted, Before), query.offset, query.limit)
    BY <1>3, <1>4, <1>5, <1>6, FoundIsPage
  <2>. QED
    BY <2>1 DEF IsPage, Reference
<1>8. /\ response'.data = SubSeq(messages, 1, IF Len(messages) > query.limit
                                              THEN query.limit ELSE Len(messages))
      /\ response'.hasMore = (Len(messages) > query.limit)
  BY DEF Respond
<1>9. Reference' = Reference
  BY <1>2 DEF Reference
<1>. QED
  BY <1>1, <1>7, <1>8, <1>9 DEF PageExact, LesserOf

LEMMA PageStep ==
    ASSUME TypeOK, IndexInv, SearchInv, PageExact, [Next]_vars
    PROVE  PageExact'
<1>1. Grows
  BY FilesGrow
<1>2. CASE UNCHANGED queryVars
  <2>1. Wanted' = Wanted /\ Before' = Before
    BY <1>1, <1>2, ListKept DEF queryVars
  <2>2. Reference' = Reference
    BY <2>1 DEF Reference
  <2>. QED
    BY <1>2, <2>2 DEF PageExact, queryVars, LesserOf
<1>3. CASE pc' # "done"
  BY <1>3 DEF PageExact
<1>4. CASE response' = Failure
  BY <1>4 DEF PageExact, Failure, NoResponse
<1>5. \/ UNCHANGED queryVars \/ pc' # "done" \/ response' = Failure \/ Respond
  <2>1. CASE Next
    BY <2>1 DEF Next, AppendMessage, BeginQuery, AppendTorn, IndexFile, Indexing, IndexFails,
                IndexDone, Pop, Searching
  <2>2. CASE UNCHANGED vars
    BY <2>2 DEF vars
  <2>. QED
    BY <2>1, <2>2
<1>. QED
  BY <1>2, <1>3, <1>4, <1>5, RespondExact

LEMMA InvHolds == Spec => []Inv
<1>1. Init => Inv
  BY InitInv
<1>2. Inv /\ [Next]_vars => Inv'
  BY TypeStep, IndexStep, StartStep, SearchStep, PageStep DEF Inv
<1>. QED
  BY <1>1, <1>2, PTL DEF Spec

-----------------------------------------------------------------------------
(* A query sees every message that was stored when it began, or fails: no  *)
(* file is left out of the merge and no line of the start out of an index, *)
(* and none was passed over because it could not be decoded.               *)
THEOREM QuerySeesStored == Spec => []SeesStored
<1>1. Inv => SeesStored
  BY SeesStoredHolds DEF Inv
<1>. QED
  BY <1>1, InvHolds, PTL

(* The page of FileStore.Query and handleMessages is the page of the list  *)
(* of all wanted messages, newest first, and hasMore tells whether the     *)
(* list goes on, for any number of files, messages and queries and however *)
(* messages are stored while the query runs.                               *)
THEOREM PagesExact == Spec => []PageExact
<1>1. Inv => PageExact
  BY DEF Inv
<1>. QED
  BY <1>1, InvHolds, PTL
=============================================================================
