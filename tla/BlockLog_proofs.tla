-------------------------- MODULE BlockLog_proofs --------------------------
(***************************************************************************)
(* Proofs about the block log, for every bound on its size and every point *)
(* at which the process may be killed.                                     *)
(***************************************************************************)
EXTENDS BlockLog, TLAPS

\* The last marker names a record of the file, and a block read there has a
\* positive number.
LEMMA LastMarkInFile ==
  ASSUME TypeOK, MarksSound, Len(main) > 0
  PROVE  /\ Len(main) \in Nat \ {0}
         /\ LastMark \in 0..(Len(main) - 1)
         /\ main[LastMark + 1].mark = LastMark \/ LastMark = 0
         /\ BlockAt(LastMark) \in (Nat \ {0}) \cup {ZeroBlock}
         /\ NumOf(BlockAt(LastMark)) \in Nat \ {0}
<1>1. Len(main) \in Nat \ {0} /\ main[Len(main)] \in Cell
  BY DEF TypeOK
<1>2. LastMark \in 0..(Len(main) - 1) /\ (LastMark = 0 \/ LastMark = Len(main) - 1)
  BY <1>1 DEF LastMark, MarksSound, Cell
<1>3. main[LastMark + 1] \in Cell
  <2>1. LastMark + 1 \in 1..Len(main)
    BY <1>1, <1>2
  <2> QED
    BY <2>1 DEF TypeOK
<1>4. main[LastMark + 1].mark = LastMark \/ LastMark = 0
  BY <1>1, <1>2 DEF LastMark
<1> QED
  BY <1>1, <1>2, <1>3, <1>4 DEF BlockAt, NumOf, ZeroBlock, Hole, Cell

LEMMA InitIndInv == Init => IndInv
  BY DEF Init, IndInv, TypeOK, PCs, Stores, MarksSound, ScanInOrder, OpenState,
         ClosedState, Settled, NumOf, ZeroBlock, IndexUpToDate

LEMMA AppendResizeIndInv == IndInv /\ AppendResize => IndInv'
<1> SUFFICES ASSUME IndInv, AppendResize PROVE IndInv'
  OBVIOUS
<1> USE DEF IndInv
<1>1. /\ TypeOK /\ pc = "idle" /\ pc' = "data" /\ UNCHANGED <<index, head, acked>>
      /\ main \in Seq(Cell) /\ index \in Seq(Nat)
      /\ head \in Nat \cup {ZeroBlock} /\ NumOf(head) \in Nat
  BY DEF AppendResize, TypeOK, NumOf, ZeroBlock
<1>2. /\ main' \in Seq(Cell)
      /\ Len(main') = Len(main) + 1
      /\ Len(main) \in Nat
      /\ \A i \in 1..Len(main) : main'[i] = main[i]
      /\ main'[Len(main')] = [blk |-> Hole, mark |-> 0]
  <2>1. [blk |-> Hole, mark |-> 0] \in Cell
    BY DEF Cell, Hole
  <2> QED
    BY <1>1, <2>1 DEF AppendResize
<1>3. TypeOK'
  BY <1>1, <1>2 DEF TypeOK, PCs, Stores
<1>4. MarksSound'
  BY <1>2 DEF MarksSound, Hole
<1>5. ScanInOrder'
  <2> SUFFICES ASSUME NEW i \in 1..Len(main'), MarkedUpTo(i)'
               PROVE  NumOf(BlockAt(i - 1))' = i
    BY DEF ScanInOrder
  <2>1. CASE i <= Len(main)
    <3>1. MarkedUpTo(i)
      <4> SUFFICES ASSUME NEW j \in 1..i PROVE main[j].mark = j - 1
        BY DEF MarkedUpTo
      <4>1. j \in 1..Len(main)
        BY <1>2, <2>1
      <4>2. main'[j].mark = j - 1
        BY DEF MarkedUpTo
      <4> QED
        BY <1>2, <4>1, <4>2
    <3>2. main'[i] = main[i]
      BY <1>2, <2>1
    <3> QED
      BY <1>2, <2>1, <3>1, <3>2 DEF ScanInOrder, BlockAt, NumOf
  <2>2. CASE i = Len(main) + 1
    BY <1>2, <2>2 DEF MarkedUpTo, BlockAt, NumOf, Hole, ZeroBlock
  <2> QED
    BY <1>2, <2>1, <2>2
<1>6. OpenState'
  <2>1. Settled' = Len(main) /\ Settled = Len(main)
    BY <1>1, <1>2 DEF Settled, Stores
  <2>2. \A n \in 1..NumOf(head) : EntryOK(n, Len(main)) /\ index[n] \in Nat
    BY <1>1, <2>1 DEF OpenState
  <2>3. \A n \in 1..NumOf(head) : EntryOK(n, Len(main))'
    <3> SUFFICES ASSUME NEW n \in 1..NumOf(head) PROVE EntryOK(n, Len(main))'
      OBVIOUS
    <3>1. EntryOK(n, Len(main)) /\ index[n] \in Nat
      BY <2>2
    <3>2. index[n] + 1 \in 1..Len(main) /\ index'[n] = index[n]
      BY <1>1, <1>2, <3>1 DEF EntryOK
    <3>3. main'[index[n] + 1] = main[index[n] + 1]
      BY <1>2, <3>2
    <3> QED
      BY <1>2, <3>1, <3>2, <3>3 DEF EntryOK, BlockAt, NumOf
  <2>4. MarkedUpTo(Len(main))' => MarkedUpTo(Len(main))
    BY <1>2 DEF MarkedUpTo
  <2> QED
    BY <1>1, <1>2, <2>1, <2>3, <2>4 DEF OpenState, NumOf, MarkedUpTo, EntryOK, Stores
<1>7. ClosedState'
  BY <1>1 DEF ClosedState
<1> QED
  BY <1>3, <1>4, <1>5, <1>6, <1>7

\* Replacing the last element of a sequence.
LEMMA ReplaceLast ==
  ASSUME NEW S, NEW s \in Seq(S), Len(s) \in Nat \ {0}, NEW c \in S,
         NEW t, t = [s EXCEPT ![Len(s)] = c]
  PROVE  /\ t \in Seq(S) /\ Len(t) = Len(s)
         /\ \A i \in 1..(Len(s) - 1) : t[i] = s[i]
         /\ t[Len(s)] = c
  OBVIOUS

\* Storing data or marker in the last record: everything but that record is
\* as before, and the record keeps the order of the scan.
LEMMA StoreInLastCell ==
  ASSUME IndInv, pc \in {"data", "mark"}, NEW c \in Cell,
         c.blk = NumOf(head) + 1, c.mark \in {0, Len(main) - 1},
         pc' \in Stores \ {"data"},
         main' \in Seq(Cell), Len(main') = Len(main),
         \A i \in 1..(Len(main) - 1) : main'[i] = main[i],
         main'[Len(main)] = c,
         UNCHANGED <<index, head, acked>>
  PROVE  /\ TypeOK' /\ MarksSound' /\ ScanInOrder' /\ ClosedState'
         /\ Len(main') = Len(main) /\ Len(main) \in Nat \ {0}
         /\ NumOf(head) \in Nat
         /\ main'[Len(main)] = c
         /\ Settled' = Settled /\ Settled = Len(main) - 1
         /\ \A n \in 1..NumOf(head) : EntryOK(n, Settled)'
         /\ MarkedUpTo(Settled)' => NumOf(head)' = Settled
<1> USE DEF IndInv
<1>1. /\ main \in Seq(Cell) /\ index \in Seq(Nat) /\ head \in Nat \cup {ZeroBlock}
      /\ acked \in Nat /\ NumOf(head) \in Nat /\ Len(main) \in Nat
  BY DEF TypeOK, NumOf, ZeroBlock
<1>2. /\ Settled = Len(main) - 1 /\ Len(main) >= 1
      /\ Settled = 0 <=> NumOf(head) = 0
      /\ Len(index) = NumOf(head)
      /\ \A n \in 1..NumOf(head) : EntryOK(n, Settled)
      /\ MarkedUpTo(Settled) => NumOf(head) = Settled
  BY <1>1 DEF OpenState, Settled, Stores
<1>4. main' \in Seq(Cell) /\ Len(main') = Len(main) /\ main'[Len(main)] = c
  OBVIOUS
<1>5. TypeOK'
  BY <1>1, <1>4 DEF TypeOK, PCs, Stores
<1>6. MarksSound'
  <2> SUFFICES ASSUME NEW i \in 1..Len(main)
               PROVE  /\ main'[i].mark \in {0, i - 1}
                      /\ main'[i].mark # 0 => main'[i].blk # Hole
    BY <1>4 DEF MarksSound
  <2>1. CASE i < Len(main)
    <3>0. i \in 1..(Len(main) - 1)
      BY <1>1, <2>1
    <3>1. main'[i] = main[i]
      BY <3>0
    <3> QED
      BY <3>1 DEF MarksSound
  <2>2. CASE i = Len(main)
    BY <1>1, <1>2, <1>4, <2>2 DEF Hole
  <2> QED
    BY <1>1, <2>1, <2>2
<1>7. ASSUME NEW k \in 0..(Len(main) - 1), MarkedUpTo(k)' PROVE MarkedUpTo(k)
  <2> SUFFICES ASSUME NEW j \in 1..k PROVE main[j].mark = j - 1
    BY DEF MarkedUpTo
  <2>1. j \in 1..(Len(main) - 1) /\ main'[j].mark = j - 1
    BY <1>1, <1>7 DEF MarkedUpTo
  <2> QED
    BY <1>4, <2>1
<1>8. MarkedUpTo(Settled)' => NumOf(head)' = Settled
  <2>1. Settled' = Settled /\ Settled \in 0..(Len(main) - 1)
    BY <1>1, <1>2, <1>4 DEF Settled, Stores
  <2>2. MarkedUpTo(Settled)' => MarkedUpTo(Settled)
    <3> SUFFICES ASSUME MarkedUpTo(Settled)', NEW j \in 1..Settled
                 PROVE  main[j].mark = j - 1
      BY DEF MarkedUpTo
    <3>1. j \in 1..(Len(main) - 1) /\ main'[j].mark = j - 1
      BY <1>1, <2>1 DEF MarkedUpTo
    <3> QED
      BY <3>1
  <2> QED
    BY <1>2, <2>2 DEF NumOf
<1>9. ScanInOrder'
  <2> SUFFICES ASSUME NEW i \in 1..Len(main), MarkedUpTo(i)'
               PROVE  NumOf(BlockAt(i - 1))' = i
    BY <1>4 DEF ScanInOrder
  <2>1. CASE i < Len(main)
    <3>1. MarkedUpTo(i) /\ main'[i] = main[i] /\ i - 1 + 1 = i
      BY <1>1, <1>4, <1>7, <2>1
    <3> QED
      BY <3>1 DEF ScanInOrder, BlockAt, NumOf
  <2>2. CASE i = Len(main)
    <3>1. c.mark = Len(main) - 1
      BY <1>1, <1>2, <1>4, <2>2 DEF MarkedUpTo
    <3>2. MarkedUpTo(Settled)'
      <4>1. Settled' = Len(main) - 1
        BY <1>2, <1>4 DEF Settled, Stores
      <4> QED
        BY <1>1, <2>2, <4>1 DEF MarkedUpTo
    <3>3. NumOf(head) = Len(main) - 1
      BY <1>2, <1>8, <3>2
    <3>4. c.blk = Len(main) /\ i - 1 + 1 = i /\ i # 0 /\ i # -1
      BY <1>1, <1>2, <2>2, <3>3
    <3>5. BlockAt(i - 1)' = i
      BY <1>4, <2>2, <3>4 DEF BlockAt, Hole
    <3> QED
      BY <3>4, <3>5 DEF NumOf, ZeroBlock
  <2> QED
    BY <1>1, <2>1, <2>2
<1>10. \A n \in 1..NumOf(head) : EntryOK(n, Settled)'
  <2> SUFFICES ASSUME NEW n \in 1..NumOf(head) PROVE EntryOK(n, Settled)'
    OBVIOUS
  <2>1. EntryOK(n, Settled) /\ index[n] \in Nat /\ index' = index
    BY <1>1, <1>2
  <2>2. index[n] + 1 \in 1..(Len(main) - 1)
    BY <1>1, <1>2, <2>1 DEF EntryOK
  <2>3. main'[index[n] + 1] = main[index[n] + 1]
    BY <1>4, <2>2
  <2>4. Settled' = Settled
    BY <1>2, <1>4 DEF Settled, Stores
  <2> QED
    BY <2>1, <2>3, <2>4 DEF EntryOK, BlockAt, NumOf
<1> QED
  BY <1>1, <1>2, <1>4, <1>5, <1>6, <1>8, <1>9, <1>10 DEF ClosedState, Settled, Stores

LEMMA AppendDataIndInv == IndInv /\ AppendData => IndInv'
<1> SUFFICES ASSUME IndInv, AppendData PROVE IndInv'
  OBVIOUS
<1>1. /\ pc = "data" /\ pc' = "mark" /\ UNCHANGED <<index, head, acked>>
      /\ main' = [main EXCEPT ![Len(main)] = [blk |-> NumOf(head) + 1, mark |-> 0]]
  BY DEF AppendData
<1>2. /\ TypeOK' /\ MarksSound' /\ ScanInOrder' /\ ClosedState'
      /\ Len(main') = Len(main) /\ Len(main) \in Nat \ {0} /\ NumOf(head) \in Nat
      /\ main'[Len(main)] = [blk |-> NumOf(head) + 1, mark |-> 0]
      /\ Settled' = Settled /\ Settled = Len(main) - 1
      /\ \A n \in 1..NumOf(head) : EntryOK(n, Settled)'
      /\ MarkedUpTo(Settled)' => NumOf(head)' = Settled
  <2>1. Len(main) \in Nat \ {0} /\ NumOf(head) \in Nat
    BY <1>1 DEF IndInv, TypeOK, OpenState, Settled, Stores, NumOf, ZeroBlock
  <2>2. [blk |-> NumOf(head) + 1, mark |-> 0] \in Cell
    BY <2>1 DEF Cell
  <2>3. /\ main' \in Seq(Cell) /\ Len(main') = Len(main)
        /\ \A i \in 1..(Len(main) - 1) : main'[i] = main[i]
        /\ main'[Len(main)] = [blk |-> NumOf(head) + 1, mark |-> 0]
    BY <1>1, <2>1, <2>2, ReplaceLast DEF IndInv, TypeOK
  <2> QED
    BY <1>1, <2>1, <2>2, <2>3, StoreInLastCell DEF Stores
<1>3. OpenState'
  BY <1>1, <1>2 DEF OpenState, IndInv, NumOf, Stores, MarkedUpTo, EntryOK
<1> QED
  BY <1>2, <1>3 DEF IndInv

LEMMA AppendMarkIndInv == IndInv /\ AppendMark => IndInv'
<1> SUFFICES ASSUME IndInv, AppendMark PROVE IndInv'
  OBVIOUS
<1>1. /\ pc = "mark" /\ pc' = "isize" /\ UNCHANGED <<index, head, acked>>
      /\ main' = [main EXCEPT ![Len(main)] =
                     [blk |-> NumOf(head) + 1, mark |-> Len(main) - 1]]
  <2>1. pc = "mark" /\ main[Len(main)] = [blk |-> NumOf(head) + 1, mark |-> 0]
    BY DEF AppendMark, IndInv, OpenState, Stores
  <2>2. main[Len(main)].blk = NumOf(head) + 1
    BY <2>1
  <2> QED
    BY <2>1, <2>2 DEF AppendMark
<1>2. /\ TypeOK' /\ MarksSound' /\ ScanInOrder' /\ ClosedState'
      /\ Len(main') = Len(main) /\ Len(main) \in Nat \ {0} /\ NumOf(head) \in Nat
      /\ main'[Len(main)] = [blk |-> NumOf(head) + 1, mark |-> Len(main) - 1]
      /\ Settled' = Settled /\ Settled = Len(main) - 1
      /\ \A n \in 1..NumOf(head) : EntryOK(n, Settled)'
      /\ MarkedUpTo(Settled)' => NumOf(head)' = Settled
  <2>1. Len(main) \in Nat \ {0} /\ NumOf(head) \in Nat
    BY <1>1 DEF IndInv, TypeOK, OpenState, Settled, Stores, NumOf, ZeroBlock
  <2>2. [blk |-> NumOf(head) + 1, mark |-> Len(main) - 1] \in Cell
    BY <2>1 DEF Cell
  <2>3. /\ main' \in Seq(Cell) /\ Len(main') = Len(main)
        /\ \A i \in 1..(Len(main) - 1) : main'[i] = main[i]
        /\ main'[Len(main)] = [blk |-> NumOf(head) + 1, mark |-> Len(main) - 1]
    BY <1>1, <2>1, <2>2, ReplaceLast DEF IndInv, TypeOK
  <2> QED
    BY <1>1, <2>1, <2>2, <2>3, StoreInLastCell DEF Stores
<1>3. OpenState'
  BY <1>1, <1>2 DEF OpenState, IndInv, NumOf, Stores, MarkedUpTo, EntryOK
<1> QED
  BY <1>2, <1>3 DEF IndInv

LEMMA AppendIndexResizeIndInv == IndInv /\ AppendIndexResize => IndInv'
<1> SUFFICES ASSUME IndInv, AppendIndexResize PROVE IndInv'
  OBVIOUS
<1> USE DEF IndInv
<1>1. /\ pc = "isize" /\ pc' = "ival" /\ UNCHANGED <<main, head, acked>>
      /\ index \in Seq(Nat) /\ NumOf(head) \in Nat /\ Len(index) = NumOf(head)
      /\ Settled' = Settled /\ NumOf(head)' = NumOf(head)
  BY DEF AppendIndexResize, TypeOK, OpenState, Settled, Stores, NumOf, ZeroBlock
<1>2. /\ index' \in Seq(Nat) /\ Len(index') = Len(index) + 1
      /\ index'[Len(index')] = 0
      /\ \A n \in 1..Len(index) : index'[n] = index[n]
  BY <1>1 DEF AppendIndexResize
<1>3. TypeOK' /\ MarksSound' /\ ScanInOrder' /\ ClosedState'
  BY <1>1, <1>2 DEF TypeOK, PCs, Stores, MarksSound, ScanInOrder, ClosedState,
                    MarkedUpTo, BlockAt, NumOf
<1>4. \A n \in 1..NumOf(head) : EntryOK(n, Settled)'
  <2> SUFFICES ASSUME NEW n \in 1..NumOf(head) PROVE EntryOK(n, Settled)'
    OBVIOUS
  <2>1. EntryOK(n, Settled)
    BY <1>1 DEF OpenState, Stores
  <2>2. index'[n] = index[n]
    BY <1>1, <1>2
  <2> QED
    BY <1>1, <2>1, <2>2 DEF EntryOK, BlockAt, NumOf
<1>5. OpenState'
  BY <1>1, <1>2, <1>4 DEF OpenState, Stores, MarkedUpTo
<1> QED
  BY <1>3, <1>5

LEMMA AppendIndexIndInv == IndInv /\ AppendIndex => IndInv'
<1> SUFFICES ASSUME IndInv, AppendIndex PROVE IndInv'
  OBVIOUS
<1> USE DEF IndInv
<1>1. /\ pc = "ival" /\ pc' = "idle" /\ main' = main
      /\ index \in Seq(Nat) /\ NumOf(head) \in Nat /\ Len(index) = NumOf(head) + 1
      /\ Len(main) \in Nat /\ Settled = Len(main) - 1 /\ Settled >= 0
      /\ Settled' = Len(main) /\ acked \in Nat
      /\ head' = NumOf(head) + 1 /\ acked' \in {acked, NumOf(head) + 1}
  BY DEF AppendIndex, TypeOK, OpenState, Settled, Stores, NumOf, ZeroBlock
<1>2. NumOf(head)' = NumOf(head) + 1
  BY <1>1 DEF NumOf, ZeroBlock
<1>3. /\ index' \in Seq(Nat) /\ Len(index') = Len(index)
      /\ \A n \in 1..(Len(index) - 1) : index'[n] = index[n]
      /\ index'[Len(index)] = Len(main) - 1
  <2>1. Len(index) \in Nat \ {0} /\ Len(main) - 1 \in Nat
    BY <1>1
  <2>2. index' = [index EXCEPT ![Len(index)] = Len(main) - 1]
    BY DEF AppendIndex
  <2> QED
    BY <1>1, <2>1, <2>2, ReplaceLast
<1>4. main[Len(main)].blk = NumOf(head) + 1 /\ main[Len(main)].mark = Len(main) - 1
  BY <1>1 DEF OpenState, Stores
<1>5. TypeOK' /\ MarksSound' /\ ScanInOrder' /\ ClosedState'
  BY <1>1, <1>3 DEF TypeOK, PCs, Stores, MarksSound, ScanInOrder, ClosedState,
                    MarkedUpTo, BlockAt, NumOf
<1>6. \A n \in 1..(NumOf(head) + 1) : EntryOK(n, Settled)'
  <2> SUFFICES ASSUME NEW n \in 1..(NumOf(head) + 1) PROVE EntryOK(n, Settled)'
    OBVIOUS
  <2>1. CASE n \in 1..NumOf(head)
    <3>1. EntryOK(n, Settled) /\ index[n] \in Nat
      BY <1>1, <2>1 DEF OpenState, Stores
    <3>2. index'[n] = index[n]
      BY <1>1, <1>3, <2>1
    <3> QED
      BY <1>1, <3>1, <3>2 DEF EntryOK, BlockAt, NumOf
  <2>2. CASE n = NumOf(head) + 1
    <3>1. index'[n] = Len(main) - 1
      BY <1>1, <1>3, <2>2
    <3>2. Len(main) - 1 + 1 = Len(main) /\ n # 0 /\ n # -1
      BY <1>1, <2>2
    <3>3. BlockAt(Len(main) - 1) = n
      BY <1>4, <2>2, <3>2 DEF BlockAt, Hole
    <3> QED
      BY <1>1, <1>4, <3>1, <3>2, <3>3 DEF EntryOK, BlockAt, NumOf, ZeroBlock
  <2> QED
    BY <1>1, <2>1, <2>2
<1>7. MarkedUpTo(Settled)' => NumOf(head)' = Settled'
  <2> SUFFICES ASSUME MarkedUpTo(Settled)' PROVE NumOf(head) = Len(main) - 1
    BY <1>1, <1>2
  <2>1. MarkedUpTo(Settled)
    BY <1>1 DEF MarkedUpTo
  <2> QED
    BY <1>1, <2>1 DEF OpenState, Stores
<1>8. Settled' # 0 /\ NumOf(head)' # 0 /\ Len(index') = NumOf(head)'
  BY <1>1, <1>2, <1>3
<1>9. OpenState'
  BY <1>1, <1>2, <1>6, <1>7, <1>8 DEF OpenState, Stores
<1> QED
  BY <1>5, <1>9

\* Leaving the files as they are, from any point of an open log.
LEMMA StopIndInv ==
  ASSUME IndInv, pc \in Stores \cup {"idle"}, pc' = "closed", head' = 0,
         UNCHANGED <<main, index, acked>>
  PROVE  IndInv'
<1> USE DEF IndInv
<1>1. TypeOK' /\ MarksSound' /\ ScanInOrder' /\ OpenState'
  BY DEF TypeOK, PCs, MarksSound, ScanInOrder, OpenState, MarkedUpTo, BlockAt, NumOf, Stores
<1>2. ClosedState'
  <2> SUFFICES ASSUME Len(main) > 0, IndexUpToDate, NEW n \in 1..Len(index)
               PROVE  EntryOK(n, Len(main))
    BY DEF ClosedState, IndexUpToDate, LastIndex, LastMark, EntryOK, BlockAt, NumOf
  <2>1. /\ index \in Seq(Nat) /\ Len(main) \in Nat /\ NumOf(head) \in Nat
        /\ Settled \in {Len(main), Len(main) - 1} /\ Settled \in Nat
        /\ Len(index) = NumOf(head) + (IF pc = "ival" THEN 1 ELSE 0)
        /\ \A k \in 1..NumOf(head) : EntryOK(k, Settled)
    BY DEF TypeOK, OpenState, Settled, NumOf, ZeroBlock
  <2>2. CASE n \in 1..NumOf(head)
    BY <2>1, <2>2 DEF EntryOK
  <2>3. CASE n \notin 1..NumOf(head)
    <3>1. pc = "ival" /\ n = NumOf(head) + 1 /\ n = Len(index) /\ index[n] = 0
      BY <2>1, <2>3 DEF OpenState
    <3>2. /\ main[Len(main)].mark = Len(main) - 1
          /\ main[Len(main)].blk = NumOf(head) + 1
          /\ Settled = Len(main) - 1
      BY <3>1 DEF OpenState, Settled, Stores
    <3>3. Len(main) = 1
      <4>1. index[Len(index)] = main[Len(main)].mark
        BY DEF IndexUpToDate, LastIndex, LastMark
      <4>2. Len(main) - 1 = 0
        BY <3>1, <3>2, <4>1
      <4> QED
        BY <2>1, <4>2
    <3>4. NumOf(head) = 0
      BY <3>2, <3>3 DEF OpenState
    <3>5. BlockAt(0) = 1
      BY <3>2, <3>3, <3>4 DEF BlockAt, Hole
    <3> QED
      BY <3>1, <3>2, <3>3, <3>4, <3>5 DEF EntryOK, NumOf, ZeroBlock
  <2> QED
    BY <2>2, <2>3
<1> QED
  BY <1>1, <1>2

LEMMA OpenIndInv == IndInv /\ Open => IndInv'
<1> SUFFICES ASSUME IndInv, Open PROVE IndInv'
  OBVIOUS
<1> USE DEF IndInv
<1>1. CASE OpenEmpty
  <2>1. /\ pc' = "idle" /\ main' = << >> /\ index' = << >> /\ head' = head
        /\ acked' = acked
    BY <1>1 DEF OpenEmpty
  <2>2. head = 0
    BY DEF Open, ClosedState
  <2> QED
    BY <2>1, <2>2 DEF TypeOK, PCs, MarksSound, ScanInOrder, OpenState, ClosedState,
                      Settled, Stores, NumOf, ZeroBlock, MarkedUpTo
<1>2. CASE OpenRecords
  <2>1. /\ pc = "closed" /\ main' = main /\ acked' = acked /\ Len(main) > 0
        /\ head' = BlockAt(LastMark) /\ main \in Seq(Cell) /\ index \in Seq(Nat)
    BY <1>2 DEF Open, OpenRecords, OpenEmpty, TypeOK
  <2>2. /\ Len(main) \in Nat \ {0}
        /\ LastMark \in 0..(Len(main) - 1)
        /\ BlockAt(LastMark) \in (Nat \ {0}) \cup {ZeroBlock}
        /\ NumOf(BlockAt(LastMark)) \in Nat \ {0}
    BY <2>1, LastMarkInFile
  <2>3. NumOf(head)' = NumOf(BlockAt(LastMark)) /\ Len(main)' = Len(main)
    BY <2>1 DEF NumOf
  <2>4. MarksSound' /\ ScanInOrder'
    BY <2>1 DEF MarksSound, ScanInOrder, MarkedUpTo, BlockAt, NumOf
  <2>5. MarkedUpTo(Len(main)) => NumOf(BlockAt(LastMark)) = Len(main)
    <3> SUFFICES ASSUME MarkedUpTo(Len(main)) PROVE NumOf(BlockAt(LastMark)) = Len(main)
      OBVIOUS
    <3>1. LastMark = Len(main) - 1
      BY <2>2 DEF MarkedUpTo, LastMark
    <3> QED
      BY <2>2, <3>1 DEF ScanInOrder
  <2>6. CASE IndexUpToDate
    <3>1. index' = index /\ pc' = "idle"
      BY <1>2, <2>6 DEF OpenRecords
    <3>2. \A n \in 1..Len(index) : EntryOK(n, Len(main))
      BY <2>1, <2>6 DEF ClosedState
    <3>3. Len(index) = NumOf(BlockAt(LastMark))
      <4>1. Len(index) \in 1..Len(index)
        BY <2>1, <2>6 DEF IndexUpToDate
      <4>2. EntryOK(Len(index), Len(main)) /\ index[Len(index)] = LastMark
        BY <2>6, <3>2, <4>1 DEF IndexUpToDate, LastIndex
      <4> QED
        BY <4>2 DEF EntryOK
    <3>4. TypeOK' /\ ClosedState'
      BY <2>1, <2>2, <3>1 DEF TypeOK, PCs, ClosedState
    <3>5. Settled' = Len(main)
      BY <2>1, <3>1 DEF Settled, Stores
    <3>6. \A n \in 1..Len(index) : EntryOK(n, Settled)'
      BY <2>1, <3>1, <3>2, <3>5 DEF EntryOK, BlockAt, NumOf
    <3>7. MarkedUpTo(Settled)' => MarkedUpTo(Len(main))
      BY <2>1, <3>5 DEF MarkedUpTo
    <3>8. OpenState'
      BY <2>2, <2>3, <2>5, <3>1, <3>3, <3>5, <3>6, <3>7 DEF OpenState, Stores
    <3> QED
      BY <2>4, <3>4, <3>8
  <2>7. CASE ~IndexUpToDate
    <3>1. index' = ScannedIndex /\ pc' = IF ScanSucceeds THEN "idle" ELSE "failed"
      BY <1>2, <2>7 DEF OpenRecords
    <3>2. /\ index' \in Seq(Nat)
          /\ Len(index') = NumOf(BlockAt(LastMark))
          /\ \A n \in 1..Len(index') :
                index'[n] = IF n <= LastMark + 1 /\ \A p \in 0..(n - 2) : Readable(p)
                              THEN n - 1 ELSE 0
      BY <2>2, <3>1 DEF ScannedIndex
    <3>3. TypeOK' /\ ClosedState'
      BY <2>1, <2>2, <3>1, <3>2 DEF TypeOK, PCs, ClosedState
    <3>4. ASSUME ScanSucceeds PROVE OpenState'
      <4>1. MarkedUpTo(LastMark + 1)
        <5> SUFFICES ASSUME NEW j \in 1..(LastMark + 1) PROVE main[j].mark = j - 1
          BY DEF MarkedUpTo
        <5>1. j - 1 \in 0..LastMark /\ j - 1 + 1 = j
          BY <2>2
        <5> QED
          BY <3>4, <5>1 DEF ScanSucceeds, Readable
      <4>2. ASSUME NEW n \in 1..(LastMark + 1)
            PROVE  n \in 1..Len(main) /\ NumOf(BlockAt(n - 1)) = n
        <5>1. n \in 1..Len(main)
          BY <2>2
        <5>2. MarkedUpTo(n)
          BY <2>2, <4>1 DEF MarkedUpTo
        <5> QED
          BY <5>1, <5>2 DEF ScanInOrder
      <4>3. NumOf(BlockAt(LastMark)) = LastMark + 1
        <5>1. LastMark + 1 \in 1..Len(main) /\ (LastMark + 1) - 1 = LastMark
          BY <2>2
        <5>2. \A k : k \in 1..Len(main) /\ MarkedUpTo(k) => NumOf(BlockAt(k - 1)) = k
          BY DEF ScanInOrder
        <5>3. NumOf(BlockAt((LastMark + 1) - 1)) = LastMark + 1
          BY <4>1, <5>1, <5>2
        <5> QED
          BY <5>1, <5>3
      <4>4. pc' = "idle" /\ Settled' = Len(main)
        BY <2>1, <3>1, <3>4 DEF Settled, Stores
      <4>5. \A n \in 1..(LastMark + 1) : EntryOK(n, Settled)'
        <5> SUFFICES ASSUME NEW n \in 1..(LastMark + 1) PROVE EntryOK(n, Settled)'
          OBVIOUS
        <5>1. \A p \in 0..(n - 2) : Readable(p)
          BY <2>2, <3>4 DEF ScanSucceeds
        <5>2. index'[n] = n - 1
          BY <2>2, <3>2, <4>3, <5>1
        <5>3. NumOf(BlockAt(n - 1)) = n /\ n \in 1..Len(main) /\ main[n].mark = n - 1
          BY <4>1, <4>2 DEF MarkedUpTo
        <5>4. n - 1 < Len(main) /\ n - 1 + 1 = n
          BY <2>2, <5>3
        <5> QED
          BY <2>1, <4>4, <5>2, <5>3, <5>4 DEF EntryOK, BlockAt, NumOf
      <4>6. MarkedUpTo(Settled)' => MarkedUpTo(Len(main))
        BY <2>1, <4>4 DEF MarkedUpTo
      <4> QED
        BY <2>2, <2>3, <2>5, <3>2, <4>3, <4>4, <4>5, <4>6 DEF OpenState, Stores
    <3>5. ASSUME ~ScanSucceeds PROVE OpenState'
      BY <3>1, <3>5 DEF OpenState, Stores
    <3> QED
      BY <2>4, <3>3, <3>4, <3>5
  <2> QED
    BY <2>6, <2>7
<1> QED
  BY <1>1, <1>2 DEF Open

\* A rebuild of the index that is cut short: when the heads of the files agree
\* after it, the scan had stored the position of every record.
LEMMA RebuildKilledIndInv == IndInv /\ RebuildKilled => IndInv'
<1> SUFFICES ASSUME IndInv, RebuildKilled PROVE IndInv'
  OBVIOUS
<1> USE DEF IndInv
<1>1. /\ pc = "closed" /\ pc' = "closed" /\ Len(main) > 0
      /\ UNCHANGED <<main, head, acked>>
      /\ main \in Seq(Cell) /\ head = 0
  BY DEF RebuildKilled, TypeOK, ClosedState
<1>2. /\ Len(main) \in Nat \ {0}
      /\ LastMark \in 0..(Len(main) - 1)
      /\ NumOf(BlockAt(LastMark)) \in Nat \ {0}
  BY <1>1, LastMarkInFile
<1> DEFINE N == NumOf(BlockAt(LastMark))
           Whole(n) == n <= LastMark + 1 /\ \A p \in 0..(n - 2) : Readable(p)
<1>3. PICK k \in 0..Len(ScannedIndex) :
         index' = [n \in 1..Len(ScannedIndex) |-> IF n <= k THEN ScannedIndex[n] ELSE 0]
  BY DEF RebuildKilled
<1>4. Len(ScannedIndex) = N
  BY <1>2 DEF ScannedIndex
<1>5. /\ index' \in Seq(Nat) /\ Len(index') = N
      /\ \A n \in 1..N : index'[n] = IF n <= k /\ Whole(n) THEN n - 1 ELSE 0
  <2>1. \A n \in 1..N : ScannedIndex[n] = IF Whole(n) THEN n - 1 ELSE 0
    BY DEF ScannedIndex
  <2> HIDE DEF N, Whole
  <2>2. \A n \in 1..N : (IF n <= k THEN ScannedIndex[n] ELSE 0) =
                           (IF n <= k /\ Whole(n) THEN n - 1 ELSE 0)
    BY <2>1
  <2>3. index' = [n \in 1..N |-> IF n <= k /\ Whole(n) THEN n - 1 ELSE 0]
    BY <1>3, <1>4, <2>2
  <2>4. N \in Nat
    BY <1>2 DEF N
  <2> QED
    BY <2>3, <2>4
<1>6. TypeOK' /\ MarksSound' /\ ScanInOrder' /\ OpenState'
  BY <1>1, <1>5 DEF TypeOK, PCs, MarksSound, ScanInOrder, OpenState, MarkedUpTo, BlockAt,
                    NumOf, Stores
<1>7. ASSUME IndexUpToDate', NEW n \in 1..N PROVE EntryOK(n, Len(main))'
  <2>1. index'[N] = LastMark /\ N \in 1..N
    BY <1>1, <1>2, <1>5, <1>7 DEF IndexUpToDate, LastIndex, LastMark
  <2>2. MarkedUpTo(N) /\ N = LastMark + 1
    <3>1. CASE LastMark = 0
      <4>1. main[1].mark = 0
        BY <1>2 DEF MarksSound
      <4>2. MarkedUpTo(1)
        BY <4>1 DEF MarkedUpTo
      <4>3. NumOf(BlockAt(1 - 1)) = 1
        BY <1>2, <4>2 DEF ScanInOrder
      <4>4. N = 1
        BY <3>1, <4>3
      <4> QED
        BY <3>1, <4>2, <4>4
    <3>2. CASE LastMark # 0
      <4>1. Whole(N) /\ N - 1 = LastMark
        BY <1>5, <2>1, <3>2
      <4>2. N = LastMark + 1
        BY <1>2, <4>1
      <4>3. ASSUME NEW j \in 1..N PROVE main[j].mark = j - 1
        <5>1. CASE j = N
          <6>1. LastMark = Len(main) - 1
            BY <1>1, <1>2, <3>2 DEF MarksSound, LastMark
          <6> QED
            BY <1>2, <4>2, <5>1, <6>1 DEF LastMark
        <5>2. CASE j # N
          <6>1. j - 1 \in 0..(N - 2) /\ j - 1 + 1 = j
            BY <1>2, <5>2
          <6>2. Readable(j - 1)
            BY <4>1, <6>1
          <6> QED
            BY <6>1, <6>2 DEF Readable
        <5> QED
          BY <5>1, <5>2
      <4> QED
        BY <4>2, <4>3 DEF MarkedUpTo
    <3> QED
      BY <3>1, <3>2
  <2>3. n \in 1..Len(main) /\ MarkedUpTo(n)
    BY <1>2, <2>2 DEF MarkedUpTo
  <2>4. main[n].mark = n - 1 /\ NumOf(BlockAt(n - 1)) = n
    BY <2>2, <2>3 DEF ScanInOrder, MarkedUpTo
  <2>5. index'[n] = n - 1
    <3>1. CASE LastMark = 0
      BY <1>5, <2>1, <2>2, <3>1
    <3>2. CASE LastMark # 0
      <4>1. N <= k /\ Whole(N)
        BY <1>5, <2>1, <3>2
      <4>2. n <= k /\ Whole(n)
        BY <1>2, <1>3, <4>1
      <4> QED
        BY <1>5, <4>2
    <3> QED
      BY <3>1, <3>2
  <2>6. n - 1 < Len(main) /\ n - 1 + 1 = n
    BY <1>2, <2>3
  <2> QED
    BY <1>1, <2>4, <2>5, <2>6 DEF EntryOK, BlockAt, NumOf
<1>8. ClosedState'
  BY <1>1, <1>5, <1>7 DEF ClosedState
<1> QED
  BY <1>6, <1>8

\* The conjunction of the parts is inductive.
THEOREM IndInvHolds == Spec => []IndInv
<1>1. IndInv /\ [Next]_vars => IndInv'
  <2> SUFFICES ASSUME IndInv, [Next]_vars PROVE IndInv'
    OBVIOUS
  <2>1. CASE Close
    BY <2>1, StopIndInv DEF Close
  <2>2. CASE Crash
    BY <2>2, StopIndInv DEF Crash
  <2>3. CASE Wipe
    BY <2>3 DEF Wipe, IndInv, TypeOK, PCs, Stores, MarksSound, ScanInOrder, OpenState,
                ClosedState, IndexUpToDate
  <2>4. CASE UNCHANGED vars
    <3>0. TypeOK'
      BY <2>4 DEF vars, IndInv, TypeOK
    <3>1. ScanInOrder'
      BY <2>4 DEF vars, IndInv, ScanInOrder, MarkedUpTo, NumOf, BlockAt
    <3>2. MarksSound'
      BY <2>4 DEF vars, IndInv, MarksSound, MarkedUpTo, EntryOK, BlockAt, Settled, LastMark
    <3>3. OpenState' /\ ClosedState'
      BY <2>4 DEF vars, IndInv, OpenState, ClosedState, IndexUpToDate, MarkedUpTo,
                  LastIndex, LastMark, EntryOK, BlockAt, NumOf, Settled
    <3> QED
      BY <3>0, <3>1, <3>2, <3>3 DEF IndInv
  <2> QED
    BY <2>1, <2>2, <2>3, <2>4, AppendResizeIndInv, AppendDataIndInv, AppendMarkIndInv,
       AppendIndexResizeIndInv, AppendIndexIndInv, OpenIndInv, RebuildKilledIndInv DEF Next
<1> QED
  BY <1>1, InitIndInv, PTL DEF Spec

\* Whatever kills and restarts came before, read_block_by_num(n) returns
\* block n for every n up to the head of an open log.
THEOREM ReadsByNumberHolds == Spec => []ReadsByNumber
<1>1. IndInv => ReadsByNumber
  <2> SUFFICES ASSUME IndInv, pc = "idle" PROVE ReadsByNumber
    BY DEF ReadsByNumber
  <2>1. /\ Len(index) = NumOf(head) /\ index \in Seq(Nat)
        /\ \A n \in 1..NumOf(head) : EntryOK(n, Len(main))
    BY DEF IndInv, OpenState, Settled, Stores, TypeOK, NumOf, ZeroBlock
  <2> QED
    BY <2>1 DEF ReadsByNumber, EntryOK, Readable
<1> QED
  BY <1>1, IndInvHolds, PTL

-----------------------------------------------------------------------------
(* What the main file keeps, whenever the process is killed                *)

\* Types, and what a step of append() finds in the last record.
LEMMA OpenFacts ==
  ASSUME IndInv
  PROVE  /\ main \in Seq(Cell) /\ Len(main) \in Nat /\ acked \in Nat
         /\ NumOf(head) \in Nat
         /\ pc \in Stores => Len(main) > 0
         /\ pc \in Stores /\ Len(main) = 1 => NumOf(head) = 0
         /\ pc = "data" => main[Len(main)] = [blk |-> Hole, mark |-> 0]
         /\ pc = "mark" => main[Len(main)] = [blk |-> NumOf(head) + 1, mark |-> 0]
  BY DEF IndInv, TypeOK, NumOf, ZeroBlock, OpenState, Settled, Stores

\* What the stores of append() do to the main file: a new record at its end,
\* then the data and the marker of that record.
LEMMA MainStep ==
  ASSUME IndInv, [Next]_vars
  PROVE  \/ main' = main
         \/ Wipe /\ main' = << >>
         \/ /\ AppendResize
            /\ Len(main') = Len(main) + 1 /\ \A i \in 1..Len(main) : main'[i] = main[i]
            /\ main'[Len(main) + 1] = [blk |-> Hole, mark |-> 0]
         \/ /\ AppendData \/ AppendMark
            /\ Len(main') = Len(main) /\ \A i \in 1..(Len(main) - 1) : main'[i] = main[i]
            /\ main'[Len(main)] = [blk |-> NumOf(head) + 1,
                                   mark |-> IF AppendData THEN 0 ELSE Len(main) - 1]
<1>1. /\ main \in Seq(Cell) /\ Len(main) \in Nat /\ NumOf(head) \in Nat
      /\ pc \in Stores => Len(main) > 0
      /\ pc = "mark" => main[Len(main)] = [blk |-> NumOf(head) + 1, mark |-> 0]
  BY OpenFacts
<1>2. CASE AppendResize
  BY <1>1, <1>2 DEF AppendResize
<1>3. CASE AppendData
  <2>1. Len(main) \in Nat \ {0} /\ [blk |-> NumOf(head) + 1, mark |-> 0] \in Cell
    BY <1>1, <1>3 DEF AppendData, Stores, Cell
  <2>2. main' = [main EXCEPT ![Len(main)] = [blk |-> NumOf(head) + 1, mark |-> 0]]
    BY <1>3 DEF AppendData
  <2> QED
    BY <1>1, <1>3, <2>1, <2>2, ReplaceLast
<1>4. CASE AppendMark
  <2>1. /\ pc = "mark" /\ ~AppendData /\ Len(main) \in Nat \ {0}
        /\ [blk |-> NumOf(head) + 1, mark |-> Len(main) - 1] \in Cell
    BY <1>1, <1>4 DEF AppendMark, AppendData, Stores, Cell
  <2>2. main[Len(main)].blk = NumOf(head) + 1
    BY <1>1, <2>1
  <2>3. main' = [main EXCEPT ![Len(main)] = [blk |-> NumOf(head) + 1, mark |-> Len(main) - 1]]
    BY <1>4, <2>2 DEF AppendMark
  <2> QED
    BY <1>1, <1>4, <2>1, <2>3, ReplaceLast
<1>5. CASE AppendIndexResize \/ AppendIndex \/ Open \/ RebuildKilled \/ Close \/ Crash
           \/ UNCHANGED vars
  BY <1>5 DEF AppendIndexResize, AppendIndex, Open, OpenRecords, OpenEmpty, RebuildKilled,
              Close, Crash, vars
<1>6. CASE Wipe
  BY <1>6 DEF Wipe
<1> QED
  BY <1>2, <1>3, <1>4, <1>5, <1>6 DEF Next

\* No step but a wipe takes a block out of the main file.
LEMMA FileKeeps ==
  ASSUME IndInv, [Next]_vars, ~Wipe, NEW n \in Nat, OnFile(n)
  PROVE  OnFile(n)'
<1>1. /\ main \in Seq(Cell) /\ Len(main) \in Nat /\ NumOf(head) \in Nat
      /\ pc \in Stores /\ Len(main) = 1 => NumOf(head) = 0
      /\ pc = "data" => main[Len(main)] = [blk |-> Hole, mark |-> 0]
      /\ pc = "mark" => main[Len(main)] = [blk |-> NumOf(head) + 1, mark |-> 0]
  BY OpenFacts
<1>2. PICK i \in 1..Len(main) : main[i].mark = i - 1 /\ NumOf(BlockAt(i - 1)) = n
  BY DEF OnFile, Abandoned
<1>3. i - 1 + 1 = i /\ i \in Nat \ {0}
  OBVIOUS
<1>4. ASSUME Len(main') \in Nat, Len(main') >= Len(main), main'[i] = main[i] PROVE OnFile(n)'
  <2>1. i \in 1..Len(main') /\ main'[i].mark = i - 1
    BY <1>1, <1>2, <1>4
  <2>2. NumOf(BlockAt(i - 1))' = n
    BY <1>2, <1>3, <1>4 DEF BlockAt, NumOf
  <2> QED
    BY <2>1, <2>2 DEF OnFile, Abandoned
<1>5. CASE main' = main
  BY <1>1, <1>4, <1>5
<1>6. CASE AppendResize /\ Len(main') = Len(main) + 1 /\ \A k \in 1..Len(main) : main'[k] = main[k]
  BY <1>1, <1>4, <1>6
<1>7. CASE /\ AppendData \/ AppendMark
           /\ Len(main') = Len(main) /\ \A k \in 1..(Len(main) - 1) : main'[k] = main[k]
           /\ main'[Len(main)] = [blk |-> NumOf(head) + 1,
                                  mark |-> IF AppendData THEN 0 ELSE Len(main) - 1]
  <2>1. CASE i # Len(main)
    <3>1. i \in 1..(Len(main) - 1)
      BY <1>1, <2>1
    <3> QED
      BY <1>1, <1>4, <1>7, <3>1
  <2>2. CASE i = Len(main)
    <3>1. pc \in {"data", "mark"} /\ pc \in Stores
      BY <1>7 DEF AppendData, AppendMark, Stores
    <3>2. i = 1 /\ NumOf(head) = 0
      BY <1>1, <1>2, <2>2, <3>1
    <3>3. main'[1].blk = 1 /\ main'[1].mark = 0 /\ Len(main') = 1
      BY <1>1, <1>7, <2>2, <3>2
    <3>4. n = 1
      BY <1>1, <1>2, <2>2, <3>1, <3>2 DEF BlockAt, NumOf, ZeroBlock, Hole
    <3>5. NumOf(BlockAt(1 - 1))' = 1
      BY <3>3 DEF BlockAt, NumOf, ZeroBlock, Hole
    <3> QED
      BY <3>3, <3>4, <3>5 DEF OnFile, Abandoned
  <2> QED
    BY <2>1, <2>2
<1> QED
  BY <1>5, <1>6, <1>7, MainStep

Kept == \A n \in 1..acked : OnFile(n)

LEMMA KeptStep == IndInv /\ Kept /\ [Next]_vars => Kept'
<1> SUFFICES ASSUME IndInv, Kept, [Next]_vars PROVE Kept'
  OBVIOUS
<1>1. /\ main \in Seq(Cell) /\ Len(main) \in Nat /\ acked \in Nat /\ NumOf(head) \in Nat
      /\ pc \in Stores => Len(main) > 0
  BY OpenFacts
<1>2. CASE Wipe
  BY <1>2 DEF Wipe, Kept
<1>3. CASE AppendIndex
  <2>1. /\ main[Len(main)].blk = NumOf(head) + 1 /\ main[Len(main)].mark = Len(main) - 1
        /\ pc = "ival" /\ Len(main) > 0
    BY <1>1, <1>3 DEF AppendIndex, IndInv, OpenState, Stores
  <2>2. OnFile(NumOf(head) + 1)
    <3>1. Len(main) \in 1..Len(main) /\ Len(main) - 1 + 1 = Len(main)
      BY <1>1, <2>1
    <3>2. NumOf(BlockAt(Len(main) - 1)) = NumOf(head) + 1
      BY <1>1, <2>1, <3>1 DEF BlockAt, NumOf, Hole, ZeroBlock
    <3> QED
      BY <2>1, <3>1, <3>2 DEF OnFile, Abandoned
  <2>3. \A n \in 1..NumOf(head) : OnFile(n)
    <3> SUFFICES ASSUME NEW n \in 1..NumOf(head) PROVE OnFile(n)
      OBVIOUS
    <3>0. /\ Settled = Len(main) - 1 /\ index \in Seq(Nat) /\ Len(index) = NumOf(head) + 1
          /\ EntryOK(n, Settled)
      BY <1>1, <2>1 DEF IndInv, OpenState, Settled, Stores, TypeOK
    <3>1. n \in 1..Len(index)
      BY <1>1, <3>0
    <3>2. index[n] \in Nat
      BY <3>0, <3>1
    <3>3. /\ index[n] < Len(main) - 1 /\ main[index[n] + 1].mark = index[n]
          /\ NumOf(BlockAt(index[n])) = n
      BY <3>0 DEF EntryOK
    <3>4. index[n] + 1 \in 1..Len(main) /\ index[n] + 1 - 1 = index[n]
      BY <1>1, <3>2, <3>3
    <3>5. PICK i \in 1..Len(main) : i = index[n] + 1 /\ i - 1 = index[n]
      BY <3>2, <3>4
    <3>6. main[i].mark = i - 1 /\ NumOf(BlockAt(i - 1)) = n
      BY <3>3, <3>5
    <3> QED
      BY <3>6 DEF OnFile, Abandoned
  <2>4. \A n \in 1..acked' : OnFile(n)
    <3>1. acked' \in {acked, NumOf(head) + 1}
      BY <1>3 DEF AppendIndex
    <3> QED
      BY <1>1, <2>2, <2>3, <3>1 DEF Kept
  <2>5. main' = main
    BY <1>3 DEF AppendIndex
  <2> QED
    BY <2>4, <2>5 DEF Kept, OnFile, Abandoned, BlockAt, NumOf
<1>4. CASE ~Wipe /\ ~AppendIndex
  <2>1. acked' = acked
    BY <1>4 DEF Next, AppendResize, AppendData, AppendMark, AppendIndexResize, Open,
                OpenRecords, OpenEmpty, RebuildKilled, Close, Crash, vars
  <2>2. ASSUME NEW n \in 1..acked PROVE OnFile(n)'
    BY <1>1, <1>4, FileKeeps DEF Kept
  <2> QED
    BY <2>1, <2>2 DEF Kept
<1> QED
  BY <1>2, <1>3, <1>4

\* Whenever the process is killed, a block whose append() returned stays in
\* the main file, and a restart finds it unless a record was abandoned.
THEOREM DurableHolds == Spec => []Durable
<1>1. Init => Kept
  BY DEF Init, Kept
<1>2. IndInv /\ Kept => Durable
  <2>0. ASSUME IndInv PROVE Len(main) \in Nat /\ acked \in Nat /\ NumOf(head) \in Nat
    BY <2>0, OpenFacts
  <2> SUFFICES ASSUME IndInv, Kept, pc = "idle", \A i \in 1..Len(main) : main[i].mark = i - 1
               PROVE  ~(NumOf(head) < acked)
    <3> HIDE DEF Kept
    <3>1. Kept <=> \A n \in 1..acked : OnFile(n)
      BY DEF Kept
    <3> QED
      BY <3>1 DEF Durable, Abandoned
  <2>1. Len(main) \in Nat /\ acked \in Nat /\ NumOf(head) \in Nat
    BY <2>0
  <2>2. NumOf(head) = Len(main)
    BY DEF IndInv, OpenState, Settled, Stores, MarkedUpTo
  <2>3. CASE acked > 0
    <3>1. PICK i \in 1..Len(main) : NumOf(BlockAt(i - 1)) = acked
      BY <2>1, <2>3 DEF Kept, OnFile
    <3>2. MarkedUpTo(i)
      BY DEF MarkedUpTo
    <3>3. acked = i
      BY <3>1, <3>2 DEF IndInv, ScanInOrder
    <3> QED
      BY <2>1, <2>2, <3>3
  <2> QED
    BY <2>1, <2>3
<1> QED
  BY <1>1, <1>2, KeptStep, IndInvHolds, PTL DEF Spec

\* Whenever the process is killed, open() throws only on a log in which
\* records follow one that was abandoned.
THEOREM ReconstructibleHolds == Spec => []Reconstructible
<1>1. IndInv /\ Reconstructible /\ [Next]_vars => Reconstructible'
  <2> SUFFICES ASSUME IndInv, Reconstructible, [Next]_vars, pc' = "failed" PROVE Reconstructible'
    BY DEF Reconstructible
  <2>1. CASE OpenRecords /\ Open
    <3>1. /\ Len(main) > 0 /\ main' = main /\ ~ScanSucceeds
      BY <2>1 DEF OpenRecords
    <3>2. Len(main) \in Nat \ {0} /\ LastMark \in 0..(Len(main) - 1)
      BY <3>1, LastMarkInFile DEF IndInv
    <3>3. PICK p \in 0..LastMark : main[p + 1].mark # p
      BY <3>1, <3>2 DEF ScanSucceeds, Readable
    <3>4. LastMark \in {0, Len(main) - 1} /\ main[1].mark = 0
      BY <3>2 DEF LastMark, IndInv, MarksSound
    <3>5. p # 0
      BY <3>3, <3>4
    <3>6. LastMark = Len(main) - 1
      BY <3>2, <3>4, <3>5
    <3>7. p + 1 # Len(main)
      BY <3>2, <3>3, <3>6 DEF LastMark
    <3>8. p + 1 \in 1..(Len(main) - 1) /\ p + 1 - 1 = p
      BY <3>2, <3>6, <3>7
    <3>9. Abandoned(p + 1) /\ ~Abandoned(Len(main))
      BY <3>3, <3>6, <3>8 DEF Abandoned, LastMark
    <3> QED
      BY <3>1, <3>8, <3>9 DEF Reconstructible, Abandoned
  <2>2. CASE UNCHANGED vars
    BY <2>2 DEF vars, Reconstructible, Abandoned
  <2> QED
    BY <2>1, <2>2 DEF Next, AppendResize, AppendData, AppendMark, AppendIndexResize,
       AppendIndex, Open, OpenEmpty, RebuildKilled, Close, Crash, Wipe
<1>2. Init => Reconstructible
  BY DEF Init, Reconstructible
<1> QED
  BY <1>1, <1>2, IndInvHolds, PTL DEF Spec

-----------------------------------------------------------------------------
(* What a scan of the main file reads                                      *)

\* A scan reads the first so many records.
StoredPrefix == \E k \in 0..Len(main) : Stored = 1..k

\* Record i of the scan is block i.
LEMMA StoredInOrder == IndInv => \A i \in Stored : main[i].blk = i
<1> SUFFICES ASSUME IndInv, NEW i \in Stored PROVE main[i].blk = i
  OBVIOUS
<1>1. i \in 1..Len(main) /\ MarkedUpTo(i) /\ main[i].blk # Hole /\ main[i] \in Cell
  BY DEF Stored, Abandoned, MarkedUpTo, IndInv, TypeOK
<1>2. NumOf(BlockAt(i - 1)) = i /\ i - 1 + 1 = i
  BY <1>1 DEF IndInv, ScanInOrder
<1> QED
  BY <1>1, <1>2 DEF BlockAt, NumOf, Hole, ZeroBlock, Cell

\* Whether a record is read depends only on it and the records before it.
LEMMA ReadAlike ==
  ASSUME NEW i \in Nat \ {0}, i <= Len(main), i <= Len(main'), Len(main) \in Nat, Len(main') \in Nat,
         \A j \in 1..i : main'[j] = main[j]
  PROVE  i \in Stored' <=> i \in Stored
<1>1. i \in 1..Len(main) /\ i \in 1..Len(main')
  OBVIOUS
<1>2. i \in Stored <=> \A j \in 1..i : main[j].mark = j - 1 /\ main[j].blk # Hole
  BY <1>1 DEF Stored, Abandoned
<1>3. i \in Stored' <=> \A j \in 1..i : main'[j].mark = j - 1 /\ main'[j].blk # Hole
  BY <1>1 DEF Stored, Abandoned
<1> QED
  BY <1>2, <1>3

\* A step adds at most one record to the scan, at its end, or deletes all.
LEMMA StoredStep ==
  ASSUME IndInv, [Next]_vars, NEW k \in 0..Len(main), Stored = 1..k
  PROVE  \E m \in 0..Len(main') : Stored' = 1..m /\ m \in {0, k, k + 1}
<1>1. /\ main \in Seq(Cell) /\ Len(main) \in Nat /\ NumOf(head) \in Nat
      /\ pc \in Stores => Len(main) > 0
      /\ pc = "data" => main[Len(main)] = [blk |-> Hole, mark |-> 0]
      /\ pc = "mark" => main[Len(main)] = [blk |-> NumOf(head) + 1, mark |-> 0]
  BY OpenFacts
<1>2. CASE main' = main
  BY <1>2 DEF Stored, Abandoned
<1>3. CASE main' = << >>
  <2>1. Stored' = 1..0 /\ Len(main') = 0
    BY <1>3 DEF Stored
  <2> QED
    BY <2>1
<1>4. CASE /\ Len(main') = Len(main) + 1 /\ \A i \in 1..Len(main) : main'[i] = main[i]
           /\ main'[Len(main) + 1] = [blk |-> Hole, mark |-> 0]
  <2>1. ASSUME NEW i \in 1..Len(main) PROVE i \in Stored' <=> i \in Stored
    BY <1>1, <1>4, ReadAlike
  <2>2. Len(main) + 1 \notin Stored'
    BY <1>1, <1>4 DEF Stored
  <2>3. Stored' \subseteq 1..(Len(main) + 1) /\ Stored \subseteq 1..Len(main)
    BY <1>4 DEF Stored
  <2>4. Stored' = Stored
    <3>1. ASSUME NEW x \in Stored' PROVE x \in Stored
      BY <1>1, <2>1, <2>2, <2>3
    <3>2. ASSUME NEW x \in Stored PROVE x \in Stored'
      BY <1>1, <2>1, <2>3
    <3> QED
      BY <3>1, <3>2
  <2> QED
    BY <1>1, <1>4, <2>4
<1>5. CASE /\ AppendData \/ AppendMark
           /\ Len(main') = Len(main) /\ \A i \in 1..(Len(main) - 1) : main'[i] = main[i]
           /\ main'[Len(main)] = [blk |-> NumOf(head) + 1,
                                  mark |-> IF AppendData THEN 0 ELSE Len(main) - 1]
  <2>0. Len(main') = Len(main) /\ \A i \in 1..(Len(main) - 1) : main'[i] = main[i]
    BY <1>5
  <2>1. ASSUME NEW i \in 1..(Len(main) - 1) PROVE i \in Stored' <=> i \in Stored
    <3>1. \A j \in 1..i : main'[j] = main[j]
      BY <1>1, <2>0
    <3> QED
      BY <1>1, <2>0, <3>1, ReadAlike
  <2>2. Stored' \subseteq 1..Len(main) /\ Stored \subseteq 1..Len(main) /\ Len(main) > 0
    BY <1>1, <1>5 DEF Stored, AppendData, AppendMark, Stores
  <2>6. ASSUME NEW m \in 0..Len(main), \A i \in 1..(Len(main) - 1) : i \in Stored <=> i \in 1..m,
               Len(main) \in Stored' <=> m = Len(main)
        PROVE  Stored' = 1..m
    <3>1. ASSUME NEW x \in 1..Len(main) PROVE x \in Stored' <=> x \in 1..m
      <4>1. CASE x = Len(main)
        BY <1>1, <2>2, <2>6, <4>1
      <4>2. CASE x # Len(main)
        <5>1. x \in 1..(Len(main) - 1)
          BY <1>1, <4>2
        <5> QED
          BY <2>1, <2>6, <5>1
      <4> QED
        BY <4>1, <4>2
    <3>2. 1..m \subseteq 1..Len(main)
      BY <1>1
    <3> QED
      BY <2>2, <3>1, <3>2
  <2>3. CASE k < Len(main) - 1
    <3>1. k + 1 \in 1..(Len(main) - 1) /\ k + 1 \notin Stored
      BY <1>1, <2>3
    <3>2. k + 1 \notin Stored'
      BY <2>1, <3>1
    <3>3. Len(main) \notin Stored'
      <4> SUFFICES ASSUME Len(main) \in Stored' PROVE FALSE
        OBVIOUS
      <4>1. \A j \in 1..Len(main) : main'[j].mark = j - 1 /\ main'[j].blk # Hole
        BY DEF Stored, Abandoned
      <4>2. k + 1 \in 1..Len(main') /\ \A j \in 1..(k + 1) : j \in 1..Len(main)
        BY <1>1, <1>5, <3>1
      <4>3. k + 1 \in Stored'
        BY <4>1, <4>2 DEF Stored, Abandoned
      <4> QED
        BY <3>2, <4>3
    <3>4. Stored' = 1..k
      BY <1>1, <2>6, <2>3, <3>3
    <3> QED
      BY <1>5, <3>4
  <2>4. CASE k = Len(main) - 1
    <3>1. Stored' = 1..k \/ Stored' = 1..(k + 1)
      <4>1. CASE Len(main) \in Stored'
        <5>1. k + 1 = Len(main) /\ k + 1 \in 0..Len(main)
          BY <1>1, <2>4
        <5>2. \A i \in 1..(Len(main) - 1) : i \in Stored <=> i \in 1..(k + 1)
          BY <1>1, <2>4
        <5> QED
          BY <2>6, <4>1, <5>1, <5>2
      <4>2. CASE Len(main) \notin Stored'
        BY <1>1, <2>6, <2>4, <4>2
      <4> QED
        BY <4>1, <4>2
    <3> QED
      BY <1>1, <1>5, <2>2, <2>4, <3>1
  <2>5. CASE k = Len(main)
    <3>1. Len(main) \in Stored
      BY <1>1, <2>2, <2>5
    <3>2. AppendMark /\ ~AppendData
      <4>1. main[Len(main)].blk # Hole
        BY <1>1, <2>2, <3>1 DEF Stored
      <4> QED
        BY <1>1, <1>5, <4>1 DEF AppendData
    <3>3. Len(main) \in Stored'
      <4> SUFFICES ASSUME NEW j \in 1..Len(main)
                   PROVE  main'[j].mark = j - 1 /\ main'[j].blk # Hole
        BY <1>1, <1>5, <2>2 DEF Stored, Abandoned
      <4>1. CASE j = Len(main)
        BY <1>1, <1>5, <3>2, <4>1 DEF Hole
      <4>2. CASE j # Len(main)
        <5>1. j \in 1..(Len(main) - 1) /\ j \in Stored
          BY <1>1, <2>5, <4>2
        <5> QED
          BY <1>5, <5>1 DEF Stored, Abandoned
      <4> QED
        BY <4>1, <4>2
    <3>4. Stored' = 1..k
      BY <1>1, <2>6, <2>5, <3>3
    <3> QED
      BY <1>5, <2>5, <3>4
  <2> QED
    BY <1>1, <2>3, <2>4, <2>5
<1> QED
  BY <1>2, <1>3, <1>4, <1>5, MainStep

\* Whenever the process is killed, what a scan of the main file reads is an
\* append only log: a step adds the next block at the end, deletes the log
\* whole, or leaves it as it is.
THEOREM AppendOnlyHolds == Spec => AppendOnly
<1> DEFINE L == [i \in Stored |-> main[i].blk]
<1>1. Init => Abs!AInit /\ StoredPrefix
  <2> SUFFICES ASSUME Init PROVE Abs!AInit /\ StoredPrefix
    OBVIOUS
  <2>1. Stored = {} /\ Len(main) = 0 /\ 1..0 = {}
    BY DEF Init, Stored
  <2> QED
    BY <2>1 DEF Abs!AInit, StoredPrefix
<1>2. ASSUME IndInv, IndInv', StoredPrefix, [Next]_vars PROVE StoredPrefix' /\ [Abs!ANext]_L
  <2>1. PICK k \in 0..Len(main) : Stored = 1..k
    BY <1>2 DEF StoredPrefix
  <2>2. PICK m \in 0..Len(main') : Stored' = 1..m /\ m \in {0, k, k + 1}
    BY <1>2, <2>1, StoredStep
  <2>3. L = [i \in 1..k |-> i]
    BY <1>2, <2>1, StoredInOrder
  <2>5. (IndInv => \A i \in Stored : main[i].blk = i)'
    BY StoredInOrder, PTL
  <2>6. L' = [i \in 1..m |-> i]
    BY <1>2, <2>2, <2>5
  <2> QED
    BY <2>1, <2>2, <2>3, <2>6 DEF StoredPrefix, Abs!ANext, Abs!AAppend, Abs!AWipe
<1> QED
  BY <1>1, <1>2, IndInvHolds, PTL DEF Spec, AppendOnly, Abs!ASpec
=============================================================================
