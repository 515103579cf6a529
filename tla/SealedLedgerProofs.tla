------------------------ MODULE SealedLedgerProofs ------------------------
(***************************************************************************)
(* What SealedLedger promises for every set of writers, tenants and facts. *)
(*                                                                         *)
(* The inductive invariant has three parts beside the types: a stored row  *)
(* is what seal() makes of some fact at its place in the chain; so is the  *)
(* row a writer holds, for a place that is taken or is the next one; and a *)
(* signature in an export is the wrong key's or a stored row's.            *)
(***************************************************************************)
EXTENDS SealedLedger, TLAPS, SequenceTheorems

StoredRow(t, i) ==
    \E f \in Facts : chain[t][i] = Seal(t, f, i, ExpectedPrev(chain[t], i))

StoredInv == \A t \in Tenants : \A i \in 1..Len(chain[t]) : StoredRow(t, i)

\* A row sealed on a head that was, or still is, the head of its chain.
SealedOnce(s) ==
    s.pc = "sealed" =>
        \E n \in 1..(Len(chain[s.tenant]) + 1) :
            /\ n <= MaxRows
            /\ s.row = Seal(s.tenant, s.fact, n, ExpectedPrev(chain[s.tenant], n))

WriterInv == \A w \in Writers : SealedOnce(writer[w])

KnownSignature(row) ==
    \/ row.signature = Sign(RogueKey, row.entryHash)
    \/ \E u \in Tenants : \E j \in 1..Len(chain[u]) :
           row.signature = chain[u][j].signature

ExportInv ==
    /\ export.tenant = None => export.rows = <<>>
    /\ \A i \in 1..Len(export.rows) : KnownSignature(export.rows[i])

IInv == TypeOK /\ StoredInv /\ WriterInv /\ ExportInv

-----------------------------------------------------------------------------
(* Rows and sequences of rows. *)

\* seal() returns a row.
LEMMA SealIsRow ==
    ASSUME NEW t \in Tenants, NEW f \in Facts, NEW seq \in Nat \ {0}, NEW prev
    PROVE  IsRow(Seal(t, f, seq, prev))
BY SMT DEF IsRow, Seal, Facts

\* A sequence of rows is a function on 1..Len.
LEMMA RowsAreFunction ==
    ASSUME NEW rows, AreRows(rows)
    PROVE  /\ Len(rows) \in Nat
           /\ DOMAIN rows = 1..Len(rows)
           /\ rows = [i \in 1..Len(rows) |-> rows[i]]
BY LenProperties, SMT DEF AreRows

\* A function on 1..n whose values are rows is a sequence of rows.
LEMMA FunctionIsRows ==
    ASSUME NEW n \in 0..MaxRows, NEW rows,
           rows = [i \in 1..n |-> rows[i]],
           \A i \in 1..n : IsRow(rows[i])
    PROVE  AreRows(rows) /\ Len(rows) = n
<1> DEFINE S == {rows[i] : i \in DOMAIN rows}
<1>0. n \in Nat
  BY BoundAssumption
<1>1. rows \in [1..n -> S]
  OBVIOUS
<1>2. rows \in Seq(S)
  BY <1>0, <1>1, SeqDef
<1>3. Len(rows) = n
  BY <1>0, <1>1, <1>2, LenProperties, SMT
<1> QED
  BY <1>2, <1>3 DEF AreRows

\* One row more.
LEMMA AppendRow ==
    ASSUME NEW rows, AreRows(rows), Len(rows) < MaxRows, NEW r, IsRow(r)
    PROVE  /\ AreRows(Append(rows, r))
           /\ Len(Append(rows, r)) = Len(rows) + 1
           /\ \A i \in 1..Len(rows) : Append(rows, r)[i] = rows[i]
           /\ Append(rows, r)[Len(rows) + 1] = r
<1> DEFINE n == Len(rows)
           S == {rows[i] : i \in DOMAIN rows} \union {r}
           new == Append(rows, r)
<1>1. rows \in Seq(S) /\ n \in Nat /\ r \in S
  <2>1. rows \in Seq({rows[i] : i \in DOMAIN rows})
    BY DEF AreRows
  <2>2. rows \in Seq(S)
    BY <2>1, SeqMonotonic
  <2> QED
    BY <2>2, LenProperties
<1>2. /\ new \in Seq(S)
      /\ Len(new) = n + 1
      /\ \A i \in 1..n : new[i] = rows[i]
      /\ new[n + 1] = r
  BY <1>1, AppendProperties
<1>3. new = [i \in 1..(n + 1) |-> new[i]]
  <2> HIDE DEF new, n, S
  <2>1. new \in [1..Len(new) -> S]
    BY <1>2, LenProperties
  <2>2. new \in [1..(n + 1) -> S]
    BY <2>1, <1>2
  <2> QED
    BY <2>2
<1>4. \A i \in 1..(n + 1) : IsRow(new[i])
  BY <1>1, <1>2 DEF AreRows
<1>5. n + 1 \in 0..MaxRows
  BY <1>1, BoundAssumption
<1> HIDE DEF new, n
<1>6. AreRows(new)
  BY <1>3, <1>4, <1>5, FunctionIsRows
<1> QED
  BY <1>2, <1>6 DEF new, n

\* One row replaced.
LEMMA ReplaceRow ==
    ASSUME NEW rows, AreRows(rows), NEW i \in 1..Len(rows), NEW r, IsRow(r)
    PROVE  /\ AreRows([rows EXCEPT ![i] = r])
           /\ Len([rows EXCEPT ![i] = r]) = Len(rows)
<1> DEFINE new == [rows EXCEPT ![i] = r]
<1>1. Len(rows) \in 0..MaxRows /\ \A j \in 1..Len(rows) : IsRow(rows[j])
  BY DEF AreRows
<1>2. rows = [j \in 1..Len(rows) |-> rows[j]]
  BY RowsAreFunction
<1>3. new = [j \in 1..Len(rows) |-> new[j]]
  BY <1>2
<1>4. \A j \in 1..Len(rows) : IsRow(new[j])
  BY <1>1, <1>2
<1> HIDE DEF new
<1>5. AreRows(new) /\ Len(new) = Len(rows)
  BY <1>1, <1>3, <1>4, FunctionIsRows
<1> QED
  BY <1>5 DEF new

\* One row less.
LEMMA RemoveRow ==
    ASSUME NEW rows, AreRows(rows), NEW i \in 1..Len(rows)
    PROVE  LET new == [j \in 1..(Len(rows) - 1) |->
                          IF j < i THEN rows[j] ELSE rows[j + 1]]
           IN  AreRows(new) /\ Len(new) = Len(rows) - 1
<1> DEFINE n == Len(rows) - 1
           new == [j \in 1..n |-> IF j < i THEN rows[j] ELSE rows[j + 1]]
<1>1. Len(rows) \in 0..MaxRows /\ \A j \in 1..Len(rows) : IsRow(rows[j])
  BY DEF AreRows
<1>2. n \in 0..MaxRows
  BY <1>1, BoundAssumption
<1>3. new = [j \in 1..n |-> new[j]]
  OBVIOUS
<1>4. \A j \in 1..n : IsRow(new[j])
  BY <1>1, BoundAssumption
<1> HIDE DEF new, n
<1>5. AreRows(new) /\ Len(new) = n
  BY <1>2, <1>3, <1>4, FunctionIsRows
<1> QED
  BY <1>5 DEF new, n

-----------------------------------------------------------------------------
(* Growing a chain. *)

\* A row sealed on the head goes on top of chain t: what was stored, known or
\* held by a writer that does not move stays what it was.
LEMMA ChainGrows ==
    ASSUME IInv, NEW t \in Tenants, NEW f \in Facts,
           Len(chain[t]) < MaxRows,
           chain' = [chain EXCEPT ![t] = Append(@,
               Seal(t, f, Len(chain[t]) + 1, ExpectedPrev(chain[t], Len(chain[t]) + 1)))],
           UNCHANGED <<export, tampers>>
    PROVE  /\ chain' = [u \in Tenants |-> chain'[u]]
           /\ \A u \in Tenants : AreRows(chain'[u])
           /\ StoredInv'
           /\ ExportInv'
           /\ \A w \in Writers : SealedOnce(writer[w]) /\ writer'[w] = writer[w]
                                     => SealedOnce(writer[w])'
<1> DEFINE n == Len(chain[t]) + 1
           r == Seal(t, f, n, ExpectedPrev(chain[t], n))
<1>1. /\ chain = [u \in Tenants |-> chain[u]]
      /\ \A u \in Tenants : AreRows(chain[u])
  BY DEF IInv, TypeOK
<1>2. \A u \in Tenants : Len(chain[u]) \in Nat
  BY <1>1, RowsAreFunction
<1>3. n \in Nat \ {0}
  BY <1>2
<1>4. IsRow(r)
  BY <1>3, SealIsRow
<1>5. chain' = [u \in Tenants |-> IF u = t THEN Append(chain[t], r) ELSE chain[u]]
  BY <1>1
<1> HIDE DEF r
<1>6. /\ AreRows(Append(chain[t], r))
      /\ Len(Append(chain[t], r)) = n
      /\ \A i \in 1..Len(chain[t]) : Append(chain[t], r)[i] = chain[t][i]
      /\ Append(chain[t], r)[n] = r
  BY <1>1, <1>4, AppendRow
<1>7. /\ AreRows(chain'[t])
      /\ Len(chain'[t]) = n
      /\ \A i \in 1..Len(chain[t]) : chain'[t][i] = chain[t][i]
      /\ chain'[t][n] = r
  BY <1>5, <1>6
<1>8. \A u \in Tenants : u # t => chain'[u] = chain[u]
  BY <1>5
<1>9. \A u \in Tenants : \A i \in 1..Len(chain[u]) :
          i \in 1..Len(chain'[u]) /\ chain'[u][i] = chain[u][i]
  <2> SUFFICES ASSUME NEW u \in Tenants, NEW i \in 1..Len(chain[u])
               PROVE  i \in 1..Len(chain'[u]) /\ chain'[u][i] = chain[u][i]
    OBVIOUS
  <2>1. CASE u = t
    BY <2>1, <1>7, <1>2
  <2>2. CASE u # t
    BY <2>2, <1>8
  <2> QED
    BY <2>1, <2>2
<1>10. \A u \in Tenants : \A i \in 1..(Len(chain[u]) + 1) :
          ExpectedPrev(chain'[u], i) = ExpectedPrev(chain[u], i)
  BY <1>2, <1>9 DEF ExpectedPrev
<1>11. /\ chain' = [u \in Tenants |-> chain'[u]]
       /\ \A u \in Tenants : AreRows(chain'[u])
  BY <1>1, <1>5, <1>7, <1>8
<1>12. StoredInv'
  <2> SUFFICES ASSUME NEW u \in Tenants, NEW i \in 1..Len(chain'[u])
               PROVE  \E g \in Facts :
                          chain'[u][i] = Seal(u, g, i, ExpectedPrev(chain'[u], i))
    BY DEF StoredInv, StoredRow
  <2>1. CASE i \in 1..Len(chain[u])
    <3>1. PICK g \in Facts : chain[u][i] = Seal(u, g, i, ExpectedPrev(chain[u], i))
      BY <2>1 DEF IInv, StoredInv, StoredRow
    <3>2. chain'[u][i] = chain[u][i]
      BY <2>1, <1>9
    <3>3. ExpectedPrev(chain'[u], i) = ExpectedPrev(chain[u], i)
      BY <2>1, <1>2, <1>10
    <3> QED
      BY <3>1, <3>2, <3>3
  <2>2. CASE i \notin 1..Len(chain[u])
    <3>1. u = t /\ i = n
      BY <2>2, <1>2, <1>7, <1>8
    <3>2. ExpectedPrev(chain'[t], n) = ExpectedPrev(chain[t], n)
      BY <1>2, <1>10
    <3>3. chain'[t][n] = Seal(t, f, n, ExpectedPrev(chain'[t], n))
      BY <3>2, <1>7 DEF r
    <3> QED
      BY <3>1, <3>3
  <2> QED
    BY <2>1, <2>2
<1>13. ExportInv'
  <2>1. export' = export
    OBVIOUS
  <2>2. ASSUME NEW row, KnownSignature(row)
        PROVE  \/ row.signature = Sign(RogueKey, row.entryHash)
               \/ \E u \in Tenants : \E j \in 1..Len(chain'[u]) :
                      row.signature = chain'[u][j].signature
    BY <2>2, <1>9 DEF KnownSignature
  <2> QED
    BY <2>1, <2>2 DEF IInv, ExportInv, KnownSignature
<1>14. ASSUME NEW w \in Writers, SealedOnce(writer[w]), writer'[w] = writer[w]
       PROVE  SealedOnce(writer[w])'
  <2> DEFINE s == writer[w]
  <2> SUFFICES ASSUME s.pc = "sealed"
               PROVE  \E k \in 1..(Len(chain'[s.tenant]) + 1) :
                        /\ k <= MaxRows
                        /\ s.row = Seal(s.tenant, s.fact, k,
                                        ExpectedPrev(chain'[s.tenant], k))
    BY <1>14 DEF SealedOnce
  <2>1. s.tenant \in Tenants
    BY DEF IInv, TypeOK, IsWriter, Idle
  <2>2. PICK k \in 1..(Len(chain[s.tenant]) + 1) :
            /\ k <= MaxRows
            /\ s.row = Seal(s.tenant, s.fact, k, ExpectedPrev(chain[s.tenant], k))
    BY <1>14 DEF SealedOnce
  <2>3. ExpectedPrev(chain'[s.tenant], k) = ExpectedPrev(chain[s.tenant], k)
    BY <2>1, <1>10
  <2>4. Len(chain'[s.tenant]) >= Len(chain[s.tenant])
        /\ Len(chain'[s.tenant]) \in Nat
    BY <2>1, <1>2, <1>3, <1>7, <1>8
  <2>5. k \in 1..(Len(chain'[s.tenant]) + 1)
    BY <2>1, <2>4, <1>2
  <2> QED
    BY <2>2, <2>3, <2>5
<1> QED
  BY <1>11, <1>12, <1>13, <1>14

-----------------------------------------------------------------------------
(* Altering the export. *)

\* Whatever the rows put in the place of the exported ones, the invariant only
\* asks that they are rows whose signatures are known.
LEMMA AlterKeeps ==
    ASSUME IInv, NEW rows, Alter(rows), AreRows(rows), export.rows # <<>>,
           \A i \in 1..Len(rows) : KnownSignature(rows[i])
    PROVE  IInv'
<1>1. /\ export' = [export EXCEPT !.rows = rows]
      /\ tampers' = tampers + 1
      /\ tampers < MaxTampers
      /\ chain' = chain /\ writer' = writer
  BY DEF Alter
<1>2. export = [tenant |-> export.tenant, rows |-> export.rows, count |-> export.count]
  BY DEF IInv, TypeOK
<1>3. export' = [tenant |-> export.tenant, rows |-> rows, count |-> export.count]
  BY <1>1, <1>2
<1>4. TypeOK'
  <2>1. tampers' \in 0..MaxTampers
    BY <1>1, BoundAssumption DEF IInv, TypeOK
  <2>2. /\ export' = [tenant |-> export'.tenant, rows |-> export'.rows,
                      count |-> export'.count]
        /\ export'.tenant = export.tenant
        /\ export'.count = export.count
        /\ export'.rows = rows
    BY <1>3
  <2> QED
    BY <2>1, <2>2, <1>1 DEF IInv, TypeOK
<1>5. StoredInv'
  BY <1>1 DEF IInv, StoredInv, StoredRow
<1>6. WriterInv'
  BY <1>1 DEF IInv, WriterInv, SealedOnce
<1>7. ExportInv'
  <2>1. export'.rows = rows /\ export'.tenant = export.tenant
    BY <1>3
  <2>2. export.tenant # None
    BY DEF IInv, ExportInv
  <2> QED
    BY <2>1, <2>2, <1>1 DEF ExportInv, KnownSignature
<1> QED
  BY <1>4, <1>5, <1>6, <1>7 DEF IInv

\* One row is replaced by one whose signature is known.
LEMMA AlterOneRow ==
    ASSUME IInv, NEW i \in 1..Len(export.rows), NEW row,
           IsRow(row), KnownSignature(row),
           Alter([export.rows EXCEPT ![i] = row])
    PROVE  IInv'
<1> DEFINE new == [export.rows EXCEPT ![i] = row]
<1>1. AreRows(export.rows)
  BY DEF IInv, TypeOK
<1>2. AreRows(new) /\ Len(new) = Len(export.rows)
  BY <1>1, ReplaceRow
<1>3. export.rows = [j \in 1..Len(export.rows) |-> export.rows[j]]
  BY <1>1, RowsAreFunction
<1>4. \A j \in 1..Len(new) : KnownSignature(new[j])
  BY <1>2, <1>3 DEF IInv, ExportInv
<1>5. export.rows # <<>>
  OBVIOUS
<1> QED
  BY <1>2, <1>4, <1>5, AlterKeeps

\* Every way an export is altered.
LEMMA TamperKeeps ==
    ASSUME IInv, Tamper
    PROVE  IInv'
<1>1. PICK i \in 1..Len(export.rows) :
          \/ AlterColumn(i)
          \/ ResealRow(i)
          \/ CopyRow(i)
          \/ DropRow(i)
          \/ \E j \in 1..Len(export.rows) : SwapRows(i, j)
  BY DEF Tamper
<1> DEFINE rows == export.rows
<1>2. /\ AreRows(rows)
      /\ \A j \in 1..Len(rows) : IsRow(rows[j]) /\ KnownSignature(rows[j])
  BY DEF IInv, TypeOK, ExportInv, AreRows
<1>3. /\ Len(rows) \in Nat
      /\ rows = [j \in 1..Len(rows) |-> rows[j]]
  BY <1>2, RowsAreFunction
<1>4. export.tenant \in Tenants
  BY DEF IInv, TypeOK, ExportInv
<1>5. CASE AlterColumn(i)
  <2> DEFINE r == rows[i]
  <2>0. IsRow(r) /\ KnownSignature(r)
    BY <1>2
  <2>1. ASSUME NEW n \in Named, Alter([export.rows EXCEPT ![i].named = n])
        PROVE  IInv'
    <3>1. IsRow([r EXCEPT !.named = n])
      BY <2>0 DEF IsRow
    <3>2. KnownSignature([r EXCEPT !.named = n])
      BY <2>0 DEF IsRow, KnownSignature
    <3> QED
      BY <2>1, <3>1, <3>2, AlterOneRow
  <2>2. ASSUME NEW x \in Extra, Alter([export.rows EXCEPT ![i].extra = x])
        PROVE  IInv'
    <3>1. IsRow([r EXCEPT !.extra = x])
      BY <2>0 DEF IsRow
    <3>2. KnownSignature([r EXCEPT !.extra = x])
      BY <2>0 DEF IsRow, KnownSignature
    <3> QED
      BY <2>2, <3>1, <3>2, AlterOneRow
  <2>3. ASSUME NEW t \in Tenants, Alter([export.rows EXCEPT ![i].tenant = t])
        PROVE  IInv'
    <3>1. IsRow([r EXCEPT !.tenant = t])
      BY <2>0 DEF IsRow
    <3>2. KnownSignature([r EXCEPT !.tenant = t])
      BY <2>0 DEF IsRow, KnownSignature
    <3> QED
      BY <2>3, <3>1, <3>2, AlterOneRow
  <2> QED
    BY <1>5, <2>1, <2>2, <2>3 DEF AlterColumn
<1>6. CASE ResealRow(i)
  <2>1. PICK f \in Facts, seq \in 1..Len(export.rows), j \in 1..Len(export.rows) :
            LET row == Seal(export.tenant, f, seq, ExpectedPrev(export.rows, j))
            IN  Alter([export.rows EXCEPT ![i] =
                    [row EXCEPT !.signature = Sign(RogueKey, row.entryHash)]])
    BY <1>6 DEF ResealRow
  <2> DEFINE row == Seal(export.tenant, f, seq, ExpectedPrev(export.rows, j))
             resealed == [row EXCEPT !.signature = Sign(RogueKey, row.entryHash)]
  <2>2. IsRow(row)
    BY <1>3, <1>4, SealIsRow
  <2> HIDE DEF row
  <2>3. IsRow(resealed)
    BY <2>2 DEF IsRow
  <2>4. KnownSignature(resealed)
    BY <2>2 DEF IsRow, KnownSignature
  <2>5. Alter([export.rows EXCEPT ![i] = resealed])
    BY <2>1 DEF row
  <2> QED
    BY <2>3, <2>4, <2>5, AlterOneRow
<1>7. CASE CopyRow(i)
  <2>0. PICK u \in Tenants : \E j \in 1..Len(chain[u]) :
            Alter([export.rows EXCEPT ![i] = chain[u][j]])
    BY <1>7 DEF CopyRow
  <2>1. PICK j \in 1..Len(chain[u]) :
            Alter([export.rows EXCEPT ![i] = chain[u][j]])
    BY <2>0
  <2>2. IsRow(chain[u][j])
    BY DEF IInv, TypeOK, AreRows
  <2>3. KnownSignature(chain[u][j])
    BY DEF KnownSignature
  <2> QED
    BY <2>1, <2>2, <2>3, AlterOneRow
<1>8. CASE DropRow(i)
  <2> DEFINE new == [j \in 1..(Len(rows) - 1) |->
                        IF j < i THEN rows[j] ELSE rows[j + 1]]
  <2>1. AreRows(new) /\ Len(new) = Len(rows) - 1
    BY <1>2, RemoveRow
  <2>2. \A j \in 1..Len(new) : KnownSignature(new[j])
    BY <1>2, <1>3, <2>1
  <2>3. Alter(new)
    BY <1>8 DEF DropRow
  <2>4. rows # <<>>
    OBVIOUS
  <2> QED
    BY <2>1, <2>2, <2>3, <2>4, AlterKeeps
<1>9. ASSUME NEW j \in 1..Len(export.rows), SwapRows(i, j)
      PROVE  IInv'
  <2> DEFINE mid == [rows EXCEPT ![i] = rows[j]]
             new == [mid EXCEPT ![j] = rows[i]]
  <2>1. AreRows(mid) /\ Len(mid) = Len(rows)
    BY <1>2, ReplaceRow
  <2>2. AreRows(new) /\ Len(new) = Len(rows)
    BY <1>2, <2>1, ReplaceRow
  <2>3. \A k \in 1..Len(new) : KnownSignature(new[k])
    BY <1>2, <1>3, <2>2
  <2>4. Alter(new)
    BY <1>9 DEF SwapRows
  <2>5. rows # <<>>
    OBVIOUS
  <2> QED
    BY <2>2, <2>3, <2>4, <2>5, AlterKeeps
<1> QED
  BY <1>1, <1>5, <1>6, <1>7, <1>8, <1>9

-----------------------------------------------------------------------------
(* The writers. *)

\* prev_entry_hash of the next row is what verify() will expect of it.
LEMMA TopIsExpected ==
    ASSUME NEW rows, AreRows(rows)
    PROVE  TopHash(rows) = ExpectedPrev(rows, Len(rows) + 1)
<1>1. Len(rows) \in Nat /\ DOMAIN rows = 1..Len(rows)
  BY RowsAreFunction
<1>2. rows = <<>> <=> Len(rows) = 0
  BY <1>1, EmptySeq DEF AreRows
<1> QED
  BY <1>1, <1>2 DEF TopHash, ExpectedPrev

\* A step of one writer that leaves chains and export alone.
LEMMA WriterMoves ==
    ASSUME IInv, NEW w \in Writers, NEW s,
           writer' = [writer EXCEPT ![w] = s],
           UNCHANGED <<chain, export, tampers>>,
           IsWriter(s), SealedOnce(s)
    PROVE  IInv'
<1>1. /\ writer' = [v \in Writers |-> IF v = w THEN s ELSE writer[v]]
      /\ chain' = chain /\ export' = export /\ tampers' = tampers
  BY DEF IInv, TypeOK
<1>2. TypeOK'
  BY <1>1 DEF IInv, TypeOK
<1>3. StoredInv' /\ ExportInv'
  BY <1>1 DEF IInv, StoredInv, StoredRow, ExportInv, KnownSignature
<1>4. WriterInv'
  BY <1>1 DEF IInv, WriterInv, SealedOnce
<1> QED
  BY <1>2, <1>3, <1>4 DEF IInv

\* A writer that changes its place and its row keeps its tenant and its fact.
LEMMA WriterExcept ==
    ASSUME NEW s, NEW p, NEW r,
           s = [pc |-> s.pc, tenant |-> s.tenant, fact |-> s.fact, row |-> s.row]
    PROVE  [s EXCEPT !.pc = p, !.row = r] =
               [pc |-> p, tenant |-> s.tenant, fact |-> s.fact, row |-> r]
<1>1. [s EXCEPT !.pc = p, !.row = r] = [[s EXCEPT !.pc = p] EXCEPT !.row = r]
  OBVIOUS
<1>2. [s EXCEPT !.pc = p] =
          [pc |-> p, tenant |-> s.tenant, fact |-> s.fact, row |-> s.row]
  OBVIOUS
<1>3. [[pc |-> p, tenant |-> s.tenant, fact |-> s.fact, row |-> s.row] EXCEPT !.row = r]
          = [pc |-> p, tenant |-> s.tenant, fact |-> s.fact, row |-> r]
  OBVIOUS
<1> QED
  BY <1>1, <1>2, <1>3, Zenon

LEMMA BeginKeeps ==
    ASSUME IInv, NEW w \in Writers, NEW t \in Tenants, NEW f \in Facts, Begin(w, t, f)
    PROVE  IInv'
<1> DEFINE s == [pc |-> "read", tenant |-> t, fact |-> f, row |-> None]
<1>1. IsWriter(s) /\ SealedOnce(s)
  BY DEF IsWriter, SealedOnce
<1> QED
  BY <1>1, WriterMoves DEF Begin

LEMMA ReadHeadAndSealKeeps ==
    ASSUME IInv, NEW w \in Writers, ReadHeadAndSeal(w)
    PROVE  IInv'
<1> DEFINE s == writer[w]
           t == s.tenant
           n == Len(chain[t]) + 1
           row == Seal(t, s.fact, n, ExpectedPrev(chain[t], n))
           new == [pc |-> "sealed", tenant |-> t, fact |-> s.fact, row |-> row]
<1>1. /\ s = [pc |-> s.pc, tenant |-> t, fact |-> s.fact, row |-> s.row]
      /\ t \in Tenants
      /\ s.fact \in Facts
      /\ writer = [v \in Writers |-> writer[v]]
      /\ AreRows(chain[t])
  <2>1. s.pc = "read" /\ IsWriter(s)
    BY DEF ReadHeadAndSeal, IInv, TypeOK
  <2> QED
    BY <2>1 DEF IsWriter, Idle, IInv, TypeOK
<1>2. Len(chain[t]) \in Nat /\ Len(chain[t]) < MaxRows
  BY <1>1, RowsAreFunction DEF ReadHeadAndSeal
<1>3. writer' = [writer EXCEPT ![w] = [s EXCEPT !.pc = "sealed", !.row = row]]
  BY <1>1, TopIsExpected DEF ReadHeadAndSeal
<1>4. IsRow(row)
  <2>1. n \in Nat \ {0}
    BY <1>2
  <2> HIDE DEF n
  <2> QED
    BY <1>1, <2>1, SealIsRow
<1> HIDE DEF row
<1>5. writer' = [writer EXCEPT ![w] = new]
  <2>1. [s EXCEPT !.pc = "sealed", !.row = row] = new
    BY <1>1, WriterExcept, Zenon
  <2> QED
    BY <1>3, <2>1
<1>6. IsWriter(new)
  BY <1>1, <1>4 DEF IsWriter
<1>7. SealedOnce(new)
  BY <1>2, BoundAssumption DEF SealedOnce, row
<1>8. UNCHANGED <<chain, export, tampers>>
  BY DEF ReadHeadAndSeal
<1> QED
  BY <1>5, <1>6, <1>7, <1>8, WriterMoves

LEMMA ConflictKeeps ==
    ASSUME IInv, NEW w \in Writers, Conflict(w)
    PROVE  IInv'
<1> DEFINE s == writer[w]
           new == [pc |-> "read", tenant |-> s.tenant, fact |-> s.fact, row |-> None]
<1>1. /\ s = [pc |-> s.pc, tenant |-> s.tenant, fact |-> s.fact, row |-> s.row]
      /\ s.tenant \in Tenants
      /\ s.fact \in Facts
      /\ writer = [v \in Writers |-> writer[v]]
  <2>1. s.pc = "sealed" /\ IsWriter(s)
    BY DEF Conflict, IInv, TypeOK
  <2> QED
    BY <2>1 DEF IsWriter, Idle, IInv, TypeOK
<1>2. writer' = [writer EXCEPT ![w] = new]
  <2>1. [s EXCEPT !.pc = "read", !.row = None] = new
    BY <1>1, WriterExcept, Zenon
  <2> QED
    BY <2>1 DEF Conflict
<1>3. IsWriter(new) /\ SealedOnce(new)
  BY <1>1 DEF IsWriter, SealedOnce
<1> QED
  BY <1>2, <1>3, WriterMoves DEF Conflict

LEMMA CrashKeeps ==
    ASSUME IInv, NEW w \in Writers, Crash(w)
    PROVE  IInv'
<1>1. IsWriter(Idle) /\ SealedOnce(Idle)
  BY DEF IsWriter, SealedOnce, Idle
<1> QED
  BY <1>1, WriterMoves DEF Crash

\* The row goes in only at the place it was sealed for, so that the head it was
\* sealed on is still the head.
LEMMA PersistKeeps ==
    ASSUME IInv, NEW w \in Writers, Persist(w)
    PROVE  IInv'
<1> DEFINE s == writer[w]
           t == s.tenant
           n == Len(chain[t]) + 1
<1>1. s.pc = "sealed" /\ IsWriter(s) /\ SealedOnce(s)
  BY DEF Persist, IInv, TypeOK, WriterInv
<1>2. t \in Tenants /\ s.fact \in Facts
  BY <1>1 DEF IsWriter, Idle
<1>3. PICK k \in 1..n : /\ k <= MaxRows
                        /\ s.row = Seal(t, s.fact, k, ExpectedPrev(chain[t], k))
  BY <1>1 DEF SealedOnce
<1>4. Len(chain[t]) \in Nat /\ AreRows(chain[t])
  BY <1>2, RowsAreFunction DEF IInv, TypeOK
<1>5. k = n
  BY <1>3, <1>4 DEF Persist, Seal
<1>6. /\ chain' = [chain EXCEPT ![t] =
            Append(@, Seal(t, s.fact, n, ExpectedPrev(chain[t], n)))]
      /\ Len(chain[t]) < MaxRows
      /\ UNCHANGED <<export, tampers>>
  BY <1>3, <1>4, <1>5, BoundAssumption DEF Persist
<1>7. /\ chain' = [u \in Tenants |-> chain'[u]]
      /\ \A u \in Tenants : AreRows(chain'[u])
      /\ StoredInv'
      /\ ExportInv'
      /\ \A v \in Writers : SealedOnce(writer[v]) /\ writer'[v] = writer[v]
                                => SealedOnce(writer[v])'
  BY <1>2, <1>6, ChainGrows
<1>8. writer' = [v \in Writers |-> IF v = w THEN Idle ELSE writer[v]]
  BY DEF Persist, IInv, TypeOK
<1>9. TypeOK'
  <2>1. IsWriter(Idle)
    BY DEF IsWriter
  <2> QED
    BY <1>6, <1>7, <1>8, <2>1 DEF IInv, TypeOK
<1>10. WriterInv'
  <2> SUFFICES ASSUME NEW v \in Writers PROVE SealedOnce(writer[v])'
    BY DEF WriterInv
  <2>1. CASE v = w
    BY <2>1, <1>8 DEF SealedOnce, Idle
  <2>2. CASE v # w
    BY <2>2, <1>7, <1>8 DEF IInv, WriterInv
  <2> QED
    BY <2>1, <2>2
<1> QED
  BY <1>7, <1>9, <1>10 DEF IInv

LEMMA AppendInMemoryKeeps ==
    ASSUME IInv, NEW t \in Tenants, NEW f \in Facts, AppendInMemory(t, f)
    PROVE  IInv'
<1> DEFINE n == Len(chain[t]) + 1
<1>1. AreRows(chain[t])
  BY DEF IInv, TypeOK
<1>2. /\ chain' = [chain EXCEPT ![t] =
            Append(@, Seal(t, f, n, ExpectedPrev(chain[t], n)))]
      /\ Len(chain[t]) < MaxRows
      /\ UNCHANGED <<export, tampers>>
      /\ writer' = writer
  BY <1>1, TopIsExpected DEF AppendInMemory
<1>3. /\ chain' = [u \in Tenants |-> chain'[u]]
      /\ \A u \in Tenants : AreRows(chain'[u])
      /\ StoredInv'
      /\ ExportInv'
      /\ \A v \in Writers : SealedOnce(writer[v]) /\ writer'[v] = writer[v]
                                => SealedOnce(writer[v])'
  BY <1>2, ChainGrows
<1>4. TypeOK' /\ WriterInv'
  BY <1>2, <1>3 DEF IInv, TypeOK, WriterInv
<1> QED
  BY <1>3, <1>4 DEF IInv

LEMMA ExportKeeps ==
    ASSUME IInv, NEW t \in Tenants, Export(t)
    PROVE  IInv'
<1>1. /\ export' = [tenant |-> t, rows |-> chain[t], count |-> Len(chain[t])]
      /\ tampers' = 0 /\ chain' = chain /\ writer' = writer
  BY DEF Export
<1>2. AreRows(chain[t]) /\ Len(chain[t]) \in 0..MaxRows
  BY DEF IInv, TypeOK, AreRows
<1>3. TypeOK'
  BY <1>1, <1>2, BoundAssumption DEF IInv, TypeOK
<1>4. StoredInv' /\ WriterInv'
  BY <1>1 DEF IInv, StoredInv, StoredRow, WriterInv, SealedOnce
<1>5. ExportInv'
  BY <1>1, KeyAssumption DEF ExportInv, KnownSignature
<1> QED
  BY <1>3, <1>4, <1>5 DEF IInv

-----------------------------------------------------------------------------

LEMMA InitIInv == Init => IInv
<1> SUFFICES ASSUME Init PROVE IInv
  OBVIOUS
<1>1. AreRows(<<>>) /\ Len(<<>>) = 0
  BY BoundAssumption, EmptySeq DEF AreRows
<1>2. IsWriter(Idle) /\ SealedOnce(Idle)
  BY DEF IsWriter, SealedOnce, Idle
<1>3. export = [tenant |-> None, rows |-> <<>>, count |-> 0]
  BY DEF Init, NoExport
<1>4. TypeOK
  BY <1>1, <1>2, <1>3, BoundAssumption DEF Init, TypeOK
<1>5. StoredInv /\ WriterInv
  BY <1>1, <1>2 DEF Init, StoredInv, WriterInv
<1>6. ExportInv
  BY <1>1, <1>3 DEF ExportInv
<1> QED
  BY <1>4, <1>5, <1>6 DEF IInv

LEMMA NextIInv == IInv /\ [Next]_vars => IInv'
<1> SUFFICES ASSUME IInv, [Next]_vars PROVE IInv'
  OBVIOUS
<1>1. ASSUME NEW w \in Writers, WriterStep(w) PROVE IInv'
  BY <1>1, BeginKeeps, ReadHeadAndSealKeeps, PersistKeeps, ConflictKeeps, CrashKeeps
     DEF WriterStep
<1>2. ASSUME NEW t \in Tenants, NEW f \in Facts, AppendInMemory(t, f) PROVE IInv'
  BY <1>2, AppendInMemoryKeeps
<1>3. ASSUME NEW t \in Tenants, Export(t) PROVE IInv'
  BY <1>3, ExportKeeps
<1>4. CASE Tamper
  BY <1>4, TamperKeeps
<1>5. CASE UNCHANGED vars
  BY <1>5 DEF vars, IInv, TypeOK, StoredInv, StoredRow, WriterInv, SealedOnce,
              ExportInv, KnownSignature
<1> QED
  BY <1>1, <1>2, <1>3, <1>4, <1>5 DEF Next

\* The inductive invariant holds: every stored row is seal()'s, whatever order
\* the writers came in.
THEOREM Invariance == Spec => []IInv
BY InitIInv, NextIInv, PTL DEF Spec

\* A chain's rows, a writer's and an export's keep their types and bounds.
THEOREM TypeCorrect == Spec => []TypeOK
<1>1. IInv => TypeOK
  BY DEF IInv
<1> QED
  BY <1>1, Invariance, PTL

-----------------------------------------------------------------------------

LEMMA StoredVerifies ==
    ASSUME IInv, NEW t \in Tenants
    PROVE  Verify(chain[t], KeyOf[t])
<1> SUFFICES ASSUME NEW i \in 1..Len(chain[t])
             PROVE  Passes(chain[t], i, KeyOf[t])
  BY DEF Verify
<1>1. Len(chain[t]) \in Nat
  BY RowsAreFunction DEF IInv, TypeOK
<1>2. PICK f \in Facts : chain[t][i] = Seal(t, f, i, ExpectedPrev(chain[t], i))
  BY DEF IInv, StoredInv, StoredRow
<1>3. PICK g \in Facts : chain[t][1] = Seal(t, g, 1, ExpectedPrev(chain[t], 1))
  BY <1>1 DEF IInv, StoredInv, StoredRow
<1>4. chain[t][1].tenant = t
  BY <1>3 DEF Seal
<1> QED
  BY <1>2, <1>4 DEF Passes, Seal

\* Whatever the order in which writers read heads, lose races and stop, the
\* rows that were stored verify.
THEOREM StoredChainsVerify == Spec => []StoredChainVerifies
<1>1. IInv => StoredChainVerifies
  BY StoredVerifies DEF StoredChainVerifies
<1> QED
  BY <1>1, Invariance, PTL

\* The whole argument needs one row: a signature that the tenant's key checks is
\* a stored row's, the hash it signs holds the place in the chain, and so the
\* row is the one that was stored at that place.
LEMMA PassingRowIsStored ==
    ASSUME IInv, NEW i \in 1..Len(export.rows),
           Passes(export.rows, i, KeyOf[export.tenant])
    PROVE  /\ export.tenant \in Tenants
           /\ i \in 1..Len(chain[export.tenant])
           /\ SameSeal(export.rows[i], chain[export.tenant][i])
<1> DEFINE t == export.tenant
           row == export.rows[i]
<1>1. t \in Tenants
  BY DEF IInv, TypeOK, ExportInv
<1>2. /\ row.seq = i
      /\ row.entryHash = <<row.prev, row.seq, row.payloadHash>>
      /\ row.signature = <<KeyOf[t], row.entryHash>>
  BY DEF Passes, EntryHash, Sign
<1>3. PICK u \in Tenants : \E j \in 1..Len(chain[u]) :
          row.signature = chain[u][j].signature
  <2>1. KnownSignature(row)
    BY DEF IInv, ExportInv
  <2>2. row.signature # Sign(RogueKey, row.entryHash)
    BY <1>1, <1>2, KeyAssumption DEF Sign
  <2> QED
    BY <2>1, <2>2 DEF KnownSignature
<1>4. PICK j \in 1..Len(chain[u]) : row.signature = chain[u][j].signature
  BY <1>3
<1>5. PICK f \in Facts : chain[u][j] = Seal(u, f, j, ExpectedPrev(chain[u], j))
  BY DEF IInv, StoredInv, StoredRow
<1>6. /\ chain[u][j].seq = j
      /\ chain[u][j].signature = <<KeyOf[u], chain[u][j].entryHash>>
      /\ chain[u][j].entryHash =
             <<chain[u][j].prev, chain[u][j].seq, chain[u][j].payloadHash>>
  BY <1>5 DEF Seal, Sign, EntryHash
<1>7. KeyOf[u] = KeyOf[t] /\ chain[u][j].entryHash = row.entryHash
  BY <1>2, <1>4, <1>6
<1>8. u = t
  BY <1>1, <1>7, KeyAssumption
<1>9. /\ chain[u][j].prev = row.prev
      /\ chain[u][j].seq = row.seq
      /\ chain[u][j].payloadHash = row.payloadHash
  BY <1>2, <1>6, <1>7
<1>10. j = i
  BY <1>2, <1>6, <1>9
<1> QED
  BY <1>1, <1>7, <1>8, <1>9, <1>10 DEF SameSeal

\* Whatever was altered, every row before the first one verify() calls broken is
\* the row that was sealed at that place.
THEOREM VerifiedRowsAreStored == Spec => []HonestUpToTheBreak
<1>1. ASSUME IInv PROVE HonestUpToTheBreak
  <2> SUFFICES ASSUME NEW i \in 1..Len(export.rows),
                      \A j \in 1..i : Passes(export.rows, j, KeyOf[export.tenant])
               PROVE  /\ i <= Len(chain[export.tenant])
                      /\ SameSeal(export.rows[i], chain[export.tenant][i])
    BY DEF HonestUpToTheBreak
  <2>1. Len(export.rows) \in Nat
    BY RowsAreFunction DEF IInv, TypeOK
  <2>2. Passes(export.rows, i, KeyOf[export.tenant])
    BY <2>1
  <2>3. /\ export.tenant \in Tenants
        /\ i \in 1..Len(chain[export.tenant])
        /\ SameSeal(export.rows[i], chain[export.tenant][i])
    BY <1>1, <2>2, PassingRowIsStored
  <2>4. Len(chain[export.tenant]) \in Nat
    BY <1>1, <2>3, RowsAreFunction DEF IInv, TypeOK
  <2> QED
    BY <2>3, <2>4
<1> QED
  BY <1>1, Invariance, PTL

\* A body that verify_payload() accepts for a row of an export that verify()
\* accepts is the body, and the row's metadata the metadata, that were sealed.
THEOREM AuditedRowsAreAsSealed == Spec => []AuditedRowIsAsSealed
<1>1. ASSUME IInv PROVE AuditedRowIsAsSealed
  <2> SUFFICES ASSUME Verify(export.rows, KeyOf[export.tenant]),
                      NEW i \in 1..Len(export.rows), NEW t \in Tenants, NEW f \in Facts,
                      VerifyPayload(t, f, export.rows[i])
               PROVE  /\ t = export.tenant
                      /\ export.rows[i].named = chain[export.tenant][i].named
                      /\ PayloadHash(t, f) = chain[export.tenant][i].payloadHash
    BY DEF AuditedRowIsAsSealed
  <2> DEFINE u == export.tenant
  <2>1. /\ u \in Tenants
        /\ i \in 1..Len(chain[u])
        /\ SameSeal(export.rows[i], chain[u][i])
    BY <1>1, PassingRowIsStored DEF Verify
  <2>2. PICK g \in Facts : chain[u][i] = Seal(u, g, i, ExpectedPrev(chain[u], i))
    BY <1>1, <2>1 DEF IInv, StoredInv, StoredRow
  <2>3. /\ chain[u][i].named = g.named
        /\ chain[u][i].payloadHash = PayloadHash(u, g)
    BY <2>2 DEF Seal
  <2>4. /\ f.named = export.rows[i].named
        /\ PayloadHash(t, f) = PayloadHash(u, g)
    BY <2>1, <2>3 DEF SameSeal, VerifyPayload
  <2>5. t = u /\ f.named = g.named
    BY <2>4 DEF PayloadHash
  <2> QED
    BY <2>3, <2>4, <2>5
<1> QED
  BY <1>1, Invariance, PTL
=============================================================================
