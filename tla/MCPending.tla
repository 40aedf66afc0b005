----------------------------- MODULE MCPending -----------------------------
(***************************************************************************)
(* Transactions and foreign blocks for PendingTransactions.                *)
(***************************************************************************)
EXTENDS PendingTransactions

H(time, txs, id) == [time |-> time, txs |-> txs, id |-> id]
Top == <<H(0, << >>, 0)>>

\* Two forks whose blocks are good.
A1 == Append(Top, H(1, <<"pay">>, 0))
A2 == Append(A1, H(3, <<"spend">>, 0))
B1 == Append(Top, H(1, << >>, 1))
B2 == Append(B1, H(3, << >>, 1))
B3 == Append(B2, H(5, << >>, 1))
GoodForks == {A1, A2, B1, B2, B3}

\* A fork that turns out to be bad after its first block was applied: it
\* takes "pay" a second time, when it has just expired.
D2 == Append(A1, H(5, << >>, 3))
D3 == Append(D2, H(7, <<"pay">>, 3))
AllForks == GoodForks \cup {D2, D3}

\* "pay" funds "spend"; "other" spends the same funds as "spend".  A block
\* has room for "pay" and "other", but not for "pay" and "spend".
Txs == {"pay", "spend", "other"}
Sizes == [t \in Txs |-> IF t = "spend" THEN 5 ELSE 3]
EarlyExpiration == [t \in Txs |-> CASE t = "pay" -> 5 [] t = "spend" -> 6 [] t = "other" -> 4]
Dependent == [t \in Txs |-> IF t = "pay" THEN {} ELSE {"pay"}]
Exclusive == [t \in Txs |->
    CASE t = "spend" -> {"other"} [] t = "other" -> {"spend"} [] OTHER -> {}]

OtherRefersToB == [t \in Txs |-> IF t = "other" THEN B1 ELSE Top]
=============================================================================
