------------------------------ MODULE SpendBook ------------------------------
(***************************************************************************)
(* The pipeline keeps the book of BudgetBook: the mapping from the charges *)
(* table and the chain to the book, and the statement that every step of   *)
(* the pipeline is a step of the book or leaves it alone.                  *)
(***************************************************************************)
EXTENDS Spend

\* A card-network charge is firm whatever the verdict on its settlement: a sweep
\* that read it before may still relabel it after it was confirmed.
EntryState(row) ==
    CASE row.status = "absent" -> "free"
      [] row.status = "failed" -> "released"
      [] row.status \notin {"absent", "failed"} /\ row.kind = "fiat" -> "firm"
      [] row.status = "confirmed" /\ row.kind # "fiat" -> "settled"
      [] row.status \in {"pending", "settlement_unconfirmed"}
            /\ row.kind # "fiat" -> "held"

BookOfRows ==
    [i \in Charge |->
        [state |-> EntryState(rows[i]), card |-> rows[i].card,
         weight |-> Approved(rows)[i], at |-> rows[i].created]]

PaidOnChain == {call[p].row : p \in {q \in Call : wire[q] = "landed"}}

Book == INSTANCE BudgetBook WITH book <- BookOfRows, paid <- PaidOnChain

\* Through all its awaits, retries, sweeps and crashes the pipeline approves in
\* one step within every limit, moves the money of a charge at most once and only
\* while the charge is booked, and releases only what never moves
\* (spend.ts, 363-618 and 680-785, with the accounting of store.ts, 540-578).
KeepsTheBook == Book!BookSpec
=============================================================================
