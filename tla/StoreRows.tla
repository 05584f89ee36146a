----------------------------- MODULE StoreRows ------------------------------
(***************************************************************************)
(* What both state stores (state.rs, state_postgres.rs) share: timestamps  *)
(* and their order, what a record proves about the key of a table, and     *)
(* rows that are listed newest first.                                      *)
(*                                                                         *)
(* A stamp is a text.  Of it matter the instant it denotes, in nanoseconds *)
(* and rounded to the microsecond, and its place in the order of texts;    *)
(* texts written by an older release have a fraction of variable width, so *)
(* the two orders differ.  "nano" is 0 for a text that cannot be parsed.   *)
(***************************************************************************)
EXTENDS Integers, FiniteSets, SequencesExt

NoStamp == [nano |-> 0, micro |-> 0, text |-> 0]       \* the empty string

Parsed(s) == s.nano # 0

(* Negative, zero or positive.                                             *)
cmp_rfc3339(a, b) == IF Parsed(a) /\ Parsed(b) THEN a.nano - b.nano
                                               ELSE a.text - b.text

-----------------------------------------------------------------------------
(* The row-identity key of a table: a set of claims, each a set of         *)
(* columns.  An optional value is a sequence of at most one; the empty key *)
(* is known, NULL is not.                                                  *)

Unknown    == <<"unknown">>
Known(key) == <<"known", key>>

incremental_key_claim(columns) == IF columns = {} THEN <<>> ELSE <<{columns}>>

recorded_key(record) ==
    IF record.effective_key # <<>> THEN Known(record.effective_key[1])
    ELSE IF record.strategy = "key" /\ record.columns # {} THEN Known({record.columns})
    ELSE Unknown

-----------------------------------------------------------------------------
(* Listings.  What a statement selects are numbers of rows, and what it    *)
(* lists are those rows in an order of their numbers, a set of pairs: the  *)
(* place of a row is how many come before it.                              *)

Where(rows, column, value) == {i \in DOMAIN rows : rows[i][column] = value}

InOrder(rows, numbers, order) ==
    LET Place(i) == 1 + Cardinality({j \in numbers : <<j, i>> \in order})
    IN  [n \in 1 .. Cardinality(numbers) |-> rows[CHOOSE i \in numbers : Place(i) = n]]

Only(rows, numbers) == InOrder(rows, numbers, {p \in numbers \X numbers : p[1] < p[2]})

(* ORDER BY <stamp> DESC, <row number> DESC, and a stable sort by the      *)
(* parsed instant.  "stamp" is the name of the column.                     *)

ByText(rows, stamp, i, j) ==
    \/ rows[i][stamp].text > rows[j][stamp].text
    \/ rows[i][stamp].text = rows[j][stamp].text /\ i > j

newest_first(rows, stamp) ==
    LET Newer(i, j) ==
            \/ cmp_rfc3339(rows[i][stamp], rows[j][stamp]) > 0
            \/ /\ cmp_rfc3339(rows[i][stamp], rows[j][stamp]) = 0
               /\ ByText(rows, stamp, i, j)
    IN  InOrder(rows, DOMAIN rows,
                {p \in (DOMAIN rows) \X (DOMAIN rows) : Newer(p[1], p[2])})

(* A record with some fields set.  UPDATE sets columns of a row, which     *)
(* keeps its place.                                                        *)
Assigned(row, columns) ==
    [c \in DOMAIN columns \cup DOMAIN row |-> IF c \in DOMAIN columns THEN columns[c] ELSE row[c]]
Updated(rows, id, columns) ==
    [i \in DOMAIN rows |-> IF rows[i].id = id THEN Assigned(rows[i], columns) ELSE rows[i]]

(* The row of a key is inserted or replaced.                               *)
Put(table, key, row) ==
    [k \in {key} \cup DOMAIN table |-> IF k = key THEN row ELSE table[k]]

Has(rows, id) == \E i \in DOMAIN rows : rows[i].id = id
=============================================================================
