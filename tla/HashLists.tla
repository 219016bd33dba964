------------------------------ MODULE HashLists -------------------------------
(***************************************************************************)
(* The hash lists of libs/hash_list.c.                                     *)
(*                                                                         *)
(* An instance is an array of rows; a row is the item embedded in the      *)
(* array followed by the allocated items it links to, as a sequence of     *)
(* [data, hash].  The embedded item is never freed: an empty row is one    *)
(* item with data Null and hash 0.                                         *)
(***************************************************************************)
EXTENDS Integers, Sequences, SequencesExt

CONSTANTS
    Data,       \* pointers the client stores
    NoData,     \* the null pointer
    Hashes,     \* 16-bit hashes
    HashSize,   \* number of rows
    MaxHashed   \* bound on the items stored

ASSUME HashAssumption == HashSize \in Nat \ {0} /\ Hashes \subseteq 0 .. 65535 /\ NoData \notin Data

VARIABLES
    rows,       \* inst->list
    added       \* the items added and not deleted, in order

hashVars == <<rows, added>>

Empty == [data |-> NoData, hash |-> 0]

Row(h) == h % HashSize

(* Removes the i-th of the items s.                                        *)
Without(s, i) == SubSeq(s, 1, i - 1) \o SubSeq(s, i + 1, Len(s))

(* The place of the first item with hash h, 0 when there is none.          *)
Place(s, h) == LET hits == {i \in 1 .. Len(s) : s[i].hash = h}
               IN  IF hits = {} THEN 0 ELSE CHOOSE i \in hits : \A j \in hits : i <= j

HashInit == /\ rows = [r \in 0 .. HashSize - 1 |-> <<Empty>>]
            /\ added = <<>>

(* EGENERIC when the item of a shared row cannot be allocated.             *)
hash_list_add(d, h) ==
    LET row  == rows[Row(h)]
        item == [data |-> d, hash |-> h]
    IN  \/ /\ rows' = [rows EXCEPT ![Row(h)] = IF row[1].data = NoData THEN <<item>> \o Tail(row)
                                               ELSE Append(row, item)]
           /\ added' = Append(added, item)
        \/ row[1].data # NoData /\ UNCHANGED hashVars

(* The item found, also an empty one whose hash is 0.                      *)
hash_list_get(rs, h) ==
    LET i == Place(rs[Row(h)], h) IN IF i = 0 THEN Empty ELSE rs[Row(h)][i]

(* The data of the items that follow moves up and the last item is freed.  *)
ShrinkLeavesHash(row, i) ==
    [j \in 1 .. Len(row) - 1 |-> IF j < i THEN row[j]
                                 ELSE [row[j] EXCEPT !.data = row[j + 1].data]]
hash_list_shrink_row(row, i) ==
    [j \in 1 .. Len(row) - 1 |-> IF j < i THEN row[j] ELSE row[j + 1]]

hash_list_del(h) ==
    LET row == rows[Row(h)]
        i   == Place(row, h)
    IN  /\ i # 0
        /\ rows' = [rows EXCEPT ![Row(h)] = IF Len(row) = 1 THEN <<Empty>>
                                            ELSE hash_list_shrink_row(row, i)]
        /\ added' = LET p == Place(added, h) IN IF p = 0 THEN added ELSE Without(added, p)

hash_list_done == /\ added' = <<>>
                  /\ rows' = [r \in 0 .. HashSize - 1 |-> <<Empty>>]

HashNext == \/ \E d \in Data, h \in Hashes : Len(added) < MaxHashed /\ hash_list_add(d, h)
            \/ \E h \in Hashes : hash_list_del(h)
            \/ hash_list_done

(* Whatever was deleted from the rows the hashes share, hash_list_get      *)
(* returns the oldest item added with the hash, and every item added is    *)
(* in its row once, in order.                                              *)
HashFinds ==
    /\ \A h \in Hashes : LET p == Place(added, h)
                         IN  hash_list_get(rows, h).data = IF p = 0 THEN NoData ELSE added[p].data
    /\ \A r \in DOMAIN rows :
          SelectSeq(rows[r], LAMBDA x : x.data # NoData) = SelectSeq(added, LAMBDA x : Row(x.hash) = r)

=============================================================================
