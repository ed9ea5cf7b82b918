----------------------------- MODULE MCExfatCard -----------------------------
(***************************************************************************)
(* A folder of three sectors of four slots: a file "a" on one cluster, a   *)
(* file of two chained clusters around it whose entry set crosses a sector *)
(* boundary, and a longer name to give.                                    *)
(***************************************************************************)
EXTENDS ExfatCard

MCNames == {<<"a">>, <<"b">>, <<"b", "b">>}

\* ... and one as long as the longest, that none has.
MCLongerNames == MCNames \cup {<<"c", "c">>}

MCCards ==
  LET files == EntrySet(<<"a">>, FALSE, [first |-> 2, size |-> 1,
                                         chained |-> FALSE, ver |-> 1])
               \o EntrySet(<<"b", "b">>, FALSE, [first |-> 1, size |-> 2,
                                                chained |-> TRUE, ver |-> 2])
  IN {[slot |-> [s \in Slots |-> IF s <= 7 THEN files[s] ELSE EndMark],
       marked |-> {1, 2, 3},
       fat |-> [c \in Clusters |-> IF c = 1 THEN 3 ELSE IF c = 3 THEN ChainEnd ELSE Free],
       data |-> [c \in Clusters |-> IF c = 2 THEN <<1, 1>>
                                    ELSE IF c = 1 THEN <<2, 1>>
                                    ELSE IF c = 3 THEN <<2, 2>> ELSE <<0, 0>>]]}
=============================================================================
