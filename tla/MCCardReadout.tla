--------------------------- MODULE MCCardReadout ---------------------------
(* Cards with every count of punches, and some with a few punches and all the kinds of *)
(* times and numbers; the reader of card_t is with those whose blocks it asks for.      *)
EXTENDS CardReadout

At(sec, sub) == [sec |-> sec, sub |-> sub]
Never == At(NoTime, NoSub)

CardOf(type, count, number, serie, start, finish, first) ==
    [type |-> type, count |-> count, number |-> number, serie |-> serie, start_no |-> 12,
     start |-> start, finish |-> finish, check |-> At(36000, NoSub),
     clear |-> IF finish = Never THEN Never ELSE At(35000, 40), first |-> first, step |-> 611]

\* A run that ends in the afternoon, with 192 punches on the next day.
Full(type, count) == CardOf(type, count, 54321, 2, At(36610, NoSub), At(43200 + count, NoSub), 37000)

Various(type) ==
    {CardOf(type, count, number, serie, start, finish, 42800) :
        count \in {0, 2}, number \in {1, 65535, 70000} \cap 0..(IF type = "card_5" THEN 65535 ELSE 70000),
        serie \in IF type = "card_5" THEN {0, 1, 2, 3} ELSE {0},
        start \in {At(0, NoSub), At(43199, 255), Never}, finish \in {At(86399, 128), Never}}

AtMost(type, limit) == {Full(type, count) : count \in 0..limit}

MostCards ==
    UNION {AtMost(type, Capacity[type]) \cup {c \in Various(type) : c.count <= Capacity[type]} :
              type \in (KnownCard \ {"card_t"}) \cup {OtherCard}}
      \cup AtMost("card_t", 9)

CardsT == AtMost("card_t", Capacity["card_t"])
=============================================================================
