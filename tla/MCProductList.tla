---------------------------- MODULE MCProductList ----------------------------
(* Three products, two of one price.  A search finds two of them. *)
EXTENDS ProductList

MCMatches == [all |-> {1, 2, 3}, lamp |-> {1, 3}]
MCColumn == [product_id |-> <<1, 2, 3>>, value |-> <<7, 5, 7>>]
MCKey == DOMAIN MCMatches
MCValue == 0 .. 3

Ask4(search, page, size, field, order) ==
    [search |-> search, page |-> page, size |-> size,
     field |-> field, order |-> order]

MCQuery == {Ask4("all", 1, 2, "value", "desc"),     \* as the front end asks
            Ask4("all", 2, 2, "value", "desc"),
            Ask4("lamp", 0, 0, "price", "DESC")}    \* left to the defaults
=============================================================================
