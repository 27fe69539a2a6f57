--------------------------- MODULE MCShoppingList ---------------------------
(* A small instance of ShoppingList: "milk" also occurs in "oat milk". *)
EXTENDS ShoppingList, TLC

CONSTANTS r1, r2, i1, i2

MCContent == {"milk", "oat milk"}
MCWithin == {<<c, c>> : c \in MCContent} \cup {<<"milk", "oat milk">>}
Symmetry == Permutations(Request) \cup Permutations(Item)
=============================================================================
