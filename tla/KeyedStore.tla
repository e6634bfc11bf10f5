----------------------------- MODULE KeyedStore -----------------------------
(***************************************************************************)
(* What a group of caches promises to the code that evaluates points: each *)
(* keeps the entries made in it, and a merge moves the entries of a cache  *)
(* into the main one, all of them and unchanged.                           *)
(***************************************************************************)
EXTENDS Naturals

CONSTANTS Keys, Caches, Main

VARIABLES contents,  \* of each cache: its entries
          made       \* entries made so far

storeVars == <<contents, made>>

Init == contents = [c \in Caches |-> {}] /\ made = 0

Insert(c, k) ==
  /\ made' = made + 1
  /\ contents' = [contents EXCEPT ![c] = @ \cup {[key |-> k, id |-> made']}]

Absorb(c) ==
  /\ c # Main
  /\ contents' = [contents EXCEPT ![Main] = @ \cup contents[c], ![c] = {}]
  /\ UNCHANGED made

Next == \/ \E c \in Caches, k \in Keys : Insert(c, k)
        \/ \E c \in Caches : Absorb(c)

Spec == Init /\ [][Next]_storeVars
=============================================================================
