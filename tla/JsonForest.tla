------------------------------- MODULE JsonForest -------------------------------
(***************************************************************************)
(* What the editing functions of cJSON promise, without their pointers:    *)
(* items, each with its children in order, and the items that belong to    *)
(* the caller.  An item is in one place, and goes with what it is in.      *)
(* The actions say what a call makes of the children k: the children l.    *)
(***************************************************************************)
EXTENDS Naturals, SequencesExt

CONSTANT Nodes

VARIABLES
  kids,   \* the children of each item there is
  owned   \* the items the caller has to delete or to put somewhere

vars == <<kids, owned>>

Init == kids = [x \in {} |-> <<>>] /\ owned = {}

\* All that is inside item x, itself included.
Inside(k, x) ==
  LET within[n \in Nat] ==
        IF n = 0 THEN {x}
        ELSE LET w == within[n - 1] IN w \cup UNION {ToSet(k[y]) : y \in w}
  IN within[Cardinality(DOMAIN k)]

\* A tree of new items, by creating or by copying.
Create(k, l) ==
  /\ DOMAIN k \subseteq DOMAIN l /\ DOMAIN l \subseteq Nodes
  /\ \A x \in DOMAIN k : l[x] = k[x]
  /\ \E root \in DOMAIN l \ DOMAIN k :
       /\ owned' = owned \cup {root}
       /\ Inside(l, root) = DOMAIN l \ DOMAIN k

\* An owned item becomes a child, at any place.
Attach(k, l) ==
  \E x \in owned :
    /\ owned' = owned \ {x}
    /\ \E p \in DOMAIN k \ Inside(k, x) : \E i \in 1 .. Len(k[p]) + 1 :
         l = [k EXCEPT ![p] = InsertAt(@, i, x)]

\* A new item becomes the last child of another.
Extend(k, l) ==
  /\ owned' = owned
  /\ \E x \in Nodes \ DOMAIN k, p \in DOMAIN k :
       l = [y \in DOMAIN k \cup {x} |->
             IF y = x THEN <<>> ELSE IF y = p THEN Append(k[p], x) ELSE k[y]]

Detach(k, l) ==
  \E p \in DOMAIN k : \E i \in DOMAIN k[p] :
    /\ owned' = owned \cup {k[p][i]}
    /\ l = [k EXCEPT ![p] = RemoveAt(@, i)]

Without(k, gone) == [y \in DOMAIN k \ gone |-> k[y]]

Delete(k, l) ==
  \/ \E x \in owned : owned' = owned \ {x} /\ l = Without(k, Inside(k, x))
  \/ /\ owned' = owned
     /\ \E p \in DOMAIN k : \E i \in DOMAIN k[p] :
          l = Without([k EXCEPT ![p] = RemoveAt(@, i)], Inside(k, k[p][i]))

\* An owned item takes the place of a child, which is deleted.
Replace(k, l) ==
  \E x \in owned :
    /\ owned' = owned \ {x}
    /\ \E p \in DOMAIN k \ Inside(k, x) : \E i \in DOMAIN k[p] :
         l = Without([k EXCEPT ![p][i] = x], Inside(k, k[p][i]))

Change(k, l) ==
  \/ Create(k, l) \/ Attach(k, l) \/ Extend(k, l)
  \/ Detach(k, l) \/ Delete(k, l) \/ Replace(k, l)

Next == \E k \in {kids}, l \in {kids'} : Change(k, l)

Spec == Init /\ [][Next]_vars

================================================================================
