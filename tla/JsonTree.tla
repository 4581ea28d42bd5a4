-------------------------------- MODULE JsonTree --------------------------------
(***************************************************************************)
(* The trees of cJSON: items in a heap, the children of an item in a list  *)
(* whose `prev' of the first points to the last.  The caller calls the     *)
(* functions as cJSON.h asks: it adds only items that it owns, puts none   *)
(* into itself, and lets what a reference shows be while there is one.     *)
(* Values are left out; a key is a name or NoKey.                          *)
(***************************************************************************)
EXTENDS Naturals, SequencesExt

CONSTANTS
  Nodes,    \* the addresses malloc() may return
  Null,
  Keys,
  NoKey,
  Lower,    \* tolower() of each key
  MaxArray, \* bound: elements given to cJSON_CreateIntArray
  CircularLimit, \* CJSON_CIRCULAR_LIMIT
  LeakyKey  \* whether the key of a reference may fail to be copied

ASSUME JsonTreeAssumption ==
  /\ Null \notin Nodes /\ NoKey \notin Keys
  /\ IsFiniteSet(Nodes)
  /\ MaxArray \in Nat /\ CircularLimit \in Nat
  /\ LeakyKey \in BOOLEAN

VARIABLES
  heap,  \* the items that are allocated
  roots, \* history: the items the caller has to delete or to put somewhere
  lost   \* history: the items nothing points to any more

treeVars == <<heap, roots, lost>>

TreeInit ==
  /\ heap = [x \in {} |-> Null]
  /\ roots = {}
  /\ lost = {}

-----------------------------------------------------------------------------
(***************************************************************************)
(* Walking                                                                 *)
(***************************************************************************)

\* The items from x on, by next; one too many if that never ends.
ListFrom(h, x) ==
  LET walk[k \in Nat] ==
        IF k = 0 THEN <<x>>
        ELSE LET w == walk[k - 1] IN
               IF Last(w) = Null THEN w ELSE Append(w, h[Last(w)].next)
      all == walk[Cardinality(DOMAIN h) + 1]
  IN IF Last(all) = Null THEN Front(all) ELSE all

Children(h, p) == ListFrom(h, h[p].child)

\* What cJSON_Delete(x) frees: x and what follows it, with their children
\* unless they are references.
Freed(h, x) ==
  LET down(y) == IF h[y].ref THEN {} ELSE ToSet(Children(h, y))
      below[k \in Nat] ==
        IF k = 0 THEN ToSet(ListFrom(h, x))
        ELSE LET b == below[k - 1] IN b \cup UNION {down(y) : y \in b}
  IN below[Cardinality(DOMAIN h)]

Free(h, gone) == [x \in DOMAIN h \ gone |-> h[x]]

\* get_array_item, counted from 0.
GetArrayItem(p, which) ==
  IF which < Len(Children(heap, p)) THEN Children(heap, p)[which + 1] ELSE Null

\* get_object_item.  The search that respects case gives up at an item without
\* a key.
GetObjectItem(p, key, caseSensitive) ==
  LET items == Children(heap, p)
      stops(x) == IF caseSensitive THEN heap[x].string \in {key, NoKey}
                  ELSE heap[x].string # NoKey /\ Lower[heap[x].string] = Lower[key]
      at == {i \in DOMAIN items : stops(items[i])}
      first == CHOOSE i \in at : \A j \in at : i <= j
  IN IF at = {} \/ heap[items[first]].string = NoKey THEN Null ELSE items[first]

-----------------------------------------------------------------------------
(***************************************************************************)
(* Making                                                                  *)
(***************************************************************************)

BlankItem == [next |-> Null, prev |-> Null, child |-> Null, string |-> NoKey, ref |-> FALSE]

Unused == Nodes \ DOMAIN heap

\* New items and those there were.
Both(new, old) == [x \in DOMAIN new \cup DOMAIN old |-> IF x \in DOMAIN new THEN new[x] ELSE old[x]]

Single(x, item) == [y \in {x} |-> item]

\* cJSON_CreateNull, ...String, ...Array, ...Object; NULL changes nothing.
Create(x) ==
  /\ x \in Unused
  /\ heap' = Both(Single(x, BlankItem), heap)
  /\ roots' = roots \cup {x}
  /\ UNCHANGED lost

\* Where y is in s.
Spot(s, y) == CHOOSE i \in DOMAIN s : s[i] = y

\* Two items of an array are linked to one another, each way.
MutElement(items, i) ==
  [BlankItem EXCEPT !.next = IF i = Len(items) THEN Null ELSE items[i + 1],
                  !.prev = IF i = 1 THEN Null ELSE items[i - 1]]

\* The last one is told to the first.
Element(items, i) ==
  [BlankItem EXCEPT !.next = IF i = Len(items) THEN Null ELSE items[i + 1],
                  !.prev = IF i = 1 THEN Last(items) ELSE items[i - 1]]

\* cJSON_CreateIntArray; if one element cannot be had the rest is deleted.
CreateArray(a, items) ==
  /\ {a} \cup ToSet(items) \subseteq Unused /\ a \notin ToSet(items)
  /\ heap' = Both([i \in ToSet(items) |-> Element(items, Spot(items, i))],
                  Both(Single(a, [BlankItem EXCEPT !.child = Head(items)]), heap))
  /\ roots' = roots \cup {a}
  /\ UNCHANGED lost

\* The ways from x down to each item in it, as far as cJSON_Duplicate_rec goes:
\* what a reference shows is copied wherever it is shown.
Paths(x) ==
  LET step(p) == {Append(p, y) : y \in ToSet(Children(heap, Last(p)))}
      upTo[k \in Nat] ==
        IF k = 0 THEN {<<x>>}
        ELSE LET u == upTo[k - 1] IN u \cup UNION {step(p) : p \in u}
  IN upTo[CircularLimit]

\* The item that p leads to, with its siblings; x has none that matter.
Beside(p) == IF Len(p) = 1 THEN p ELSE Children(heap, Last(Front(p)))

\* The copy of the item that p leads to; to says where copies are.  cJSON keeps
\* the reference flag out of it.
CopyOf(p, to) ==
  LET inside == Children(heap, Last(p))
      beside == Beside(p)
      i == Spot(beside, Last(p))
      at(j) == to[Append(Front(p), beside[j])]
  IN [next   |-> IF i = Len(beside) THEN Null ELSE at(i + 1),
      prev   |-> IF Len(p) = 1 THEN Null ELSE IF i = 1 THEN at(Len(beside)) ELSE at(i - 1),
      child  |-> IF inside = <<>> THEN Null ELSE to[Append(p, inside[1])],
      string |-> heap[Last(p)].string,
      ref    |-> FALSE]

\* cJSON_Duplicate(x, true); when memory runs out, or there are children deeper
\* than the limit, as in a tree that shows itself, the part there is is deleted.
Duplicate(x) ==
  /\ \A p \in Paths(x) : Len(p) > CircularLimit => heap[Last(p)].child = Null
  /\ \E to \in [Paths(x) -> Unused] :
       /\ \A p, q \in Paths(x) : to[p] = to[q] => p = q
       /\ heap' = Both([y \in {to[p] : p \in Paths(x)} |->
                          CopyOf(CHOOSE p \in Paths(x) : to[p] = y, to)], heap)
       /\ roots' = roots \cup {to[<<x>>]}
  /\ UNCHANGED lost

-----------------------------------------------------------------------------
(***************************************************************************)
(* Adding                                                                  *)
(***************************************************************************)

\* What a reference shows must not change.
Shown(h, p) == h[p].child # Null /\ \E r \in DOMAIN h : h[r].ref /\ h[r].child = h[p].child

Inside(h, x) == Freed([h EXCEPT ![x].next = Null], x)

\* An item the caller may add children to.
MayEdit(p) == p \in DOMAIN heap /\ ~heap[p].ref /\ ~Shown(heap, p)

MayAdd(p, x) == MayEdit(p) /\ x \in roots /\ p \notin Inside(heap, x)

Suffix(h, prev, item) == [h EXCEPT ![prev].next = item, ![item].prev = prev]

\* The first item is not told about the new last one.
MutAppend(h, p, x) ==
  IF h[p].child = Null THEN [h EXCEPT ![p].child = x, ![x].prev = x, ![x].next = Null]
  ELSE Suffix(h, h[h[p].child].prev, x)

\* add_item_to_array
AddItem(h, p, x) ==
  LET first == h[p].child IN
    IF first = Null THEN [h EXCEPT ![p].child = x, ![x].prev = x, ![x].next = Null]
    ELSE IF h[first].prev = Null THEN h
    ELSE [Suffix(h, h[first].prev, x) EXCEPT ![first].prev = x]

AddItemToArray(p, x) ==
  /\ MayAdd(p, x)
  /\ heap' = AddItem(heap, p, x)
  /\ roots' = roots \ {x}
  /\ UNCHANGED lost

\* When the key cannot be copied the item stays with the caller.
AddItemToObject(p, key, x) ==
  /\ MayAdd(p, x)
  /\ heap' = AddItem([heap EXCEPT ![x].string = key], p, x)
  /\ roots' = roots \ {x}
  /\ UNCHANGED lost

\* cJSON_Add...ToObject: an item that cannot be added is deleted again.
AddNewToObject(p, key, x) ==
  /\ MayEdit(p) /\ x \in Unused
  /\ heap' = AddItem(Both(Single(x, [BlankItem EXCEPT !.string = key]), heap), p, x)
  /\ UNCHANGED <<roots, lost>>

\* create_reference: a copy of the item that shows the same children.
Reference(x) == [heap[x] EXCEPT !.string = NoKey, !.ref = TRUE, !.next = Null, !.prev = Null]

MayRefer(p, x) == MayEdit(p) /\ x \in DOMAIN heap /\ p \notin Inside(heap, x)

AddReferenceToArray(p, x, r) ==
  /\ MayRefer(p, x) /\ r \in Unused
  /\ heap' = AddItem(Both(Single(r, Reference(x)), heap), p, r)
  /\ UNCHANGED <<roots, lost>>

\* When the key cannot be copied nobody deletes the reference.
AddReferenceToObject(p, key, x, r) ==
  /\ MayRefer(p, x) /\ r \in Unused
  /\ \/ /\ heap' = AddItem(Both(Single(r, [Reference(x) EXCEPT !.string = key]), heap), p, r)
        /\ UNCHANGED lost
     \/ /\ LeakyKey
        /\ heap' = Both(Single(r, Reference(x)), heap)
        /\ lost' = lost \cup {r}
  /\ UNCHANGED roots

\* An item behind the first that does not know the one before it is left alone.
Corrupted(p, x) == x # heap[p].child /\ heap[x].prev = Null

\* The heap when x was put before `after', an item of p.
Inserted(h, p, x, after) ==
  LET g == [h EXCEPT ![x].next = after, ![x].prev = h[after].prev, ![after].prev = x]
  IN IF after = h[p].child THEN [g EXCEPT ![p].child = x]
     ELSE [g EXCEPT ![g[x].prev].next = x]

\* cJSON_InsertItemInArray
Insert(p, which, x) ==
  LET after == GetArrayItem(p, which) IN
    /\ MayAdd(p, x)
    /\ after # Null => ~Corrupted(p, after)
    /\ heap' = IF after = Null THEN AddItem(heap, p, x) ELSE Inserted(heap, p, x, after)
    /\ roots' = roots \ {x}
    /\ UNCHANGED lost

-----------------------------------------------------------------------------
(***************************************************************************)
(* Taking away                                                             *)
(***************************************************************************)

\* The new last item is not told to the first.
MutUnlinked(h, p, x) ==
  LET a == IF x # h[p].child THEN [h EXCEPT ![h[x].prev].next = h[x].next] ELSE h
      b == IF h[x].next # Null THEN [a EXCEPT ![h[x].next].prev = h[x].prev] ELSE a
      c == IF x = h[p].child THEN [b EXCEPT ![p].child = h[x].next] ELSE b
  IN [c EXCEPT ![x].prev = Null, ![x].next = Null]

\* The heap after x left the list of p.
Unlinked(h, p, x) ==
  LET a == IF x # h[p].child THEN [h EXCEPT ![h[x].prev].next = h[x].next] ELSE h
      b == IF h[x].next # Null THEN [a EXCEPT ![h[x].next].prev = h[x].prev] ELSE a
      c == IF x = h[p].child THEN [b EXCEPT ![p].child = h[x].next]
           ELSE IF h[x].next = Null THEN [b EXCEPT ![h[p].child].prev = h[x].prev]
           ELSE b
  IN [c EXCEPT ![x].prev = Null, ![x].next = Null]

\* cJSON_DetachItemViaPointer
Detach(p, x) ==
  /\ MayEdit(p) /\ x # Null /\ ~Corrupted(p, x)
  /\ heap' = Unlinked(heap, p, x)
  /\ roots' = roots \cup {x}
  /\ UNCHANGED lost

DetachFromArray(p, which) == p \in DOMAIN heap /\ Detach(p, GetArrayItem(p, which))

DetachFromObject(p, key, caseSensitive) ==
  p \in DOMAIN heap /\ Detach(p, GetObjectItem(p, key, caseSensitive))

\* Nothing that goes is shown by a reference that stays.
MayDelete(gone) ==
  \A r \in DOMAIN heap \ gone : heap[r].ref => heap[r].child \notin gone

Delete(x) ==
  /\ x \in roots
  /\ MayDelete(Freed(heap, x))
  /\ heap' = Free(heap, Freed(heap, x))
  /\ roots' = roots \ {x}
  /\ UNCHANGED lost

\* cJSON_DeleteItemFromArray and ...FromObject
DeleteFrom(p, x) ==
  /\ MayEdit(p) /\ x # Null /\ ~Corrupted(p, x)
  /\ LET h == Unlinked(heap, p, x) IN
       /\ MayDelete(Freed(h, x))
       /\ heap' = Free(h, Freed(h, x))
  /\ UNCHANGED <<roots, lost>>

\* y knows the neighbours of x, and the next one knows y.
Inherited(h, x, y) == [h EXCEPT ![y].next = h[x].next, ![y].prev = h[x].prev]

NextTold(h, y) == IF h[y].next # Null THEN [h EXCEPT ![h[y].next].prev = y] ELSE h

\* An only child keeps the old item as the last one.
MutBeforeTold(h, p, x, y) ==
  IF h[p].child = x
  THEN [h EXCEPT ![p].child = y]
  ELSE LET d == [h EXCEPT ![h[y].prev].next = y]
       IN IF h[y].next = Null THEN [d EXCEPT ![d[p].child].prev = y] ELSE d

\* So does the one before it, or else p; as the last one, y is told to the first.
BeforeTold(h, p, x, y) ==
  IF h[p].child = x
  THEN [h EXCEPT ![y].prev = IF h[x].prev = x THEN y ELSE @, ![p].child = y]
  ELSE LET d == [h EXCEPT ![h[y].prev].next = y]
       IN IF h[y].next = Null THEN [d EXCEPT ![d[p].child].prev = y] ELSE d

Alone(h, x) == [h EXCEPT ![x].next = Null, ![x].prev = Null]

\* y takes the place of x in p, before x is deleted.
Replaced(h, p, x, y) == Alone(BeforeTold(NextTold(Inherited(h, x, y), y), p, x, y), x)

\* cJSON_ReplaceItemViaPointer
Replace(h, p, x, y) ==
  /\ MayAdd(p, y) /\ x # Null
  /\ LET r == Replaced(h, p, x, y) IN
       /\ MayDelete(Freed(r, x))
       /\ heap' = Free(r, Freed(r, x))
  /\ roots' = roots \ {y}
  /\ UNCHANGED lost

ReplaceInArray(p, which, y) ==
  p \in DOMAIN heap /\ Replace(heap, p, GetArrayItem(p, which), y)

\* The replacement gets the key, also when there is nothing to replace.
ReplaceInObject(p, key, y, caseSensitive) ==
  LET h == [heap EXCEPT ![y].string = key]
      x == GetObjectItem(p, key, caseSensitive)
  IN /\ MayAdd(p, y)
     /\ IF x # Null THEN Replace(h, p, x, y)
        ELSE heap' = h /\ UNCHANGED <<roots, lost>>

Put(p, x) ==
  \/ AddItemToArray(p, x)
  \/ \E which \in 0 .. Cardinality(DOMAIN heap) : Insert(p, which, x) \/ ReplaceInArray(p, which, x)
  \/ \E key \in Keys :
       \/ AddItemToObject(p, key, x)
       \/ \E caseSensitive \in BOOLEAN : ReplaceInObject(p, key, x, caseSensitive)

Extend(p, r) ==
  \/ \E key \in Keys : AddNewToObject(p, key, r)
  \/ \E x \in DOMAIN heap :
       \/ AddReferenceToArray(p, x, r)
       \/ \E key \in Keys : AddReferenceToObject(p, key, x, r)

Take(p) ==
  \/ \E which \in 0 .. Cardinality(DOMAIN heap) :
       DetachFromArray(p, which) \/ DeleteFrom(p, GetArrayItem(p, which))
  \/ \E key \in Keys, caseSensitive \in BOOLEAN :
       \/ DetachFromObject(p, key, caseSensitive)
       \/ DeleteFrom(p, GetObjectItem(p, key, caseSensitive))

TreeNext ==
  \/ \E x \in Nodes : Create(x)
  \/ \E a \in Unused, n \in 1 .. MaxArray : \E items \in [1 .. n -> Unused] :
       IsInjective(items) /\ CreateArray(a, items)
  \/ \E x \in DOMAIN heap : Duplicate(x)
  \/ \E x \in roots : Delete(x)
  \/ \E p \in DOMAIN heap :
       \/ \E x \in roots : Put(p, x)
       \/ \E r \in Unused : Extend(p, r)
       \/ Take(p)

TreeSpec == TreeInit /\ [][TreeNext]_treeVars

-----------------------------------------------------------------------------
(***************************************************************************)
(* Properties.                                                             *)
(***************************************************************************)

Owners == {p \in DOMAIN heap : ~heap[p].ref}

\* The type of every variable, and more: neither an item nor the caller points to
\* an item that was freed, whatever was detached, replaced and deleted before.
NothingDangles ==
  LET pointers == DOMAIN heap \cup {Null} IN
    /\ DOMAIN heap \subseteq Nodes /\ roots \subseteq DOMAIN heap
    /\ \A x \in DOMAIN heap :
         heap[x] \in [next : pointers, prev : pointers, child : pointers,
                      string : Keys \cup {NoKey}, ref : BOOLEAN]

\* "To find the last item in array quickly, we use prev in array": every list
\* of children ends, each item knows the one before it and the first the last;
\* an item on its own points nowhere.
ListsAreWhole ==
  /\ \A p \in Owners : LET c == Children(heap, p) IN
       /\ IsInjective(c)
       /\ \A i \in DOMAIN c : heap[c[i]].prev = c[IF i = 1 THEN Len(c) ELSE i - 1]
  /\ \A x \in roots : heap[x].next = Null /\ heap[x].prev = Null

\* An item is with the caller, or a child of exactly one item, or was lost.
EveryItemHasAPlace ==
  \A x \in DOMAIN heap :
    LET parents == {p \in Owners : x \in ToSet(Children(heap, p))} IN
      IF x \in roots \cup lost THEN parents = {} ELSE Cardinality(parents) = 1

\* The lists of children behave as sequences: the pointers implement JsonForest.
Forest == INSTANCE JsonForest WITH
  kids  <- [x \in DOMAIN heap \ lost |-> IF heap[x].ref THEN <<>> ELSE Children(heap, x)],
  owned <- roots

ImplementsForest == Forest!Spec

================================================================================
