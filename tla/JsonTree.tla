------------------------------ MODULE JsonTree ------------------------------
(***************************************************************************)
(* The items of code/json/cjson/cJSON.c on a heap, and the calls that link *)
(* them into arrays and objects. Numbers 1 to MaxItems are addresses of    *)
(* items, 0 is NULL. Member names are not compared here: a call that takes *)
(* a name finds some member. The program owns the items that are in no     *)
(* list; memory is followed to the first of the events in Known.           *)
(***************************************************************************)
EXTENDS Integers, Sequences, FiniteSets, SequencesExt

CONSTANT JsonLimits     \* bounds: items alive at once, names and values, and containers among the items

ASSUME JsonTreeAssumption == JsonLimits \subseteq [items : Nat, strings : Nat, containers : Nat]

VARIABLES items,      \* per address, the item, or Free
          strings,    \* the strings that are allocated
          original,   \* of a reference: the item it was made from
          jsonEvent,  \* "none", one of Known, or "freed twice"
          jsonLimit   \* one of JsonLimits

jsonVars == <<items, strings, original, jsonEvent, jsonLimit>>

Items == 1..jsonLimit.items
Strings == 1..jsonLimit.strings    \* addresses of strings from cJSON_strdup
Constant == -1                     \* a string that was never allocated

\* What goes wrong when the calls are combined: memory in no state to go on.
Known == {"constant freed", "string lost", "reference outlived"}

Free == [live |-> FALSE]
New(container) ==
  [live |-> TRUE, container |-> container, next |-> 0, prev |-> 0, child |-> 0,
   ref |-> FALSE, const |-> FALSE, value |-> 0, name |-> 0]

JsonInit(limits) ==
  /\ jsonLimit \in limits
  /\ items = [x \in Items |-> Free] /\ strings = {}
  /\ original = [x \in Items |-> 0] /\ jsonEvent = "none"

Live(H) == {x \in Items : H[x].live}
SomeFree(H) == IF Live(H) = Items THEN {} ELSE {CHOOSE x \in Items \ Live(H) : \A y \in Items \ Live(H) : x <= y}
SomeStringBut(used) ==
  LET left == Strings \ used IN IF left = {} THEN {} ELSE {CHOOSE s \in left : \A t \in left : s <= t}
SomeString == SomeStringBut(strings)

\* The list of an item, by the next pointers.
RECURSIVE ListFrom(_, _)
ListFrom(H, x) == IF x = 0 \/ ~ H[x].live THEN <<>> ELSE <<x>> \o ListFrom(H, H[x].next)
Kids(H, a) == ListFrom(H, H[a].child)

\* What hangs on x, the originals of references included.
RECURSIVE Under(_)
Under(x) ==
  {x} \cup (IF items[x].ref THEN Under(original[x])
            ELSE UNION {Under(Kids(items, x)[i]) : i \in DOMAIN Kids(items, x)})
InSomeList(H) == UNION {ToSet(Kids(H, a)) : a \in {b \in Live(H) : ~ H[b].ref}}
Roots(H) == Live(H) \ InSomeList(H)

\* suffix_object
suffix_object(H, p, x) == [H EXCEPT ![p].next = x, ![x].prev = p]

\* The strings of items that are freed: each free of one is counted.
Frees(H, gone) ==
  [s \in Strings |-> Cardinality({x \in gone : ~ H[x].ref /\ H[x].value = s})
                     + Cardinality({x \in gone : ~ H[x].const /\ H[x].name = s})]

\* What cJSON_Delete frees: the item, what follows it, and the children of
\* those that are no references.
RECURSIVE DeletedAll(_, _)
DeletedAll(H, x) ==
  IF x = 0 THEN {}
  ELSE {x} \cup DeletedAll(H, H[x].next) \cup (IF H[x].ref THEN {} ELSE DeletedAll(H, H[x].child))
Deleted(H, x) == DeletedAll(H, x)

\* The heap, the strings and the event after a call. An item whose child is the
\* child of another one must see that item alive and its child unchanged.
Outlived(H, orig) ==
  \E x \in Live(H) : H[x].ref /\ (~ H[orig[x]].live \/ H[orig[x]].child # H[x].child)
Finish(H, strs, orig, event) ==
  /\ items' = H /\ strings' = strs
  /\ original' = [x \in Items |-> IF H[x].live /\ H[x].ref THEN orig[x] ELSE 0]
  /\ jsonEvent' = IF event # "none" THEN event
                  ELSE IF Outlived(H, orig) THEN "reference outlived" ELSE "none"
  /\ UNCHANGED jsonLimit
Plain(H) == Finish(H, strings, original, "none")

cJSON_Delete_from(H, x) ==
  LET gone == Deleted(H, x)
      freed == {s \in Strings : Frees(H, gone)[s] > 0}
      twice == \/ \E s \in Strings : Frees(H, gone)[s] > 1
               \/ ~ freed \subseteq strings \/ \E y \in gone : ~ H[y].live
               \/ \E y \in gone : ~ H[y].const /\ H[y].name = Constant
  IN Finish([y \in Items |-> IF y \in gone THEN Free ELSE H[y]], strings \ freed, original,
            IF twice THEN "freed twice" ELSE "none")

RoomForContainer == Cardinality({x \in Live(items) : items[x].container}) < jsonLimit.containers

\* cJSON_CreateArray, CreateObject; CreateString, and for the types without a
\* string CreateNull, CreateTrue, CreateFalse, CreateBool, CreateNumber.
cJSON_Create(container) ==
  /\ container => RoomForContainer
  /\ \E x \in SomeFree(items) : Plain([items EXCEPT ![x] = New(container)])
cJSON_CreateString ==
  \E x \in SomeFree(items), s \in SomeString :
    Finish([items EXCEPT ![x] = [New(FALSE) EXCEPT !.value = s]], strings \cup {s}, original, "none")

\* The heap with x at the end of the list of a.
AddItemToArray(H, a, x) ==
  IF H[a].child = 0 THEN [H EXCEPT ![a].child = x] ELSE suffix_object(H, Last(Kids(H, a)), x)

\* The item the program may add to a: one it owns that a is not part of.
Addable(a, x) == x \in Roots(items) /\ a \notin Under(x)
Containers == {a \in Live(items) : items[a].container /\ ~ items[a].ref}

cJSON_AddItemToArray(a, x) == Addable(a, x) /\ Plain(AddItemToArray(items, a, x))

\* The old name is freed, be it a constant or not.
cJSON_AddItemToObject(a, x) ==
  /\ Addable(a, x)
  /\ \E s \in SomeString :
       Finish(AddItemToArray([items EXCEPT ![x].name = s], a, x),
              (strings \ {items[x].name}) \cup {s}, original,
              IF items[x].name = Constant THEN "constant freed"
              ELSE IF items[x].const THEN "string lost" ELSE "none")

cJSON_AddItemToObjectCS(a, x) ==
  /\ Addable(a, x)
  /\ Finish(AddItemToArray([items EXCEPT ![x].name = Constant, ![x].const = TRUE], a, x),
            IF items[x].const THEN strings ELSE strings \ {items[x].name}, original, "none")

\* A copy that shares the value and the children of x, without its name.
create_reference(x, r) ==
  [items EXCEPT ![r] = [items[x] EXCEPT !.name = 0, !.ref = TRUE, !.next = 0, !.prev = 0]]

\* The program does not make a list part of itself.
cJSON_AddItemReferenceToArray(a, x) ==
  /\ ~ items[x].ref /\ a \notin Under(x)
  /\ \E r \in SomeFree(items) :
       Finish(AddItemToArray(create_reference(x, r), a, r), strings, [original EXCEPT ![r] = x], "none")

\* A reference to a member with a constant name keeps the flag next to a name of its own.
cJSON_AddItemReferenceToObject(a, x) ==
  /\ ~ items[x].ref /\ a \notin Under(x)
  /\ \E r \in SomeFree(items), s \in SomeString :
       Finish(AddItemToArray([create_reference(x, r) EXCEPT ![r].name = s], a, r), strings \cup {s},
              [original EXCEPT ![r] = x], IF items[x].const THEN "string lost" ELSE "none")

\* The heap with member i of a out of the list.
DetachItem(H, a, i) ==
  LET x == Kids(H, a)[i]
      p == H[x].prev
      n == H[x].next
      H1 == IF p # 0 THEN [H EXCEPT ![p].next = n] ELSE H
      H2 == IF n # 0 THEN [H1 EXCEPT ![n].prev = p] ELSE H1
      H3 == IF x = H[a].child THEN [H2 EXCEPT ![a].child = n] ELSE H2
  IN [H3 EXCEPT ![x].prev = 0, ![x].next = 0]

\* cJSON_DetachItemFromArray and cJSON_DetachItemFromObject.
cJSON_DetachItem(a, i) == Plain(DetachItem(items, a, i))
cJSON_DeleteItem(a, i) == cJSON_Delete_from(DetachItem(items, a, i), Kids(items, a)[i])
cJSON_Delete(x) == x \in Roots(items) /\ cJSON_Delete_from(items, x)

\* MUTANT InsertBefore: the one before does not learn of the new item.
InsertBeforeHalf(H, a, c, x) ==
  LET H1 == [H EXCEPT ![x].next = c, ![x].prev = H[c].prev, ![c].prev = x]
  IN IF c = H[a].child THEN [H1 EXCEPT ![a].child = x] ELSE H1
InsertBefore(H, a, c, x) ==
  LET p == H[c].prev
      H1 == [H EXCEPT ![x].next = c, ![x].prev = p, ![c].prev = x]
  IN IF c = H[a].child THEN [H1 EXCEPT ![a].child = x] ELSE [H1 EXCEPT ![p].next = x]

\* Behind the last item it is an addition, with the name the item has.
cJSON_InsertItemInArray(a, i, x) ==
  /\ Addable(a, x)
  /\ Plain(IF i > Len(Kids(items, a)) THEN AddItemToArray(items, a, x)
           ELSE InsertBefore(items, a, Kids(items, a)[i], x))

\* The heap with x in the place of member i, which is out of the list.
ReplaceItem(H, a, i, x) ==
  LET c == Kids(H, a)[i]
      H1 == [H EXCEPT ![x].next = H[c].next, ![x].prev = H[c].prev]
      H2 == IF H[c].next # 0 THEN [H1 EXCEPT ![H[c].next].prev = x] ELSE H1
      H3 == IF c = H[a].child THEN [H2 EXCEPT ![a].child = x] ELSE [H2 EXCEPT ![H[c].prev].next = x]
  IN [H3 EXCEPT ![c].next = 0, ![c].prev = 0]

cJSON_ReplaceItemInArray(a, i, x) ==
  Addable(a, x) /\ cJSON_Delete_from(ReplaceItem(items, a, i, x), Kids(items, a)[i])

\* The name the new item had is overwritten, not freed; so a new item must have
\* none, and no flag that says it were constant.
cJSON_ReplaceItemInObject(a, i, x) ==
  /\ Addable(a, x)
  /\ \E s \in SomeString :
       LET H == ReplaceItem([items EXCEPT ![x].name = s], a, i, x)
           gone == Deleted(H, Kids(items, a)[i])
       IN Finish([y \in Items |-> IF y \in gone THEN Free ELSE H[y]],
                 (strings \ {t \in Strings : Frees(H, gone)[t] > 0}) \cup {s}, original,
                 IF items[x].name > 0 \/ items[x].const THEN "string lost" ELSE "none")

\* cJSON_Duplicate without the children: value and name are copied, and with
\* them the flag that the name is constant.
cJSON_Duplicate(x) ==
  /\ items[x].container => RoomForContainer
  /\ \E y \in SomeFree(items) :
     \E s \in IF items[x].value # 0 THEN SomeString ELSE {0} :
      \E t \in IF items[x].name # 0 THEN SomeStringBut(strings \cup {s}) ELSE {0} :
        Finish([items EXCEPT ![y] = [New(items[x].container) EXCEPT
                  !.const = items[x].const, !.value = s, !.name = t]],
               strings \cup ({s, t} \ {0}), original,
               IF items[x].name # 0 /\ items[x].const THEN "string lost" ELSE "none")

JsonNext ==
  /\ jsonEvent = "none"
  /\ \/ cJSON_CreateString \/ \E container \in BOOLEAN : cJSON_Create(container)
     \/ \E x \in Live(items) : cJSON_Delete(x) \/ cJSON_Duplicate(x)
     \/ \E a \in Containers, x \in Live(items) :
          \/ cJSON_AddItemToArray(a, x) \/ cJSON_AddItemToObject(a, x) \/ cJSON_AddItemToObjectCS(a, x)
          \/ cJSON_AddItemReferenceToArray(a, x) \/ cJSON_AddItemReferenceToObject(a, x)
          \/ \E i \in 1..(Len(Kids(items, a)) + 1) : cJSON_InsertItemInArray(a, i, x)
          \/ \E i \in DOMAIN Kids(items, a) :
               cJSON_ReplaceItemInArray(a, i, x) \/ cJSON_ReplaceItemInObject(a, i, x)
     \/ \E a \in Containers : \E i \in DOMAIN Kids(items, a) : cJSON_DetachItem(a, i) \/ cJSON_DeleteItem(a, i)

----------------------------------------------------------------------------
\* Every list is doubly linked, and every item is in at most one of them
\* (cJSON.c:666, 677, 684, 686).
ListsLinked ==
  jsonEvent = "none" =>
    /\ \A a \in Live(items) : ~ items[a].ref =>
         LET s == Kids(items, a)
         IN \A i \in DOMAIN s : /\ items[s[i]].prev = (IF i = 1 THEN 0 ELSE s[i - 1])
                                /\ items[s[i]].next = (IF i = Len(s) THEN 0 ELSE s[i + 1])
    /\ \A a, b \in Live(items) : a # b /\ ~ items[a].ref /\ ~ items[b].ref =>
         ToSet(Kids(items, a)) \cap ToSet(Kids(items, b)) = {}
    /\ \A x \in Roots(items) : items[x].next = 0 /\ items[x].prev = 0

\* Whatever calls are combined, no pointer leads to a freed item and each
\* string is freed once and with its item, but for three events (cJSON.c:81):
\* the name of a member added by cJSON_AddItemToObjectCS is freed when it is
\* added again with a name that is not constant (672); a name is lost by
\* cJSON_Duplicate, a reference or cJSON_ReplaceItemInObject (668, 689, 717);
\* a reference outlives its original.
JsonOwnedOnce ==
  /\ jsonEvent \in Known \cup {"none"}
  /\ jsonEvent = "none" =>
       LET owners(s) == {x \in Live(items) : ~ items[x].ref /\ items[x].value = s}
                        \cup {-x : x \in {y \in Live(items) : ~ items[y].const /\ items[y].name = s}}
       IN /\ \A x \in Live(items) : {items[x].child, items[x].next, items[x].prev} \subseteq Live(items) \cup {0}
          /\ \A s \in Strings : Cardinality(owners(s)) = (IF s \in strings THEN 1 ELSE 0)

\* The items stay trees that own their memory, over any sequence of the calls.
JsonTreesSound == ListsLinked /\ JsonOwnedOnce
=============================================================================
