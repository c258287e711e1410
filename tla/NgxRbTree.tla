----------------------------- MODULE NgxRbTree ------------------------------
(***************************************************************************)
(* The tree of code/timer/rbtree.c with the 32-bit keys of timers, taken   *)
(* modulo KeySpan. Where its loops are those of code/tree/rbtree.c line by *)
(* line they are those of RedBlackTree. It differs in three ways: the root *)
(* is told by *root and keeps an old parent, equal keys are inserted, and  *)
(* a deletion moves nodes where the other one copies keys.                 *)
(***************************************************************************)
EXTENDS RedBlackTree

CONSTANT KeySpan     \* the number of values of ngx_rbtree_key_t

\* (ngx_rbtree_key_int_t)(a - b) < 0: a is less than half a turn before b.
Before(a, b) == (a + KeySpan - b) % KeySpan >= KeySpan \div 2

ngx_rbtree_left_rotate(T, x) == Rotate(T, x, "left")
ngx_rbtree_right_rotate(T, x) == Rotate(T, x, "right")
ngx_rbtree_min(T, x) == rbtree_mini(T, x)

\* The node to hang a key on, and the side.
RECURSIVE TimerSlot(_, _, _)
TimerSlot(T, x, k) ==
  LET s == IF Before(k, T.key[x]) THEN "left" ELSE "right"
  IN IF T.kid[s][x] = nil THEN [at |-> x, side |-> s] ELSE TimerSlot(T, T.kid[s][x], k)

ngx_rbtree_insert_timer_value(T, z, k) ==
  LET slot == TimerSlot(T, T.root, k)
  IN [T EXCEPT !.key[z] = k, !.parent[z] = slot.at, !.kid[slot.side][slot.at] = z, !.red = @ \cup {z}]

\* Its loop is the one of rbtree_insert_fixup.
ngx_rbtree_insert(T, z, k) ==
  LET new == [T EXCEPT !.used = @ \cup {z}]
  IN IF T.root = nil THEN [new EXCEPT !.root = z, !.key[z] = k]
     ELSE InsertFixup(ngx_rbtree_insert_timer_value(new, z, k), z)

\* subst takes the place, the children and the colour of node.
Substitute(T, node, subst) ==
  LET l == T.kid["left"][node]
      r == T.kid["right"][node]
      T1 == SetColor([Replace(T, node, subst) EXCEPT !.kid["left"][subst] = l, !.kid["right"][subst] = r,
                        !.parent[subst] = Parent(T, node)], subst, node \in T.red)
      T2 == IF l # nil THEN SetParent(T1, l, subst) ELSE T1
  IN IF r # nil THEN SetParent(T2, r, subst) ELSE T2

\* node->left = node->right = node->parent = NULL, node->key = 0.
Cleared(T, node) ==
  [T EXCEPT !.kid["left"][node] = nil, !.kid["right"][node] = nil, !.parent[node] = nil, !.key[node] = 0,
            !.used = @ \ {node}, !.red = @ \ {node}]

\* Unlinks subst, which is node or the least node behind it, and lets it take
\* the place of node; what is below subst moves up. A root that goes leaves
\* the parent of its child as it is.
Unlink(T, node, subst, temp) ==
  LET T1 == SetKid(T, Parent(T, subst), SideOf(T, subst), temp)
  IN IF subst = node THEN SetParent(T1, temp, Parent(T, subst))
     ELSE Substitute(SetParent(T1, temp, IF Parent(T, subst) = node THEN subst ELSE Parent(T, subst)),
                     node, subst)

\* Its loop is the one of rbtree_delete_fixup.
ngx_delete_fixup(T, x) == DeleteFixup(T, x)

ngx_rbtree_delete(T, node) ==
  LET one == nil \in {T.kid["left"][node], T.kid["right"][node]}
      subst == IF one THEN node ELSE ngx_rbtree_min(T, T.kid["right"][node])
      temp == IF T.kid["left"][subst] # nil THEN T.kid["left"][subst] ELSE T.kid["right"][subst]
      T1 == Cleared(Unlink(T, node, subst, temp), node)
  IN IF subst = T.root THEN SetColor(Cleared([T EXCEPT !.root = temp], node), temp, FALSE)
     ELSE IF subst \in T.red THEN T1
     ELSE ngx_delete_fixup(T1, temp)
=============================================================================
