------------------------ MODULE IntrusiveListProofs -------------------------
(***************************************************************************)
(* What IntrusiveList promises for any entries, lists and iterators: its   *)
(* pointers have their types, and every list and chain of iterators is     *)
(* linked both ways and holds what it should; and, for finitely many       *)
(* entries, that they implement the sequences of IterableList: the initial *)
(* states map to its initial state and every step to one of its steps or a *)
(* stutter.                                                                *)
(***************************************************************************)
EXTENDS IntrusiveList, FiniteSetTheorems, FunctionTheorems, TLAPS
LOCAL LL == INSTANCE ListLemmas

-----------------------------------------------------------------------------
(* Walks: what Reach holds, for any nodes and any successor function *)

(* What is reached lies among the nodes and is closed under the links. *)
LEMMA ReachClosed ==
  ASSUME NEW Node, NEW f \in Node \cup {NULL}, NEW n \in [Node -> Node \cup {NULL}]
  PROVE  /\ Reach(f, n, Node) \subseteq Node
         /\ f # NULL => f \in Reach(f, n, Node)
         /\ \A x \in Reach(f, n, Node) : n[x] # NULL => n[x] \in Reach(f, n, Node)
  BY DEF Reach

(* It lies in every such set. *)
LEMMA ReachLeast ==
  ASSUME NEW Node, NEW f, NEW n, NEW S, S \in SUBSET Node,
         f # NULL => f \in S,
         \A x \in S : n[x] # NULL => n[x] \in S
  PROVE  Reach(f, n, Node) \subseteq S
  BY DEF Reach

(* A walk from nullptr meets nothing. *)
LEMMA ReachNull ==
  ASSUME NEW Node, NEW n
  PROVE  Reach(NULL, n, Node) = {}
<1> DEFINE S == {}
<1>1. /\ S \in SUBSET Node
      /\ \A x \in S : n[x] # NULL => n[x] \in S
  OBVIOUS
<1> HIDE DEF S
<1>2. Reach(NULL, n, Node) \subseteq S
  BY <1>1, ReachLeast
<1> QED
  BY <1>2 DEF S

(* A walk only depends on the links of the nodes it meets. *)
LEMMA ReachFrame ==
  ASSUME NEW Node, NULL \notin Node, NEW f \in Node \cup {NULL},
         NEW n \in [Node -> Node \cup {NULL}], NEW m \in [Node -> Node \cup {NULL}],
         \A x \in Reach(f, n, Node) : m[x] = n[x]
  PROVE  Reach(f, m, Node) = Reach(f, n, Node)
<1> DEFINE R == Reach(f, n, Node)
           Q == Reach(f, m, Node)
<1>1. /\ R \subseteq Node /\ (f # NULL => f \in R)
      /\ \A x \in R : n[x] # NULL => n[x] \in R
  BY ReachClosed
<1>2. /\ Q \subseteq Node /\ (f # NULL => f \in Q)
      /\ \A x \in Q : m[x] # NULL => m[x] \in Q
  BY ReachClosed
<1> HIDE DEF R, Q
<1>3. \A x \in R : m[x] = n[x]
  BY DEF R
<1>4. Reach(f, m, Node) \subseteq R
  BY <1>1, <1>3, ReachLeast
<1>5. Reach(f, n, Node) \subseteq Q \cap R
  <2> DEFINE S == Q \cap R
  <2>1. f # NULL => f \in S
    BY <1>1, <1>2
  <2>2. ASSUME NEW x \in S, n[x] # NULL
        PROVE  n[x] \in S
    BY <1>1, <1>2, <1>3, <2>2
  <2>3. S \in SUBSET Node
    BY <1>1, <1>2
  <2> HIDE DEF S
  <2>4. Reach(f, n, Node) \subseteq S
    BY <2>1, <2>2, <2>3, ReachLeast
  <2> QED
    BY <2>4 DEF S
<1> QED
  BY <1>4, <1>5 DEF R, Q

(* A node pushed in front of a walk is met first, then the others. *)
LEMMA ReachPushFront ==
  ASSUME NEW Node, NULL \notin Node, NEW f \in Node \cup {NULL},
         NEW n \in [Node -> Node \cup {NULL}], NEW m \in [Node -> Node \cup {NULL}],
         NEW e \in Node, e \notin Reach(f, n, Node),
         m[e] = f,
         \A x \in Node \ {e} : m[x] = n[x]
  PROVE  Reach(e, m, Node) = Reach(f, n, Node) \cup {e}
<1> DEFINE R == Reach(f, n, Node)
           Q == Reach(e, m, Node)
<1>1. /\ R \subseteq Node /\ (f # NULL => f \in R)
      /\ \A x \in R : n[x] # NULL => n[x] \in R
  BY ReachClosed
<1>2. /\ Q \subseteq Node /\ (e # NULL => e \in Q)
      /\ \A x \in Q : m[x] # NULL => m[x] \in Q
  BY ReachClosed
<1>3. e \notin R
  OBVIOUS
<1> HIDE DEF R, Q
<1>4. Reach(e, m, Node) \subseteq R \cup {e}
  <2> DEFINE S == R \cup {e}
  <2>1. e # NULL => e \in S
    BY <1>1
  <2>2. ASSUME NEW x \in S, m[x] # NULL
        PROVE  m[x] \in S
    BY <1>1, <1>2, <1>3, <2>2
  <2>3. S \in SUBSET Node
    BY <1>1, <1>2
  <2> HIDE DEF S
  <2>4. Reach(e, m, Node) \subseteq S
    BY <2>1, <2>2, <2>3, ReachLeast
  <2> QED
    BY <2>4 DEF S
<1>5. Reach(f, n, Node) \subseteq Q \cap R
  <2> DEFINE S == Q \cap R
  <2>1. f # NULL => f \in S
    BY <1>1, <1>2
  <2>2. ASSUME NEW x \in S, n[x] # NULL
        PROVE  n[x] \in S
    BY <1>1, <1>2, <1>3, <2>2
  <2>3. S \in SUBSET Node
    BY <1>1, <1>2
  <2> HIDE DEF S
  <2>4. Reach(f, n, Node) \subseteq S
    BY <2>1, <2>2, <2>3, ReachLeast
  <2> QED
    BY <2>4 DEF S
<1> QED
  BY <1>2, <1>4, <1>5 DEF R, Q

(* A node linked in after one the walk meets is met too. *)
LEMMA ReachInsertAfter ==
  ASSUME NEW Node, NULL \notin Node, NEW f \in Node \cup {NULL},
         NEW n \in [Node -> Node \cup {NULL}], NEW m \in [Node -> Node \cup {NULL}],
         NEW e \in Node, e \notin Reach(f, n, Node),
         NEW r \in Node, r \in Reach(f, n, Node),
         m[e] = n[r], m[r] = e,
         \A x \in Node \ {e, r} : m[x] = n[x]
  PROVE  Reach(f, m, Node) = Reach(f, n, Node) \cup {e}
<1> DEFINE R == Reach(f, n, Node)
           Q == Reach(f, m, Node)
<1>1. /\ R \subseteq Node /\ (f # NULL => f \in R)
      /\ \A x \in R : n[x] # NULL => n[x] \in R
  BY ReachClosed
<1>2. /\ Q \subseteq Node /\ (f # NULL => f \in Q)
      /\ \A x \in Q : m[x] # NULL => m[x] \in Q
  BY ReachClosed
<1>3. e \notin R /\ r \in R
  OBVIOUS
<1> HIDE DEF R, Q
<1>4. Reach(f, m, Node) \subseteq R \cup {e}
  <2> DEFINE S == R \cup {e}
  <2>1. f # NULL => f \in S
    BY <1>1
  <2>2. ASSUME NEW x \in S, m[x] # NULL
        PROVE  m[x] \in S
    BY <1>1, <1>2, <1>3, <2>2
  <2>3. S \in SUBSET Node
    BY <1>1, <1>2
  <2> HIDE DEF S
  <2>4. Reach(f, m, Node) \subseteq S
    BY <2>1, <2>2, <2>3, ReachLeast
  <2> QED
    BY <2>4 DEF S
<1>5. Reach(f, n, Node) \subseteq Q \cap R
  <2> DEFINE S == Q \cap R
  <2>1. f # NULL => f \in S
    BY <1>1, <1>2
  <2>2. ASSUME NEW x \in S, n[x] # NULL
        PROVE  n[x] \in S
    <3>1. x \in Node /\ x # e
      BY <1>1, <1>3
    <3>2. CASE x = r
      <4>1. e \in Q
        BY <1>2, <3>2
      <4> QED
        BY <1>1, <1>2, <2>2, <3>2, <4>1
    <3>3. CASE x # r
      BY <1>1, <1>2, <2>2, <3>1, <3>3
    <3> QED
      BY <3>2, <3>3
  <2>3. S \in SUBSET Node
    BY <1>1, <1>2
  <2> HIDE DEF S
  <2>4. Reach(f, n, Node) \subseteq S
    BY <2>1, <2>2, <2>3, ReachLeast
  <2> QED
    BY <2>4 DEF S
<1>6. e \in Q
  BY <1>2, <1>3, <1>5 DEF R
<1> QED
  BY <1>4, <1>5, <1>6 DEF R, Q

(* Unlinking the first node leaves the others. *)
LEMMA ReachRemoveFirst ==
  ASSUME NEW Node, NULL \notin Node,
         NEW n \in [Node -> Node \cup {NULL}], NEW m \in [Node -> Node \cup {NULL}],
         NEW e \in Node,
         \A x \in Node : n[x] # e,
         m[e] = NULL,
         \A x \in Node \ {e} : m[x] = n[x]
  PROVE  Reach(n[e], m, Node) = Reach(e, n, Node) \ {e}
<1> DEFINE R == Reach(e, n, Node)
           Q == Reach(n[e], m, Node)
<1>1. /\ R \subseteq Node /\ e \in R
      /\ \A x \in R : n[x] # NULL => n[x] \in R
  BY ReachClosed
<1>2. /\ Q \subseteq Node /\ (n[e] # NULL => n[e] \in Q)
      /\ \A x \in Q : m[x] # NULL => m[x] \in Q
  BY ReachClosed
<1> HIDE DEF R, Q
<1>3. Reach(n[e], m, Node) \subseteq R \ {e}
  <2> DEFINE S == R \ {e}
  <2>1. n[e] # NULL => n[e] \in S
    BY <1>1
  <2>2. ASSUME NEW x \in S, m[x] # NULL
        PROVE  m[x] \in S
    BY <1>1, <2>2
  <2>3. S \in SUBSET Node
    BY <1>1, <1>2
  <2> HIDE DEF S
  <2>4. Reach(n[e], m, Node) \subseteq S
    BY <2>1, <2>2, <2>3, ReachLeast
  <2> QED
    BY <2>4 DEF S
<1>4. Reach(e, n, Node) \subseteq Q \cup {e}
  <2> DEFINE S == Q \cup {e}
  <2>1. e # NULL => e \in S
    BY <1>2
  <2>2. ASSUME NEW x \in S, n[x] # NULL
        PROVE  n[x] \in S
    BY <1>2, <2>2
  <2>3. S \in SUBSET Node
    BY <1>1, <1>2
  <2> HIDE DEF S
  <2>4. Reach(e, n, Node) \subseteq S
    BY <2>1, <2>2, <2>3, ReachLeast
  <2> QED
    BY <2>4 DEF S
<1> QED
  BY <1>3, <1>4 DEF R, Q

(* The walk from f meets no node that follows itself. *)
LEMMA ReachNoLoop ==
  ASSUME NEW Node, NULL \notin Node, NEW f \in Node \cup {NULL},
         NEW n \in [Node -> Node \cup {NULL}],
         NEW e \in Node, e \in Reach(f, n, Node), f # e,
         \A x \in Node \ {e} : n[x] # e
  PROVE  FALSE
<1> DEFINE R == Reach(f, n, Node)
           S == R \ {e}
<1>1. /\ R \subseteq Node /\ (f # NULL => f \in R)
      /\ \A x \in R : n[x] # NULL => n[x] \in R
  BY ReachClosed
<1> HIDE DEF R
<1>2. \A x \in S : n[x] # NULL => n[x] \in S
  BY <1>1
<1>3. S \in SUBSET Node /\ (f # NULL => f \in S)
  BY <1>1
<1> HIDE DEF S
<1>4. Reach(f, n, Node) \subseteq S
  BY <1>2, <1>3, ReachLeast
<1> QED
  BY <1>4 DEF S

(* Linking a node's predecessor to its successor leaves the others. *)
LEMMA ReachRemoveAfter ==
  ASSUME NEW Node, NULL \notin Node, NEW f \in Node \cup {NULL},
         NEW n \in [Node -> Node \cup {NULL}], NEW m \in [Node -> Node \cup {NULL}],
         NEW e \in Node, e \in Reach(f, n, Node), f # e,
         NEW p \in Node, n[p] = e,
         \A x \in Node : n[x] = e => x = p,
         m[e] = NULL,
         p # e => m[p] = n[e],
         \A x \in Node \ {e, p} : m[x] = n[x]
  PROVE  Reach(f, m, Node) = Reach(f, n, Node) \ {e}
<1> DEFINE R == Reach(f, n, Node)
           Q == Reach(f, m, Node)
<1>1. /\ R \subseteq Node /\ (f # NULL => f \in R)
      /\ \A x \in R : n[x] # NULL => n[x] \in R
  BY ReachClosed
<1>2. /\ Q \subseteq Node /\ (f # NULL => f \in Q)
      /\ \A x \in Q : m[x] # NULL => m[x] \in Q
  BY ReachClosed
<1>3. e \in R /\ e \in Node
  BY <1>1
<1> HIDE DEF R, Q
<1>4. p # e /\ n[e] # e
  <2>1. p = e => \A x \in Node \ {e} : n[x] # e
    OBVIOUS
  <2>2. p # e
    BY <2>1, ReachNoLoop
  <2> QED
    BY <2>2
<1>5. Reach(f, m, Node) \subseteq R \ {e}
  <2> DEFINE S == R \ {e}
  <2>1. f # NULL => f \in S
    BY <1>1
  <2>2. ASSUME NEW x \in S, m[x] # NULL
        PROVE  m[x] \in S
    <3>1. CASE x = p
      BY <1>1, <1>3, <1>4, <2>2, <3>1
    <3>2. CASE x # p
      BY <1>1, <2>2, <3>2
    <3> QED
      BY <3>1, <3>2
  <2>3. S \in SUBSET Node
    BY <1>1, <1>2
  <2> HIDE DEF S
  <2>4. Reach(f, m, Node) \subseteq S
    BY <2>1, <2>2, <2>3, ReachLeast
  <2> QED
    BY <2>4 DEF S
<1>6. p \in Q
  <2>1. SUFFICES ASSUME p \notin Q
                 PROVE  FALSE
    OBVIOUS
  <2>2. e \notin Q
    BY <1>5 DEF Q
  <2>3. \A x \in Q : n[x] # NULL => n[x] \in Q
    BY <1>2, <2>1, <2>2
  <2>4. Reach(f, n, Node) \subseteq Q
    BY <1>2, <2>3, ReachLeast
  <2> QED
    BY <1>3, <2>2, <2>4 DEF R
<1>7. Reach(f, n, Node) \subseteq Q \cup {e}
  <2> DEFINE S == Q \cup {e}
  <2>1. f # NULL => f \in S
    BY <1>2
  <2>2. ASSUME NEW x \in S, n[x] # NULL
        PROVE  n[x] \in S
    <3>1. CASE x = e
      BY <1>2, <1>4, <1>6, <2>2, <3>1
    <3>2. CASE x # e /\ x # p
      BY <1>2, <2>2, <3>2
    <3>3. CASE x = p
      BY <3>3
    <3> QED
      BY <3>1, <3>2, <3>3
  <2>3. S \in SUBSET Node
    BY <1>1, <1>2, <1>3
  <2> HIDE DEF S
  <2>4. Reach(f, n, Node) \subseteq S
    BY <2>1, <2>2, <2>3, ReachLeast
  <2> QED
    BY <2>4 DEF S
<1> QED
  BY <1>5, <1>7 DEF R, Q

-----------------------------------------------------------------------------
(* Doubly linked structures: what a push and an insertion keep *)

(* The types of a structure's fields *)
LinkTypes(Node, fst, prv, nxt, own) ==
  /\ NULL \notin Node /\ NULL \notin List
  /\ fst \in [List -> Node \cup {NULL}]
  /\ prv \in [Node -> Node \cup {NULL}]
  /\ nxt \in [Node -> Node \cup {NULL}]
  /\ own \in [Node -> List \cup {NULL}]

(* A push in front of owner k's nodes (AddFirst; AddLast read backward;
   Register) *)
LEMMA LinkedPushFront ==
  ASSUME NEW Node, NEW fst, NEW fst2,
         NEW prv, NEW prv2, NEW nxt, NEW nxt2, NEW own, NEW own2,
         LinkTypes(Node, fst, prv, nxt, own),
         LinkTypes(Node, fst2, prv2, nxt2, own2),
         Linked(Node, fst, prv, nxt, own),
         NEW k \in List, NEW e \in Node, own[e] = NULL,
         \A l \in List : fst2[l] = IF l = k THEN e ELSE fst[l],
         \A n \in Node : own2[n] = IF n = e THEN k ELSE own[n],
         \A n \in Node : nxt2[n] = IF n = e THEN fst[k] ELSE nxt[n],
         \A n \in Node : prv2[n] = IF n = e THEN NULL
                                   ELSE IF n = fst[k] THEN e ELSE prv[n]
  PROVE  Linked(Node, fst2, prv2, nxt2, own2)
<1> USE DEF LinkTypes
<1>0. /\ NULL \notin Node /\ e \in Node
      /\ nxt \in [Node -> Node \cup {NULL}] /\ nxt2 \in [Node -> Node \cup {NULL}]
  OBVIOUS
<1>1. \A n \in Node : own2[n] = NULL => prv2[n] = NULL /\ nxt2[n] = NULL
  BY DEF Linked
<1>2. \A n \in Node : nxt2[n] # NULL => own2[nxt2[n]] = own2[n] /\ prv2[nxt2[n]] = n
  BY DEF Linked
<1>3. \A n \in Node : prv2[n] # NULL => own2[prv2[n]] = own2[n] /\ nxt2[prv2[n]] = n
  BY DEF Linked
<1>4. \A l \in List : fst2[l] # NULL => own2[fst2[l]] = l /\ prv2[fst2[l]] = NULL
  BY DEF Linked
<1>5. \A n \in Node : own2[n] # NULL /\ prv2[n] = NULL => fst2[own2[n]] = n
  BY DEF Linked
<1>6. ASSUME NEW l \in List
      PROVE  Reach(fst2[l], nxt2, Node) = {n \in Node : own2[n] = l}
  <2>1. Reach(fst[l], nxt, Node) = {n \in Node : own[n] = l}
    BY DEF Linked
  <2>2. PICK f \in Node \cup {NULL} : f = fst[l]
    OBVIOUS
  <2>3. e \notin Reach(f, nxt, Node)
    BY <2>1, <2>2
  <2>4. CASE l = k
    <3>1. /\ nxt2[e] = f
          /\ \A x \in Node \ {e} : nxt2[x] = nxt[x]
      BY <2>2, <2>4
    <3>2. Reach(e, nxt2, Node) = Reach(f, nxt, Node) \cup {e}
      BY ONLY <2>2, <2>3, <3>1, <1>0, ReachPushFront, SMTT(60)
    <3> QED
      BY <2>1, <2>2, <2>4, <3>2
  <2>5. CASE l # k
    <3>1. \A x \in Reach(f, nxt, Node) : nxt2[x] = nxt[x]
      BY <2>1, <2>2, <2>3
    <3>2. Reach(f, nxt2, Node) = Reach(f, nxt, Node)
      BY <3>1, ReachFrame
    <3> QED
      BY <2>1, <2>2, <2>5, <3>2
  <2> QED
    BY <2>4, <2>5
<1> QED
  BY <1>1, <1>2, <1>3, <1>4, <1>5, <1>6 DEF Linked

(* An insertion after a node r of owner k (AddAfter; AddBefore read backward;
   AddLast after the last entry) *)
LEMMA LinkedInsertAfter ==
  ASSUME NEW Node, NEW fst,
         NEW prv, NEW prv2, NEW nxt, NEW nxt2, NEW own, NEW own2,
         LinkTypes(Node, fst, prv, nxt, own),
         LinkTypes(Node, fst, prv2, nxt2, own2),
         Linked(Node, fst, prv, nxt, own),
         NEW k \in List, NEW e \in Node, own[e] = NULL,
         NEW r \in Node, own[r] = k,
         \A n \in Node : own2[n] = IF n = e THEN k ELSE own[n],
         \A n \in Node : nxt2[n] = IF n = e THEN nxt[r]
                                   ELSE IF n = r THEN e ELSE nxt[n],
         \A n \in Node : prv2[n] = IF n = e THEN r
                                   ELSE IF n = nxt[r] THEN e ELSE prv[n]
  PROVE  Linked(Node, fst, prv2, nxt2, own2)
<1> USE DEF LinkTypes
<1>t. /\ NULL \notin Node /\ e \in Node /\ r \in Node
      /\ nxt \in [Node -> Node \cup {NULL}] /\ nxt2 \in [Node -> Node \cup {NULL}]
  OBVIOUS
<1>0. r # e
  OBVIOUS
<1>1. \A n \in Node : own2[n] = NULL => prv2[n] = NULL /\ nxt2[n] = NULL
  BY DEF Linked
<1>2. \A n \in Node : nxt2[n] # NULL => own2[nxt2[n]] = own2[n] /\ prv2[nxt2[n]] = n
  BY <1>0 DEF Linked
<1>3. \A n \in Node : prv2[n] # NULL => own2[prv2[n]] = own2[n] /\ nxt2[prv2[n]] = n
  BY <1>0 DEF Linked
<1>4. \A l \in List : fst[l] # NULL => own2[fst[l]] = l /\ prv2[fst[l]] = NULL
  BY DEF Linked
<1>5. \A n \in Node : own2[n] # NULL /\ prv2[n] = NULL => fst[own2[n]] = n
  BY DEF Linked
<1>6. ASSUME NEW l \in List
      PROVE  Reach(fst[l], nxt2, Node) = {n \in Node : own2[n] = l}
  <2>1. Reach(fst[l], nxt, Node) = {n \in Node : own[n] = l}
    BY DEF Linked
  <2>2. PICK f \in Node \cup {NULL} : f = fst[l]
    OBVIOUS
  <2>3. e \notin Reach(f, nxt, Node)
    BY <2>1, <2>2
  <2>4. CASE l = k
    <3>1. r \in Reach(f, nxt, Node)
      BY <2>1, <2>2, <2>4
    <3>2. /\ nxt2[e] = nxt[r] /\ nxt2[r] = e
          /\ \A x \in Node \ {e, r} : nxt2[x] = nxt[x]
      BY <1>0
    <3>3. Reach(f, nxt2, Node) = Reach(f, nxt, Node) \cup {e}
      BY ONLY <2>2, <2>3, <3>1, <3>2, <1>t, ReachInsertAfter, SMTT(60)
    <3> QED
      BY <2>1, <2>2, <2>4, <3>3
  <2>5. CASE l # k
    <3>1. \A x \in Reach(f, nxt, Node) : nxt2[x] = nxt[x]
      BY <2>1, <2>2, <2>3, <2>5
    <3>2. Reach(f, nxt2, Node) = Reach(f, nxt, Node)
      BY <3>1, ReachFrame
    <3> QED
      BY <2>1, <2>2, <2>5, <3>2
  <2> QED
    BY <2>4, <2>5
<1> QED
  BY <1>1, <1>2, <1>3, <1>4, <1>5, <1>6 DEF Linked

(* No node of a list is its own neighbour. *)
LEMMA LinkedNoLoop ==
  ASSUME NEW Node, NEW fst, NEW prv, NEW nxt, NEW own,
         LinkTypes(Node, fst, prv, nxt, own),
         Linked(Node, fst, prv, nxt, own),
         NEW e \in Node, own[e] # NULL
  PROVE  nxt[e] # e /\ prv[e] # e
<1> USE DEF LinkTypes
<1>1. nxt[e] = e <=> prv[e] = e
  BY DEF Linked
<1>2. ASSUME prv[e] = e
      PROVE  FALSE
  <2>1. PICK f \in Node \cup {NULL} : f = fst[own[e]]
    OBVIOUS
  <2>2. e \in Reach(f, nxt, Node) /\ f # e
    BY <1>2, <2>1 DEF Linked
  <2>3. \A x \in Node \ {e} : nxt[x] # e
    BY <1>2 DEF Linked
  <2>4. NULL \notin Node /\ nxt \in [Node -> Node \cup {NULL}]
    OBVIOUS
  <2> QED
    BY ONLY e \in Node, <2>1, <2>2, <2>3, <2>4, ReachNoLoop
<1> QED
  BY <1>1, <1>2

(* Unlinking a node (Remove in both directions; Unregister) *)
LEMMA LinkedUnlink ==
  ASSUME NEW Node, NEW fst, NEW fst2,
         NEW prv, NEW prv2, NEW nxt, NEW nxt2, NEW own, NEW own2,
         LinkTypes(Node, fst, prv, nxt, own),
         LinkTypes(Node, fst2, prv2, nxt2, own2),
         Linked(Node, fst, prv, nxt, own),
         NEW k \in List, NEW e \in Node, own[e] = k,
         \A l \in List : fst2[l] = IF l = k /\ fst[l] = e THEN nxt[e] ELSE fst[l],
         \A n \in Node : own2[n] = IF n = e THEN NULL ELSE own[n],
         \A n \in Node : nxt2[n] = IF n = e THEN NULL
                                   ELSE IF n = prv[e] THEN nxt[e] ELSE nxt[n],
         \A n \in Node : prv2[n] = IF n = e THEN NULL
                                   ELSE IF n = nxt[e] THEN prv[e] ELSE prv[n]
  PROVE  Linked(Node, fst2, prv2, nxt2, own2)
<1> USE DEF LinkTypes
<1>t. /\ NULL \notin Node /\ e \in Node
      /\ nxt \in [Node -> Node \cup {NULL}] /\ nxt2 \in [Node -> Node \cup {NULL}]
  OBVIOUS
<1>0. nxt[e] # e /\ prv[e] # e
  BY LinkedNoLoop
<1>1. \A n \in Node : own2[n] = NULL => prv2[n] = NULL /\ nxt2[n] = NULL
  BY DEF Linked
<1>2. \A n \in Node : nxt2[n] # NULL => own2[nxt2[n]] = own2[n] /\ prv2[nxt2[n]] = n
  BY <1>0 DEF Linked
<1>3. \A n \in Node : prv2[n] # NULL => own2[prv2[n]] = own2[n] /\ nxt2[prv2[n]] = n
  BY <1>0 DEF Linked
<1>4. \A l \in List : fst2[l] # NULL => own2[fst2[l]] = l /\ prv2[fst2[l]] = NULL
  BY <1>0 DEF Linked
<1>5. \A n \in Node : own2[n] # NULL /\ prv2[n] = NULL => fst2[own2[n]] = n
  BY <1>0 DEF Linked
<1>6. ASSUME NEW l \in List
      PROVE  Reach(fst2[l], nxt2, Node) = {n \in Node : own2[n] = l}
  <2>1. Reach(fst[l], nxt, Node) = {n \in Node : own[n] = l}
    BY DEF Linked
  <2>2. PICK f \in Node \cup {NULL} : f = fst[l]
    OBVIOUS
  <2>3. CASE l # k
    <3>1. \A x \in Reach(f, nxt, Node) : nxt2[x] = nxt[x]
      BY <2>1, <2>2, <2>3 DEF Linked
    <3>2. Reach(f, nxt2, Node) = Reach(f, nxt, Node)
      BY <3>1, ReachFrame
    <3> QED
      BY <2>1, <2>2, <2>3, <3>2
  <2>4. CASE l = k /\ prv[e] = NULL
    <3>1. fst[l] = e /\ fst2[l] = nxt[e]
      BY <2>4 DEF Linked
    <3>2. /\ \A x \in Node : nxt[x] # e
          /\ nxt2[e] = NULL
          /\ \A x \in Node \ {e} : nxt2[x] = nxt[x]
      BY <2>4 DEF Linked
    <3>3. Reach(nxt[e], nxt2, Node) = Reach(e, nxt, Node) \ {e}
      BY ONLY <1>t, <3>2, ReachRemoveFirst, SMTT(60)
    <3> QED
      BY <2>1, <2>4, <3>1, <3>3
  <2>5. CASE l = k /\ prv[e] # NULL
    <3>1. PICK p \in Node : p = prv[e]
      BY <2>5
    <3>2. /\ e \in Reach(f, nxt, Node)
          /\ f # e
          /\ fst2[l] = f
      BY <2>1, <2>2, <2>5 DEF Linked
    <3>3. /\ nxt[p] = e
          /\ \A x \in Node : nxt[x] = e => x = p
          /\ nxt2[e] = NULL
          /\ p # e => nxt2[p] = nxt[e]
          /\ \A x \in Node \ {e, p} : nxt2[x] = nxt[x]
      BY <2>5, <3>1 DEF Linked
    <3>4. Reach(f, nxt2, Node) = Reach(f, nxt, Node) \ {e}
      BY ONLY <1>t, <2>2, <3>1, <3>2, <3>3, ReachRemoveAfter, SMTT(60)
    <3> QED
      BY <2>1, <2>2, <2>5, <3>2, <3>4
  <2> QED
    BY <2>3, <2>4, <2>5
<1> QED
  BY <1>1, <1>2, <1>3, <1>4, <1>5, <1>6 DEF Linked

(* Unlinking every node of owner k at once (RemoveAll, the list's destructor) *)
LEMMA LinkedClear ==
  ASSUME NEW Node, NEW fst, NEW fst2,
         NEW prv, NEW prv2, NEW nxt, NEW nxt2, NEW own, NEW own2,
         LinkTypes(Node, fst, prv, nxt, own),
         LinkTypes(Node, fst2, prv2, nxt2, own2),
         Linked(Node, fst, prv, nxt, own),
         NEW k \in List,
         \A l \in List : fst2[l] = IF l = k THEN NULL ELSE fst[l],
         \A n \in Node : own2[n] = IF own[n] = k THEN NULL ELSE own[n],
         \A n \in Node : nxt2[n] = IF own[n] = k THEN NULL ELSE nxt[n],
         \A n \in Node : prv2[n] = IF own[n] = k THEN NULL ELSE prv[n]
  PROVE  Linked(Node, fst2, prv2, nxt2, own2)
<1> USE DEF LinkTypes
<1>1. \A n \in Node : own2[n] = NULL => prv2[n] = NULL /\ nxt2[n] = NULL
  BY DEF Linked
<1>2. \A n \in Node : nxt2[n] # NULL => own2[nxt2[n]] = own2[n] /\ prv2[nxt2[n]] = n
  BY DEF Linked
<1>3. \A n \in Node : prv2[n] # NULL => own2[prv2[n]] = own2[n] /\ nxt2[prv2[n]] = n
  BY DEF Linked
<1>4. \A l \in List : fst2[l] # NULL => own2[fst2[l]] = l /\ prv2[fst2[l]] = NULL
  BY DEF Linked
<1>5. \A n \in Node : own2[n] # NULL /\ prv2[n] = NULL => fst2[own2[n]] = n
  BY DEF Linked
<1>6. ASSUME NEW l \in List
      PROVE  Reach(fst2[l], nxt2, Node) = {n \in Node : own2[n] = l}
  <2>1. Reach(fst[l], nxt, Node) = {n \in Node : own[n] = l}
    BY DEF Linked
  <2>2. CASE l = k
    <3>1. Reach(NULL, nxt2, Node) = {}
      BY ReachNull
    <3> QED
      BY <2>2, <3>1
  <2>3. CASE l # k
    <3>1. PICK f \in Node \cup {NULL} : f = fst[l]
      OBVIOUS
    <3>2. \A x \in Reach(f, nxt, Node) : nxt2[x] = nxt[x]
      BY <2>1, <2>3, <3>1
    <3>3. Reach(f, nxt2, Node) = Reach(f, nxt, Node)
      BY <3>2, ReachFrame
    <3> QED
      BY <2>1, <2>3, <3>1, <3>3
  <2> QED
    BY <2>2, <2>3
<1> QED
  BY <1>1, <1>2, <1>3, <1>4, <1>5, <1>6 DEF Linked

(* A push at the end of owner k's nodes (AddLast; AddFirst read backward) *)
LEMMA LinkedPushBack ==
  ASSUME NEW Node, NEW fst, NEW fst2, NEW lst,
         NEW prv, NEW prv2, NEW nxt, NEW nxt2, NEW own, NEW own2,
         LinkTypes(Node, fst, prv, nxt, own),
         LinkTypes(Node, fst2, prv2, nxt2, own2),
         LinkTypes(Node, lst, nxt, prv, own),
         Linked(Node, fst, prv, nxt, own),
         Linked(Node, lst, nxt, prv, own),
         NEW k \in List, NEW e \in Node, own[e] = NULL,
         \A l \in List : fst2[l] = IF l = k /\ fst[l] = NULL THEN e ELSE fst[l],
         \A n \in Node : own2[n] = IF n = e THEN k ELSE own[n],
         \A n \in Node : nxt2[n] = IF n = e THEN NULL
                                   ELSE IF n = lst[k] THEN e ELSE nxt[n],
         \A n \in Node : prv2[n] = IF n = e THEN lst[k] ELSE prv[n]
  PROVE  Linked(Node, fst2, prv2, nxt2, own2)
<1>1. lst[k] = NULL <=> fst[k] = NULL
  <2>1. /\ lst[k] # NULL => lst[k] \in Reach(fst[k], nxt, Node)
        /\ fst[k] # NULL => fst[k] \in Reach(lst[k], prv, Node)
    BY DEF Linked, LinkTypes
  <2>2. Reach(NULL, nxt, Node) = {} /\ Reach(NULL, prv, Node) = {}
    BY ReachNull
  <2> QED
    BY <2>1, <2>2
<1>2. CASE fst[k] = NULL
  <2>1. /\ \A l \in List : fst2[l] = IF l = k THEN e ELSE fst[l]
        /\ \A n \in Node : nxt2[n] = IF n = e THEN fst[k] ELSE nxt[n]
        /\ \A n \in Node : prv2[n] = IF n = e THEN NULL
                                      ELSE IF n = fst[k] THEN e ELSE prv[n]
    BY <1>1, <1>2 DEF LinkTypes
  <2> QED
    BY <2>1, LinkedPushFront
<1>3. CASE fst[k] # NULL
  <2>1. PICK r \in Node : r = lst[k]
    BY <1>1, <1>3 DEF LinkTypes
  <2>2. own[r] = k /\ nxt[r] = NULL
    BY <2>1 DEF Linked, LinkTypes
  <2>3. fst2 = fst /\ LinkTypes(Node, fst, prv2, nxt2, own2)
    BY <1>3 DEF LinkTypes
  <2>4. /\ \A n \in Node : nxt2[n] = IF n = e THEN nxt[r]
                                      ELSE IF n = r THEN e ELSE nxt[n]
        /\ \A n \in Node : prv2[n] = IF n = e THEN r
                                      ELSE IF n = nxt[r] THEN e ELSE prv[n]
    BY <2>1, <2>2 DEF LinkTypes
  <2>5. Linked(Node, fst, prv2, nxt2, own2)
    BY <2>2, <2>3, <2>4, LinkedInsertAfter
  <2> QED
    BY <2>3, <2>5
<1> QED
  BY <1>2, <1>3

(* An insertion before a node r of owner k (AddBefore; AddAfter read backward) *)
LEMMA LinkedInsertBefore ==
  ASSUME NEW Node, NEW fst, NEW fst2,
         NEW prv, NEW prv2, NEW nxt, NEW nxt2, NEW own, NEW own2,
         LinkTypes(Node, fst, prv, nxt, own),
         LinkTypes(Node, fst2, prv2, nxt2, own2),
         Linked(Node, fst, prv, nxt, own),
         NEW k \in List, NEW e \in Node, own[e] = NULL,
         NEW r \in Node, own[r] = k,
         \A l \in List : fst2[l] = IF l = k /\ prv[r] = NULL THEN e ELSE fst[l],
         \A n \in Node : own2[n] = IF n = e THEN k ELSE own[n],
         \A n \in Node : nxt2[n] = IF n = e THEN r
                                   ELSE IF n = prv[r] THEN e ELSE nxt[n],
         \A n \in Node : prv2[n] = IF n = e THEN prv[r]
                                   ELSE IF n = r THEN e ELSE prv[n]
  PROVE  Linked(Node, fst2, prv2, nxt2, own2)
<1>1. CASE prv[r] = NULL
  <2>1. fst[k] = r
    BY <1>1 DEF Linked, LinkTypes
  <2>2. /\ \A l \in List : fst2[l] = IF l = k THEN e ELSE fst[l]
        /\ \A n \in Node : nxt2[n] = IF n = e THEN fst[k] ELSE nxt[n]
        /\ \A n \in Node : prv2[n] = IF n = e THEN NULL
                                      ELSE IF n = fst[k] THEN e ELSE prv[n]
    BY <1>1, <2>1 DEF LinkTypes
  <2> QED
    BY <2>2, LinkedPushFront
<1>2. CASE prv[r] # NULL
  <2>1. PICK p \in Node : p = prv[r]
    BY <1>2 DEF LinkTypes
  <2>2. own[p] = k /\ nxt[p] = r
    BY <2>1 DEF Linked, LinkTypes
  <2>3. fst2 = fst /\ LinkTypes(Node, fst, prv2, nxt2, own2)
    BY <1>2 DEF LinkTypes
  <2>4. /\ \A n \in Node : nxt2[n] = IF n = e THEN nxt[p]
                                      ELSE IF n = p THEN e ELSE nxt[n]
        /\ \A n \in Node : prv2[n] = IF n = e THEN p
                                      ELSE IF n = nxt[p] THEN e ELSE prv[n]
    BY <2>1, <2>2 DEF LinkTypes
  <2>5. Linked(Node, fst, prv2, nxt2, own2)
    BY <2>2, <2>3, <2>4, LinkedInsertAfter
  <2> QED
    BY <2>3, <2>5
<1> QED
  BY <1>1, <1>2

-----------------------------------------------------------------------------
(* The theorems *)

(* Every operation writes pointers of the fields' types. *)
LEMMA TypeStep == TypeOK /\ [Next]_vars => TypeOK'
<1> SUFFICES ASSUME TypeOK, [Next]_vars PROVE TypeOK'
  OBVIOUS
<1> USE DEF TypeOK
<1>1. ASSUME NEW l \in List, NEW e \in Entry, AddFirst(l, e) PROVE TypeOK'
  BY <1>1 DEF AddFirst, Added, Assign, chainVars
<1>2. ASSUME NEW l \in List, NEW e \in Entry, AddLast(l, e) PROVE TypeOK'
  BY <1>2 DEF AddLast, Added, Assign, chainVars
<1>3. ASSUME NEW l \in List, NEW e \in Entry, NEW r \in Entry, AddBefore(l, e, r)
      PROVE TypeOK'
  BY <1>3 DEF AddBefore, Added, Assign, chainVars
<1>4. ASSUME NEW l \in List, NEW e \in Entry, NEW r \in Entry, AddAfter(l, e, r)
      PROVE TypeOK'
  BY <1>4 DEF AddAfter, Added, Assign, chainVars
<1>5. ASSUME NEW l \in List, NEW e \in Entry, Remove(l, e) PROVE TypeOK'
  BY <1>5 DEF Remove, Step, Assign, chainVars
<1>6. ASSUME NEW l \in List, RemoveAll(l) PROVE TypeOK'
  BY <1>6 DEF RemoveAll, ClearEntries, chainVars
<1>7. ASSUME NEW l \in List, DestroyList(l) PROVE TypeOK'
  BY <1>7 DEF DestroyList, ClearEntries
<1>8. ASSUME NEW it \in Iter, NEW l \in List, NEW start \in Entry \cup {NULL},
             NEW forward \in BOOLEAN, Iterate(it, l, start, forward)
      PROVE TypeOK'
  BY <1>8 DEF Iterate, Register, Assign, entryVars
<1>9. ASSUME NEW it \in Iter, NEW source \in Iter, Copy(it, source) PROVE TypeOK'
  <2>1. /\ list_[source] \in List
        /\ UnlinkedPrev(it) \in [Iter -> Iter \cup {NULL}]
        /\ UnlinkedNext(it) \in [Iter -> Iter \cup {NULL}]
        /\ UnlinkedFirst(it) \in [List -> Iter \cup {NULL}]
    BY <1>9 DEF Copy, UnlinkedPrev, UnlinkedNext, UnlinkedFirst, Assign
  <2> QED
    BY <1>9, <2>1, ZenonT(60) DEF Copy, Register, Assign, entryVars, chainVars
<1>10. ASSUME NEW it \in Iter, DestroyIter(it) PROVE TypeOK'
  BY <1>10 DEF DestroyIter, UnlinkedPrev, UnlinkedNext, UnlinkedFirst, Assign, entryVars
<1>11. ASSUME NEW it \in Iter, Reset(it) PROVE TypeOK'
  BY <1>11 DEF Reset, entryVars, chainVars
<1>12. ASSUME NEW it \in Iter, GetAndStep(it) PROVE TypeOK'
  BY <1>12 DEF GetAndStep, Step, entryVars, chainVars
<1>13. CASE UNCHANGED vars
  BY <1>13 DEF vars, entryVars, chainVars
<1> HIDE DEF TypeOK
<1> QED
  BY <1>1, <1>2, <1>3, <1>4, <1>5, <1>6, <1>7, <1>8, <1>9, <1>10, <1>11, <1>12, <1>13
     DEF Next, ListOp, IterOp

(* Every field of entries, lists and iterators always holds a pointer of its
   type, whatever the callers do. *)
THEOREM TypeCorrect == Spec => []TypeOK
<1>1. Init => TypeOK
  BY DEF Init, TypeOK
<1> QED
  BY <1>1, TypeStep, PTL DEF Spec

-----------------------------------------------------------------------------
(* The inductive invariant: the types and the three properties together.
   Remove is what ties them: it steps the iterators it finds by walking the
   chain, so that none is left at the entry needs the chain to be complete,
   and that they stand in the list after the step needs the entry's links. *)
IInv == TypeOK /\ EntriesLinked /\ IteratorsLinked /\ IteratorsOnList

(* The two readings of the entries and the chain have the types the lemmas
   on linked structures ask for. *)
LEMMA TypesOfLinks ==
  TypeOK => /\ LinkTypes(Entry, first, prev, next, linklist)
            /\ LinkTypes(Entry, last, next, prev, linklist)
            /\ LinkTypes(Iter, first_iterator, prev_iterator_, next_iterator_, list_)
  BY NullAssumption DEF TypeOK, LinkTypes

(* AddFirst keeps the links of every list. *)
LEMMA AddFirstKeepsEntries ==
  ASSUME TypeOK, TypeOK', EntriesLinked, NEW l \in List, NEW e \in Entry, AddFirst(l, e)
  PROVE  EntriesLinked'
<1>1. /\ LinkTypes(Entry, first, prev, next, linklist)
      /\ LinkTypes(Entry, last, next, prev, linklist)
  BY TypesOfLinks
<1>2. /\ LinkTypes(Entry, first', prev', next', linklist')
      /\ LinkTypes(Entry, last', next', prev', linklist')
  BY NullAssumption DEF TypeOK, LinkTypes
<1>3. /\ linklist[e] = NULL
      /\ \A k \in List : first'[k] = IF k = l THEN e ELSE first[k]
      /\ \A k \in List : last'[k] = IF k = l /\ last[k] = NULL THEN e ELSE last[k]
      /\ \A n \in Entry : linklist'[n] = IF n = e THEN l ELSE linklist[n]
      /\ \A n \in Entry : next'[n] = IF n = e THEN first[l] ELSE next[n]
      /\ \A n \in Entry : prev'[n] = IF n = e THEN NULL
                                     ELSE IF n = first[l] THEN e ELSE prev[n]
  BY NullAssumption DEF AddFirst, Added, Assign, TypeOK, EntriesLinked, Linked
<1>4. Linked(Entry, first', prev', next', linklist')
  BY ONLY <1>1, <1>2, <1>3, EntriesLinked, l \in List, e \in Entry, LinkedPushFront
     DEF EntriesLinked
<1>5. Linked(Entry, last', next', prev', linklist')
  BY ONLY <1>1, <1>2, <1>3, EntriesLinked, l \in List, e \in Entry, LinkedPushBack
     DEF EntriesLinked
<1> QED
  BY <1>4, <1>5 DEF EntriesLinked

(* So does AddLast, *)
LEMMA AddLastKeepsEntries ==
  ASSUME TypeOK, TypeOK', EntriesLinked, NEW l \in List, NEW e \in Entry,
         AddLast(l, e)
  PROVE  EntriesLinked'
<1>1. /\ LinkTypes(Entry, first, prev, next, linklist)
      /\ LinkTypes(Entry, last, next, prev, linklist)
  BY TypesOfLinks
<1>2. /\ LinkTypes(Entry, first', prev', next', linklist')
      /\ LinkTypes(Entry, last', next', prev', linklist')
  BY NullAssumption DEF TypeOK, LinkTypes
<1>3. /\ linklist[e] = NULL
      /\ \A k \in List : last'[k] = IF k = l THEN e ELSE last[k]
      /\ \A k \in List : first'[k] = IF k = l /\ first[k] = NULL THEN e ELSE first[k]
      /\ \A n \in Entry : linklist'[n] = IF n = e THEN l ELSE linklist[n]
      /\ \A n \in Entry : prev'[n] = IF n = e THEN last[l] ELSE prev[n]
      /\ \A n \in Entry : next'[n] = IF n = e THEN NULL
                                     ELSE IF n = last[l] THEN e ELSE next[n]
  BY NullAssumption DEF AddLast, Added, Assign, TypeOK, EntriesLinked, Linked
<1>4. Linked(Entry, first', prev', next', linklist')
  BY ONLY <1>1, <1>2, <1>3, EntriesLinked, l \in List, e \in Entry, LinkedPushBack
     DEF EntriesLinked
<1>5. Linked(Entry, last', next', prev', linklist')
  BY ONLY <1>1, <1>2, <1>3, EntriesLinked, l \in List, e \in Entry, LinkedPushFront
     DEF EntriesLinked
<1> QED
  BY <1>4, <1>5 DEF EntriesLinked

(* AddBefore, *)
LEMMA AddBeforeKeepsEntries ==
  ASSUME TypeOK, TypeOK', EntriesLinked, NEW l \in List, NEW e \in Entry, NEW r \in Entry,
         AddBefore(l, e, r)
  PROVE  EntriesLinked'
<1>1. /\ LinkTypes(Entry, first, prev, next, linklist)
      /\ LinkTypes(Entry, last, next, prev, linklist)
  BY TypesOfLinks
<1>2. /\ LinkTypes(Entry, first', prev', next', linklist')
      /\ LinkTypes(Entry, last', next', prev', linklist')
  BY NullAssumption DEF TypeOK, LinkTypes
<1>3. /\ linklist[e] = NULL /\ linklist[r] = l
      /\ \A k \in List : first'[k] = IF k = l /\ prev[r] = NULL THEN e ELSE first[k]
      /\ last' = last
      /\ \A n \in Entry : linklist'[n] = IF n = e THEN l ELSE linklist[n]
      /\ \A n \in Entry : next'[n] = IF n = e THEN r
                                     ELSE IF n = prev[r] THEN e ELSE next[n]
      /\ \A n \in Entry : prev'[n] = IF n = e THEN prev[r]
                                     ELSE IF n = r THEN e ELSE prev[n]
  BY NullAssumption DEF AddBefore, Added, Assign, TypeOK, EntriesLinked, Linked
<1>4. Linked(Entry, first', prev', next', linklist')
  BY ONLY <1>1, <1>2, <1>3, EntriesLinked, l \in List, e \in Entry, r \in Entry, LinkedInsertBefore
     DEF EntriesLinked
<1>5. Linked(Entry, last', next', prev', linklist')
  BY ONLY <1>1, <1>2, <1>3, EntriesLinked, l \in List, e \in Entry, r \in Entry, LinkedInsertAfter
     DEF EntriesLinked
<1> QED
  BY <1>4, <1>5 DEF EntriesLinked

(* AddAfter, *)
LEMMA AddAfterKeepsEntries ==
  ASSUME TypeOK, TypeOK', EntriesLinked, NEW l \in List, NEW e \in Entry, NEW r \in Entry,
         AddAfter(l, e, r)
  PROVE  EntriesLinked'
<1>1. /\ LinkTypes(Entry, first, prev, next, linklist)
      /\ LinkTypes(Entry, last, next, prev, linklist)
  BY TypesOfLinks
<1>2. /\ LinkTypes(Entry, first', prev', next', linklist')
      /\ LinkTypes(Entry, last', next', prev', linklist')
  BY NullAssumption DEF TypeOK, LinkTypes
<1>3. /\ linklist[e] = NULL /\ linklist[r] = l
      /\ \A k \in List : last'[k] = IF k = l /\ next[r] = NULL THEN e ELSE last[k]
      /\ first' = first
      /\ \A n \in Entry : linklist'[n] = IF n = e THEN l ELSE linklist[n]
      /\ \A n \in Entry : prev'[n] = IF n = e THEN r
                                     ELSE IF n = next[r] THEN e ELSE prev[n]
      /\ \A n \in Entry : next'[n] = IF n = e THEN next[r]
                                     ELSE IF n = r THEN e ELSE next[n]
  BY NullAssumption DEF AddAfter, Added, Assign, TypeOK, EntriesLinked, Linked
<1>4. Linked(Entry, first', prev', next', linklist')
  BY ONLY <1>1, <1>2, <1>3, EntriesLinked, l \in List, e \in Entry, r \in Entry, LinkedInsertAfter
     DEF EntriesLinked
<1>5. Linked(Entry, last', next', prev', linklist')
  BY ONLY <1>1, <1>2, <1>3, EntriesLinked, l \in List, e \in Entry, r \in Entry, LinkedInsertBefore
     DEF EntriesLinked
<1> QED
  BY <1>4, <1>5 DEF EntriesLinked

(* Remove, *)
LEMMA RemoveKeepsEntries ==
  ASSUME TypeOK, TypeOK', EntriesLinked, NEW l \in List, NEW e \in Entry,
         Remove(l, e)
  PROVE  EntriesLinked'
<1>1. /\ LinkTypes(Entry, first, prev, next, linklist)
      /\ LinkTypes(Entry, last, next, prev, linklist)
  BY TypesOfLinks
<1>2. /\ LinkTypes(Entry, first', prev', next', linklist')
      /\ LinkTypes(Entry, last', next', prev', linklist')
  BY NullAssumption DEF TypeOK, LinkTypes
<1>3. /\ linklist[e] = l
      /\ \A k \in List : first'[k] = IF k = l /\ first[k] = e THEN next[e] ELSE first[k]
      /\ \A k \in List : last'[k] = IF k = l /\ last[k] = e THEN prev[e] ELSE last[k]
      /\ \A n \in Entry : linklist'[n] = IF n = e THEN NULL ELSE linklist[n]
      /\ \A n \in Entry : next'[n] = IF n = e THEN NULL
                                     ELSE IF n = prev[e] THEN next[e] ELSE next[n]
      /\ \A n \in Entry : prev'[n] = IF n = e THEN NULL
                                     ELSE IF n = next[e] THEN prev[e] ELSE prev[n]
  BY NullAssumption DEF Remove, Assign, TypeOK, EntriesLinked, Linked
<1>4. Linked(Entry, first', prev', next', linklist')
  BY ONLY <1>1, <1>2, <1>3, EntriesLinked, l \in List, e \in Entry, LinkedUnlink
     DEF EntriesLinked
<1>5. Linked(Entry, last', next', prev', linklist')
  BY ONLY <1>1, <1>2, <1>3, EntriesLinked, l \in List, e \in Entry, LinkedUnlink
     DEF EntriesLinked
<1> QED
  BY <1>4, <1>5 DEF EntriesLinked

(* and RemoveAll, which leaves none. *)
LEMMA ClearKeepsEntries ==
  ASSUME TypeOK, TypeOK', EntriesLinked, NEW l \in List,
         ClearEntries(l)
  PROVE  EntriesLinked'
<1>1. /\ LinkTypes(Entry, first, prev, next, linklist)
      /\ LinkTypes(Entry, last, next, prev, linklist)
  BY TypesOfLinks
<1>2. /\ LinkTypes(Entry, first', prev', next', linklist')
      /\ LinkTypes(Entry, last', next', prev', linklist')
  BY NullAssumption DEF TypeOK, LinkTypes
<1>3. /\ \A k \in List : first'[k] = IF k = l THEN NULL ELSE first[k]
      /\ \A k \in List : last'[k] = IF k = l THEN NULL ELSE last[k]
      /\ \A n \in Entry : linklist'[n] = IF linklist[n] = l THEN NULL ELSE linklist[n]
      /\ \A n \in Entry : next'[n] = IF linklist[n] = l THEN NULL ELSE next[n]
      /\ \A n \in Entry : prev'[n] = IF linklist[n] = l THEN NULL ELSE prev[n]
  BY NullAssumption DEF ClearEntries, TypeOK, EntriesLinked, Linked
<1>4. Linked(Entry, first', prev', next', linklist')
  BY ONLY <1>1, <1>2, <1>3, EntriesLinked, l \in List, LinkedClear
     DEF EntriesLinked
<1>5. Linked(Entry, last', next', prev', linklist')
  BY ONLY <1>1, <1>2, <1>3, EntriesLinked, l \in List, LinkedClear
     DEF EntriesLinked
<1> QED
  BY <1>4, <1>5 DEF EntriesLinked

(* Register, for an iterator that is on no chain *)
LEMMA RegisterKeepsChains ==
  ASSUME TypeOK, TypeOK', IteratorsLinked, NEW it \in Iter, NEW l \in List,
         list_[it] = NULL, Register(it, l)
  PROVE  IteratorsLinked'
<1>1. LinkTypes(Iter, first_iterator, prev_iterator_, next_iterator_, list_)
  BY TypesOfLinks
<1>2. LinkTypes(Iter, first_iterator', prev_iterator_', next_iterator_', list_')
  BY NullAssumption DEF TypeOK, LinkTypes
<1>3. /\ list_[it] = NULL
      /\ \A k \in List : first_iterator'[k] = IF k = l THEN it ELSE first_iterator[k]
      /\ \A n \in Iter : list_'[n] = IF n = it THEN l ELSE list_[n]
      /\ \A n \in Iter : next_iterator_'[n] =
           IF n = it THEN first_iterator[l] ELSE next_iterator_[n]
      /\ \A n \in Iter : prev_iterator_'[n] =
           IF n = it THEN NULL
           ELSE IF n = first_iterator[l] THEN it ELSE prev_iterator_[n]
  BY NullAssumption DEF Register, Assign, TypeOK, IteratorsLinked, Linked
<1> QED
  BY ONLY <1>1, <1>2, <1>3, IteratorsLinked, l \in List, it \in Iter, LinkedPushFront
     DEF IteratorsLinked

(* The chain without an iterator that was on it, as Unregister leaves it *)
LEMMA UnregisterKeepsChains ==
  ASSUME TypeOK, IteratorsLinked, NEW it \in Iter, list_[it] # NULL,
         NEW pi, pi = [UnlinkedPrev(it) EXCEPT ![it] = NULL],
         NEW ni, ni = [UnlinkedNext(it) EXCEPT ![it] = NULL],
         NEW ow, ow = [list_ EXCEPT ![it] = NULL],
         NEW fi, fi = UnlinkedFirst(it)
  PROVE  LinkTypes(Iter, fi, pi, ni, ow) /\ Linked(Iter, fi, pi, ni, ow)
<1>1. LinkTypes(Iter, first_iterator, prev_iterator_, next_iterator_, list_)
  BY TypesOfLinks
<1>2. LinkTypes(Iter, fi, pi, ni, ow)
  BY NullAssumption
     DEF TypeOK, LinkTypes, UnlinkedPrev, UnlinkedNext, UnlinkedFirst, Assign
<1>3. PICK l \in List : l = list_[it]
  BY DEF TypeOK
<1>4. /\ list_[it] = l
      /\ \A k \in List : fi[k] = IF k = l /\ first_iterator[k] = it
                                  THEN next_iterator_[it] ELSE first_iterator[k]
      /\ \A n \in Iter : ow[n] = IF n = it THEN NULL ELSE list_[n]
      /\ \A n \in Iter : ni[n] =
           IF n = it THEN NULL
           ELSE IF n = prev_iterator_[it] THEN next_iterator_[it] ELSE next_iterator_[n]
      /\ \A n \in Iter : pi[n] =
           IF n = it THEN NULL
           ELSE IF n = next_iterator_[it] THEN prev_iterator_[it] ELSE prev_iterator_[n]
  BY <1>3, NullAssumption DEF TypeOK, UnlinkedPrev, UnlinkedNext, UnlinkedFirst, Assign
<1>5. Linked(Iter, fi, pi, ni, ow)
  BY ONLY <1>1, <1>2, <1>3, <1>4, IteratorsLinked, it \in Iter, LinkedUnlink
     DEF IteratorsLinked
<1> QED
  BY <1>2, <1>5

(* An iterator that is assigned another leaves its chain for the other's. *)
LEMMA CopyKeepsChains ==
  ASSUME TypeOK, TypeOK', IteratorsLinked, NEW it \in Iter, NEW source \in Iter,
         Copy(it, source)
  PROVE  IteratorsLinked'
<1>1. PICK l \in List : l = list_[source]
  BY DEF Copy, TypeOK
<1>2. CASE list_[it] = l
  BY <1>1, <1>2 DEF Copy, chainVars, IteratorsLinked
<1>3. CASE list_[it] = NULL
  <2>1. Register(it, l)
    BY <1>1, <1>3 DEF Copy
  <2> QED
    BY <1>3, <2>1, RegisterKeepsChains
<1>4. CASE list_[it] \notin {NULL, l}
  <2>1. PICK pi : pi = [UnlinkedPrev(it) EXCEPT ![it] = NULL]
    OBVIOUS
  <2>2. PICK ni : ni = [UnlinkedNext(it) EXCEPT ![it] = NULL]
    OBVIOUS
  <2>3. PICK ow : ow = [list_ EXCEPT ![it] = NULL]
    OBVIOUS
  <2>4. PICK fi : fi = UnlinkedFirst(it)
    OBVIOUS
  <2>5. LinkTypes(Iter, fi, pi, ni, ow) /\ Linked(Iter, fi, pi, ni, ow)
    BY <1>4, <2>1, <2>2, <2>3, <2>4, UnregisterKeepsChains
  <2>6. LinkTypes(Iter, first_iterator', prev_iterator_', next_iterator_', list_')
    BY NullAssumption DEF TypeOK, LinkTypes
  <2>7. UnlinkedNext(it) \in [Iter -> Iter \cup {NULL}]
    BY DEF TypeOK, UnlinkedNext, Assign
  <2>8. fi[l] # it
    <3>1. fi[l] = first_iterator[l]
      BY <1>4, <2>4 DEF UnlinkedFirst
    <3>2. first_iterator[l] # it
      BY <1>4, NullAssumption DEF IteratorsLinked, Linked
    <3> QED
      BY ONLY <3>1, <3>2
  <2>9. /\ ow[it] = NULL
        /\ \A k \in List : first_iterator'[k] = IF k = l THEN it ELSE fi[k]
        /\ \A n \in Iter : list_'[n] = IF n = it THEN l ELSE ow[n]
        /\ \A n \in Iter : next_iterator_'[n] = IF n = it THEN fi[l] ELSE ni[n]
        /\ \A n \in Iter : prev_iterator_'[n] =
             IF n = it THEN NULL ELSE IF n = fi[l] THEN it ELSE pi[n]
    <3>1. fi[l] = first_iterator[l]
      BY <1>4, <2>4 DEF UnlinkedFirst
    <3>2. /\ list_' = [list_ EXCEPT ![it] = l]
          /\ prev_iterator_' = Assign(pi, first_iterator[l], it)
          /\ next_iterator_' = [UnlinkedNext(it) EXCEPT ![it] = first_iterator[l]]
          /\ first_iterator' = [fi EXCEPT ![l] = it]
      BY <1>1, <1>4, <2>1, <2>4 DEF Copy
    <3>3. pi \in [Iter -> Iter \cup {NULL}] /\ pi[it] = NULL
      BY <2>1, <2>5 DEF LinkTypes, UnlinkedPrev, Assign, TypeOK
    <3>4. fi \in [List -> Iter \cup {NULL}]
      BY <2>5 DEF LinkTypes
    <3>5. /\ ow[it] = NULL
          /\ \A n \in Iter : list_'[n] = IF n = it THEN l ELSE ow[n]
          /\ \A n \in Iter : next_iterator_'[n] = IF n = it THEN fi[l] ELSE ni[n]
      BY ONLY <2>2, <2>3, <2>7, <3>1, <3>2, TypeOK, it \in Iter DEF TypeOK
    <3>6. \A k \in List : first_iterator'[k] = IF k = l THEN it ELSE fi[k]
      BY ONLY <3>2, <3>4
    <3>7. \A n \in Iter : prev_iterator_'[n] =
            IF n = it THEN NULL ELSE IF n = fi[l] THEN it ELSE pi[n]
      BY ONLY <2>8, <3>1, <3>2, <3>3, NullAssumption, it \in Iter DEF Assign
    <3> QED
      BY <3>5, <3>6, <3>7
  <2> QED
    BY ONLY <2>5, <2>6, <2>9, l \in List, it \in Iter, LinkedPushFront DEF IteratorsLinked
<1> QED
  BY <1>2, <1>3, <1>4

(* A list that is destroyed leaves no iterator in its chain. *)
LEMMA DestroyListKeepsChains ==
  ASSUME TypeOK, TypeOK', IteratorsLinked, NEW l \in List, DestroyList(l)
  PROVE  IteratorsLinked'
<1>1. LinkTypes(Iter, first_iterator, prev_iterator_, next_iterator_, list_)
  BY TypesOfLinks
<1>2. LinkTypes(Iter, first_iterator', prev_iterator_', next_iterator_', list_')
  BY NullAssumption DEF TypeOK, LinkTypes
<1>3. \A n \in Iter : n \in Chain(l) <=> list_[n] = l
  BY DEF Chain, IteratorsLinked, Linked
<1>4. /\ \A k \in List : first_iterator'[k] = IF k = l THEN NULL ELSE first_iterator[k]
      /\ \A n \in Iter : list_'[n] = IF list_[n] = l THEN NULL ELSE list_[n]
      /\ \A n \in Iter : next_iterator_'[n] =
           IF list_[n] = l THEN NULL ELSE next_iterator_[n]
      /\ \A n \in Iter : prev_iterator_'[n] =
           IF list_[n] = l THEN NULL ELSE prev_iterator_[n]
  BY <1>3 DEF DestroyList, TypeOK
<1> QED
  BY ONLY <1>1, <1>2, <1>4, IteratorsLinked, l \in List, LinkedClear DEF IteratorsLinked

(* Iterators stay on their lists.  Remove steps all the iterators that stand
   at the entry, since the chain is complete, to the entry linked next to it,
   which is in the same list and is another one. *)
LEMMA RemoveKeepsIterators ==
  ASSUME IInv, TypeOK', NEW l \in List, NEW e \in Entry, Remove(l, e)
  PROVE  IteratorsOnList'
<1> SUFFICES ASSUME NEW it \in Iter, current_entry_'[it] # NULL
             PROVE  list_'[it] # NULL /\ linklist'[current_entry_'[it]] = list_'[it]
  BY DEF IteratorsOnList
<1>1. /\ list_' = list_
      /\ linklist' = [linklist EXCEPT ![e] = NULL]
      /\ linklist \in [Entry -> List \cup {NULL}]
      /\ linklist[e] = l
      /\ current_entry_[it] \in Entry \cup {NULL}
      /\ current_entry_'[it] = IF it \in Chain(l) /\ current_entry_[it] = e
                                  THEN Step(it, e) ELSE current_entry_[it]
  BY DEF Remove, chainVars, IInv, TypeOK
<1>2. it \in Chain(l) <=> list_[it] = l
  BY DEF IInv, IteratorsLinked, Linked, Chain
<1>3. current_entry_[it] = e => list_[it] = l
  BY <1>1, NullAssumption DEF IInv, IteratorsOnList
<1>4. CASE current_entry_[it] = e
  <2>1. current_entry_'[it] = Step(it, e) /\ list_[it] = l
    BY <1>1, <1>2, <1>3, <1>4
  <2>2. Step(it, e) \in {next[e], prev[e]}
    BY DEF Step
  <2>3. next[e] # e /\ prev[e] # e
    BY <1>1, NullAssumption, TypesOfLinks, LinkedNoLoop DEF IInv, EntriesLinked
  <2>4. /\ next[e] # NULL => next[e] \in Entry /\ linklist[next[e]] = l
        /\ prev[e] # NULL => prev[e] \in Entry /\ linklist[prev[e]] = l
    BY <1>1 DEF IInv, TypeOK, EntriesLinked, Linked
  <2> QED
    BY <1>1, <2>1, <2>2, <2>3, <2>4, NullAssumption
<1>5. CASE current_entry_[it] # e
  BY <1>1, <1>5 DEF IInv, IteratorsOnList
<1> QED
  BY <1>4, <1>5

(* The operations of the list keep the invariant ... *)
LEMMA ListOpKeeps ==
  ASSUME IInv, TypeOK', ListOp \/ \E l \in List : DestroyList(l)
  PROVE  IInv'
<1> USE DEF IInv
<1>1. ASSUME NEW l \in List, NEW e \in Entry, Added(l, e)
      PROVE  IteratorsLinked' /\ IteratorsOnList'
  <2>1. UNCHANGED chainVars /\ linklist' = [linklist EXCEPT ![e] = l] /\ linklist[e] = NULL
    BY <1>1 DEF Added
  <2>2. IteratorsLinked'
    BY <2>1 DEF IteratorsLinked, chainVars
  <2>3. IteratorsOnList'
    BY <1>1 DEF Added, chainVars, IteratorsOnList, TypeOK
  <2> QED
    BY <2>2, <2>3
<1>2. ASSUME NEW l \in List, NEW e \in Entry, AddFirst(l, e) PROVE IInv'
  BY <1>1, <1>2, AddFirstKeepsEntries DEF AddFirst
<1>3. ASSUME NEW l \in List, NEW e \in Entry, AddLast(l, e) PROVE IInv'
  BY <1>1, <1>3, AddLastKeepsEntries DEF AddLast
<1>4. ASSUME NEW l \in List, NEW e \in Entry, NEW r \in Entry, AddBefore(l, e, r)
      PROVE IInv'
  BY <1>1, <1>4, AddBeforeKeepsEntries DEF AddBefore
<1>5. ASSUME NEW l \in List, NEW e \in Entry, NEW r \in Entry, AddAfter(l, e, r)
      PROVE IInv'
  BY <1>1, <1>5, AddAfterKeepsEntries DEF AddAfter
<1>6. ASSUME NEW l \in List, NEW e \in Entry, Remove(l, e) PROVE IInv'
  <2>1. IteratorsLinked'
    BY <1>6 DEF Remove, chainVars, IteratorsLinked
  <2> QED
    BY <1>6, <2>1, RemoveKeepsEntries, RemoveKeepsIterators
<1>7. ASSUME NEW l \in List, ClearEntries(l), \A it \in Iter : list_'[it] \in {list_[it], NULL},
             \A it \in Iter : list_[it] # l => list_'[it] = list_[it]
      PROVE  EntriesLinked' /\ IteratorsOnList'
  <2>1. \A it \in Iter : it \in Chain(l) <=> list_[it] = l
    BY DEF Chain, IteratorsLinked, Linked
  <2>2. \A it \in Iter :
          current_entry_'[it] = IF list_[it] = l THEN NULL ELSE current_entry_[it]
    BY <1>7, <2>1 DEF ClearEntries
  <2>3. \A e \in Entry : linklist'[e] = IF linklist[e] = l THEN NULL ELSE linklist[e]
    BY <1>7 DEF ClearEntries, EntriesLinked, Linked
  <2>4. IteratorsOnList'
    BY <1>7, <2>2, <2>3, NullAssumption DEF IteratorsOnList, TypeOK
  <2> QED
    BY <1>7, <2>4, ClearKeepsEntries
<1>8. ASSUME NEW l \in List, RemoveAll(l) PROVE IInv'
  <2>1. IteratorsLinked' /\ list_' = list_
    BY <1>8 DEF RemoveAll, chainVars, IteratorsLinked
  <2> QED
    BY <1>7, <1>8, <2>1 DEF RemoveAll
<1>9. ASSUME NEW l \in List, DestroyList(l) PROVE IInv'
  <2>1. \A it \in Iter : it \in Chain(l) <=> list_[it] = l
    BY DEF Chain, IteratorsLinked, Linked
  <2>2. \A it \in Iter : list_'[it] = IF list_[it] = l THEN NULL ELSE list_[it]
    BY <1>9, <2>1 DEF DestroyList
  <2> QED
    BY <1>7, <1>9, <2>2, DestroyListKeepsChains DEF DestroyList
<1> HIDE DEF IInv
<1> QED
  BY <1>2, <1>3, <1>4, <1>5, <1>6, <1>8, <1>9 DEF ListOp

(* ... and so do those of the iterators. *)
LEMMA IterOpKeeps ==
  ASSUME IInv, TypeOK', IterOp
  PROVE  IInv'
<1> USE DEF IInv
<1>1. ASSUME UNCHANGED entryVars
      PROVE  EntriesLinked'
  BY <1>1 DEF EntriesLinked, entryVars
<1>2. ASSUME NEW it \in Iter, NEW l \in List, NEW start \in Entry \cup {NULL},
             NEW forward \in BOOLEAN, Iterate(it, l, start, forward)
      PROVE  IInv'
  <2>1. IteratorsLinked'
    BY <1>2, RegisterKeepsChains DEF Iterate
  <2>2. start # NULL => linklist[start] = l
    BY <1>2 DEF Iterate, EntriesLinked, Linked
  <2>3. IteratorsOnList'
    BY <1>2, <2>2, NullAssumption
       DEF Iterate, Register, entryVars, IteratorsOnList, TypeOK
  <2> QED
    BY <1>1, <1>2, <2>1, <2>3 DEF Iterate
<1>3. ASSUME NEW it \in Iter, NEW source \in Iter, Copy(it, source) PROVE IInv'
  <2>1. list_' = [list_ EXCEPT ![it] = list_[source]]
    BY <1>3 DEF Copy, Register, chainVars, TypeOK
  <2>2. IteratorsOnList'
    BY <1>3, <2>1, NullAssumption DEF Copy, entryVars, IteratorsOnList, TypeOK
  <2> QED
    BY <1>1, <1>3, <2>2, CopyKeepsChains DEF Copy
<1>4. ASSUME NEW it \in Iter, DestroyIter(it) PROVE IInv'
  <2>1. IteratorsLinked'
    BY <1>4, UnregisterKeepsChains DEF DestroyIter, IteratorsLinked
  <2>2. IteratorsOnList'
    BY <1>4, NullAssumption DEF DestroyIter, entryVars, IteratorsOnList, TypeOK
  <2> QED
    BY <1>1, <1>4, <2>1, <2>2 DEF DestroyIter
<1>5. ASSUME NEW it \in Iter, Reset(it) PROVE IInv'
  <2>1. IteratorsOnList'
    BY <1>5, NullAssumption
       DEF Reset, entryVars, chainVars, IteratorsOnList, TypeOK, EntriesLinked, Linked
  <2>2. IteratorsLinked'
    BY <1>5 DEF Reset, chainVars, IteratorsLinked
  <2> QED
    BY <1>1, <1>5, <2>1, <2>2 DEF Reset
<1>6. ASSUME NEW it \in Iter, GetAndStep(it) PROVE IInv'
  <2>1. IteratorsOnList'
    BY <1>6, NullAssumption
       DEF GetAndStep, Step, entryVars, chainVars, IteratorsOnList, TypeOK, EntriesLinked, Linked
  <2>2. IteratorsLinked'
    BY <1>6 DEF GetAndStep, chainVars, IteratorsLinked
  <2> QED
    BY <1>1, <1>6, <2>1, <2>2 DEF GetAndStep
<1> HIDE DEF IInv
<1> QED
  BY <1>2, <1>3, <1>4, <1>5, <1>6 DEF IterOp

(* The invariant holds in every reachable state. *)
THEOREM Invariance == Spec => []IInv
<1>1. Init => IInv
  <2> SUFFICES ASSUME Init PROVE IInv
    OBVIOUS
  <2>1. TypeOK
    BY DEF Init, TypeOK
  <2>2. EntriesLinked
    BY ReachNull, NullAssumption DEF Init, EntriesLinked, Linked
  <2>3. IteratorsLinked
    BY ReachNull, NullAssumption DEF Init, IteratorsLinked, Linked
  <2>4. IteratorsOnList
    BY DEF Init, IteratorsOnList
  <2> QED
    BY <2>1, <2>2, <2>3, <2>4 DEF IInv
<1>2. IInv /\ [Next]_vars => IInv'
  <2> SUFFICES ASSUME IInv, [Next]_vars PROVE IInv'
    OBVIOUS
  <2>1. TypeOK'
    BY TypeStep DEF IInv
  <2>2. CASE Next
    BY <2>1, <2>2, ListOpKeeps, IterOpKeeps DEF Next
  <2>3. CASE UNCHANGED vars
    BY <2>1, <2>3
       DEF vars, entryVars, chainVars, IInv, EntriesLinked, IteratorsLinked, IteratorsOnList
  <2> QED
    BY <2>2, <2>3
<1> QED
  BY <1>1, <1>2, PTL DEF Spec

(* Whatever callers do to lists and iterators, in any interleaving: the links
   of every list are consistent in both directions and reach exactly its
   entries, the chains hold exactly the live iterators, and no iterator points
   at an entry that is outside its list. *)
THEOREM ListSafe == Spec => []PointersAgree
<1>1. IInv => PointersAgree
  BY DEF IInv, PointersAgree
<1> QED
  BY <1>1, Invariance, PTL

-----------------------------------------------------------------------------
(* What iterators have ahead of them *)

(* A walk is its first node and the walk from the next one. *)
LEMMA ReachStep ==
  ASSUME NEW Node, NULL \notin Node, NEW n \in [Node -> Node \cup {NULL}], NEW e \in Node
  PROVE  Reach(e, n, Node) = {e} \cup Reach(n[e], n, Node)
<1> DEFINE R == Reach(e, n, Node)
           Q == Reach(n[e], n, Node)
<1>1. /\ R \subseteq Node /\ e \in R
      /\ \A x \in R : n[x] # NULL => n[x] \in R
  BY ReachClosed
<1>2. /\ Q \subseteq Node /\ (n[e] # NULL => n[e] \in Q)
      /\ \A x \in Q : n[x] # NULL => n[x] \in Q
  BY ReachClosed
<1> HIDE DEF R, Q
<1>3. R \subseteq {e} \cup Q
  <2> DEFINE S == {e} \cup Q
  <2>1. S \in SUBSET Node /\ e \in S /\ \A x \in S : n[x] # NULL => n[x] \in S
    BY <1>2
  <2> HIDE DEF S
  <2>2. Reach(e, n, Node) \subseteq S
    BY <2>1, ReachLeast
  <2> QED
    BY <2>2 DEF S, R
<1>4. Q \subseteq R
  <2>1. R \in SUBSET Node /\ (n[e] # NULL => n[e] \in R)
    BY <1>1
  <2>2. Reach(n[e], n, Node) \subseteq R
    BY <1>1, <2>1, ReachLeast
  <2> QED
    BY <2>2 DEF Q
<1> QED
  BY <1>1, <1>3, <1>4 DEF R, Q

(* A node that is linked behind r, or behind none, is all that is new ahead. *)
LEMMA AheadInserted ==
  ASSUME NEW Node, NULL \notin Node,
         NEW n \in [Node -> Node \cup {NULL}], NEW m \in [Node -> Node \cup {NULL}],
         NEW e \in Node, \A x \in Node : n[x] # e, n[e] = NULL,
         NEW c \in Node \cup {NULL}, c # e,
         NEW r \in Node \cup {NULL}, r # e,
         r # NULL => m[r] = e /\ m[e] = n[r],
         \A x \in Node \ {e, r} : m[x] = n[x]
  PROVE  Reach(c, m, Node) \ {e} = Reach(c, n, Node)
<1> DEFINE R == Reach(c, n, Node)
<1>1. /\ R \subseteq Node /\ (c # NULL => c \in R)
      /\ \A x \in R : n[x] # NULL => n[x] \in R
  BY ReachClosed
<1>2. e \notin R
  <2> DEFINE S == R \ {e}
  <2>1. /\ S \in SUBSET Node /\ (c # NULL => c \in S)
        /\ \A x \in S : n[x] # NULL => n[x] \in S
    BY <1>1
  <2> HIDE DEF S
  <2>2. Reach(c, n, Node) \subseteq S
    BY <2>1, ReachLeast
  <2> QED
    BY <2>2 DEF S
<1>3. CASE r \in R
  <2>1. r \in Node /\ r # NULL
    BY <1>1, <1>3
  <2>2. Reach(c, m, Node) = Reach(c, n, Node) \cup {e}
    BY <1>2, <1>3, <2>1, ReachInsertAfter
  <2> QED
    BY <1>2, <2>2
<1>4. CASE r \notin R
  <2>1. \A x \in Reach(c, n, Node) : m[x] = n[x]
    BY <1>1, <1>2, <1>4
  <2>2. Reach(c, m, Node) = Reach(c, n, Node)
    BY <2>1, ReachFrame
  <2> QED
    BY <1>2, <2>2
<1> QED
  BY <1>3, <1>4

(* No walk comes back to where it was: the nodes of a cycle have each a node
   before them, which is in the cycle too, so that no walk from a head enters
   it; but a head reaches all nodes of its owner. *)
LEMMA LinkedNoCycle ==
  ASSUME NEW Node, NEW fst, NEW prv, NEW nxt, NEW own,
         LinkTypes(Node, fst, prv, nxt, own),
         Linked(Node, fst, prv, nxt, own),
         NEW e \in Node, own[e] # NULL
  PROVE  e \notin Reach(nxt[e], nxt, Node)
<1> DEFINE C == Reach(nxt[e], nxt, Node)
<1> SUFFICES ASSUME e \in C PROVE FALSE
  OBVIOUS
<1>1. /\ NULL \notin Node /\ nxt \in [Node -> Node \cup {NULL}] /\ fst \in [List -> Node \cup {NULL}]
      /\ own[e] \in List /\ nxt[e] \in Node \cup {NULL}
  BY DEF LinkTypes
<1>2. /\ C \subseteq Node /\ (nxt[e] # NULL => nxt[e] \in C)
      /\ \A x \in C : nxt[x] # NULL => nxt[x] \in C
  BY <1>1, ReachClosed
<1>3. \A x \in Node : nxt[x] # NULL => prv[nxt[x]] = x
  BY DEF Linked
<1>4. \A x \in C : prv[x] \in C
  <2> DEFINE S == {x \in C : prv[x] \in C}
  <2>1. /\ S \in SUBSET Node /\ (nxt[e] # NULL => nxt[e] \in S)
        /\ \A x \in S : nxt[x] # NULL => nxt[x] \in S
    BY <1>2, <1>3
  <2> HIDE DEF S
  <2>2. C \subseteq S
    BY <2>1, ReachLeast
  <2> QED
    BY <2>2 DEF S
<1>5. e \in Reach(fst[own[e]], nxt, Node)
  BY <1>1 DEF Linked
<1>6. fst[own[e]] # NULL => prv[fst[own[e]]] = NULL /\ fst[own[e]] \in Node
  BY <1>1 DEF Linked
<1> HIDE DEF C
<1>7. fst[own[e]] \notin C
  BY <1>1, <1>2, <1>4, <1>6
<1> DEFINE S == Node \ C
<1>8. /\ S \in SUBSET Node /\ (fst[own[e]] # NULL => fst[own[e]] \in S)
      /\ \A x \in S : nxt[x] # NULL => nxt[x] \in S
  BY <1>1, <1>3, <1>4, <1>6, <1>7
<1> HIDE DEF S
<1>9. Reach(fst[own[e]], nxt, Node) \subseteq S
  BY <1>8, ReachLeast
<1> QED
  BY <1>5, <1>9 DEF S

(* A node that is unlinked is all that is gone ahead, also of a walk that
   stood at it and stepped on. *)
LEMMA AheadRemoved ==
  ASSUME NEW Node, NEW fst, NEW prv, NEW nxt, NEW own,
         LinkTypes(Node, fst, prv, nxt, own),
         Linked(Node, fst, prv, nxt, own),
         NEW e \in Node, own[e] # NULL,
         NEW m \in [Node -> Node \cup {NULL}],
         \A x \in Node : m[x] = IF x = e THEN NULL ELSE IF nxt[x] = e THEN nxt[e] ELSE nxt[x],
         NEW c \in Node \cup {NULL}
  PROVE  Reach(IF c = e THEN nxt[e] ELSE c, m, Node) = Reach(c, nxt, Node) \ {e}
<1>1. NULL \notin Node /\ nxt \in [Node -> Node \cup {NULL}] /\ nxt[e] \in Node \cup {NULL}
  BY DEF LinkTypes
<1>2. \A x \in Node : nxt[x] = e => x = prv[e]
  BY <1>1 DEF Linked
<1>3. ASSUME NEW d \in Node \cup {NULL}, e \notin Reach(d, nxt, Node)
      PROVE  Reach(d, m, Node) = Reach(d, nxt, Node)
  <2>1. /\ Reach(d, nxt, Node) \subseteq Node
        /\ \A x \in Reach(d, nxt, Node) : nxt[x] # NULL => nxt[x] \in Reach(d, nxt, Node)
    BY <1>1, ReachClosed
  <2>2. \A x \in Reach(d, nxt, Node) : m[x] = nxt[x]
    BY <1>1, <1>3, <2>1
  <2> QED
    BY <1>1, <2>2, ReachFrame
<1>4. CASE c = e
  <2>1. e \notin Reach(nxt[e], nxt, Node)
    BY LinkedNoCycle
  <2>2. Reach(e, nxt, Node) = {e} \cup Reach(nxt[e], nxt, Node)
    BY <1>1, ReachStep
  <2>3. Reach(nxt[e], m, Node) = Reach(nxt[e], nxt, Node)
    BY <1>1, <1>3, <2>1
  <2> QED
    BY <1>4, <2>1, <2>2, <2>3
<1>5. CASE c # e /\ e \notin Reach(c, nxt, Node)
  BY <1>3, <1>5
<1>6. CASE c # e /\ e \in Reach(c, nxt, Node)
  <2>1. PICK p \in Node : nxt[p] = e
    BY <1>1, <1>6, ReachNoLoop
  <2>2. \A x \in Node : nxt[x] = e => x = p
    BY <1>2, <2>1
  <2>3. /\ m[e] = NULL /\ (p # e => m[p] = nxt[e])
        /\ \A x \in Node \ {e, p} : m[x] = nxt[x]
    BY <2>1, <2>2
  <2>4. Reach(c, m, Node) = Reach(c, nxt, Node) \ {e}
    BY <1>1, <1>6, <2>1, <2>2, <2>3, ReachRemoveAfter
  <2> QED
    BY <1>6, <2>4
<1> QED
  BY <1>4, <1>5, <1>6

(* A walk stays with one owner. *)
LEMMA AheadOwned ==
  ASSUME NEW Node, NEW fst, NEW prv, NEW nxt, NEW own,
         LinkTypes(Node, fst, prv, nxt, own),
         Linked(Node, fst, prv, nxt, own),
         NEW c \in Node
  PROVE  \A x \in Reach(c, nxt, Node) : own[x] = own[c]
<1> DEFINE S == {x \in Node : own[x] = own[c]}
<1>1. S \in SUBSET Node /\ c \in S /\ \A x \in S : nxt[x] # NULL => nxt[x] \in S
  BY DEF Linked, LinkTypes
<1> HIDE DEF S
<1>2. Reach(c, nxt, Node) \subseteq S
  BY <1>1, ReachLeast
<1> QED
  BY <1>2 DEF S

(* The heads in an iterator's direction *)
Heads(it) == IF iterate_forward_[it] THEN first ELSE last

(* In either direction entries are linked. *)
LEMMA OnwardLinked ==
  ASSUME IInv, NEW it \in Iter
  PROVE  LET back == IF iterate_forward_[it] THEN prev ELSE next
         IN  /\ LinkTypes(Entry, Heads(it), back, Onward(it), linklist)
             /\ Linked(Entry, Heads(it), back, Onward(it), linklist)
<1>1. /\ LinkTypes(Entry, first, prev, next, linklist)
      /\ LinkTypes(Entry, last, next, prev, linklist)
      /\ Linked(Entry, first, prev, next, linklist)
      /\ Linked(Entry, last, next, prev, linklist)
  BY TypesOfLinks DEF IInv, EntriesLinked
<1> QED
  BY <1>1 DEF Heads, Onward

(* How an insertion changes the links in one direction: e is linked behind r,
   or behind none. *)
Inserts(n, m, e, r) ==
  /\ r \in Entry \cup {NULL} /\ r # e
  /\ r # NULL => m[r] = e /\ m[e] = n[r]
  /\ \A x \in Entry \ {e, r} : m[x] = n[x]

(* The entry that is added is linked nowhere. *)
LEMMA AddedAlone ==
  ASSUME IInv, NEW l \in List, NEW e \in Entry, Added(l, e)
  PROVE  /\ \A x \in Entry : next[x] # e /\ prev[x] # e
         /\ next[e] = NULL /\ prev[e] = NULL
         /\ \A k \in List : first[k] # e /\ last[k] # e
         /\ \A x \in Entry : linklist[x] # NULL => x # e
         /\ \A it \in Iter : current_entry_[it] # e
<1> USE DEF IInv
<1>1. linklist[e] = NULL /\ NULL \notin List /\ NULL \notin Entry
  BY NullAssumption DEF Added
<1>2. next[e] = NULL /\ prev[e] = NULL
  BY <1>1 DEF EntriesLinked, Linked
<1>3. \A x \in Entry : next[x] # e /\ prev[x] # e
  BY <1>1, <1>2 DEF EntriesLinked, Linked
<1>4. \A k \in List : first[k] # e /\ last[k] # e
  BY <1>1 DEF EntriesLinked, Linked
<1>5. \A it \in Iter : current_entry_[it] # e
  BY <1>1 DEF IteratorsOnList
<1> QED
  BY <1>1, <1>2, <1>3, <1>4, <1>5

(* Every way to add inserts in both directions. *)
LEMMA AddsInsert ==
  ASSUME IInv, NEW l \in List, NEW e \in Entry,
         \/ AddFirst(l, e) \/ AddLast(l, e)
         \/ \E reference \in Entry : AddBefore(l, e, reference) \/ AddAfter(l, e, reference)
  PROVE  /\ \E r : Inserts(next, next', e, r)
         /\ \E r : Inserts(prev, prev', e, r)
<1> USE DEF IInv
<1>1. /\ \A x \in Entry : next[x] # e /\ prev[x] # e
      /\ next[e] = NULL /\ prev[e] = NULL
      /\ \A k \in List : first[k] # e /\ last[k] # e
      /\ \A x \in Entry : linklist[x] # NULL => x # e
      /\ NULL \notin Entry /\ NULL \notin List
  BY AddedAlone, NullAssumption DEF AddFirst, AddLast, AddBefore, AddAfter
<1>2. /\ first[l] \in Entry \cup {NULL} /\ last[l] \in Entry \cup {NULL}
      /\ first[l] # NULL => prev[first[l]] = NULL
      /\ last[l] # NULL => next[last[l]] = NULL
  BY DEF TypeOK, EntriesLinked, Linked
<1>3. CASE AddFirst(l, e)
  <2>1. Inserts(next, next', e, NULL)
    BY <1>1, <1>3 DEF AddFirst, Inserts, TypeOK
  <2>2. Inserts(prev, prev', e, first[l])
    BY <1>1, <1>2, <1>3 DEF AddFirst, Assign, Inserts, TypeOK
  <2> QED
    BY <2>1, <2>2
<1>4. CASE AddLast(l, e)
  <2>1. Inserts(prev, prev', e, NULL)
    BY <1>1, <1>4 DEF AddLast, Inserts, TypeOK
  <2>2. Inserts(next, next', e, last[l])
    BY <1>1, <1>2, <1>4 DEF AddLast, Assign, Inserts, TypeOK
  <2> QED
    BY <2>1, <2>2
<1>5. ASSUME NEW reference \in Entry, AddBefore(l, e, reference)
      PROVE  /\ \E r : Inserts(next, next', e, r)
             /\ \E r : Inserts(prev, prev', e, r)
  <2>1. /\ reference # e /\ prev[reference] \in Entry \cup {NULL}
        /\ prev[reference] # NULL => next[prev[reference]] = reference
        /\ prev' = [prev EXCEPT ![e] = prev[reference], ![reference] = e]
        /\ next' = Assign([next EXCEPT ![e] = reference], prev[reference], e)
    BY <1>1, <1>5 DEF AddBefore, TypeOK, EntriesLinked, Linked
  <2>2. Inserts(prev, prev', e, reference)
    BY <1>1, <2>1 DEF Inserts, TypeOK
  <2>3. Inserts(next, next', e, prev[reference])
    BY <1>1, <2>1 DEF Inserts, Assign, TypeOK
  <2> QED
    BY <2>2, <2>3
<1>6. ASSUME NEW reference \in Entry, AddAfter(l, e, reference)
      PROVE  /\ \E r : Inserts(next, next', e, r)
             /\ \E r : Inserts(prev, prev', e, r)
  <2>1. /\ reference # e /\ next[reference] \in Entry \cup {NULL}
        /\ next[reference] # NULL => prev[next[reference]] = reference
        /\ next' = [next EXCEPT ![e] = next[reference], ![reference] = e]
        /\ prev' = Assign([prev EXCEPT ![e] = reference], next[reference], e)
    BY <1>1, <1>6 DEF AddAfter, TypeOK, EntriesLinked, Linked
  <2>2. Inserts(next, next', e, reference)
    BY <1>1, <2>1 DEF Inserts, TypeOK
  <2>3. Inserts(prev, prev', e, next[reference])
    BY <1>1, <2>1 DEF Inserts, Assign, TypeOK
  <2> QED
    BY <2>2, <2>3
<1> QED
  BY <1>3, <1>4, <1>5, <1>6

(* The entries that are in lists before and after a step *)
Staying == {e \in Entry : linklist[e] # NULL /\ linklist'[e] # NULL}

(* Adding moves no iterator, and adds to what it has ahead at most the entry
   that is new. *)
LEMMA AddKeepsAhead ==
  ASSUME IInv, TypeOK', NEW l \in List, NEW e \in Entry, Added(l, e),
         \E r : Inserts(next, next', e, r), \E r : Inserts(prev, prev', e, r),
         NEW it \in Iter
  PROVE  Ahead(it)' \cap Staying = Ahead(it) \cap Staying
<1>1. /\ \A x \in Entry : next[x] # e
      /\ \A x \in Entry : prev[x] # e
      /\ next[e] = NULL /\ prev[e] = NULL /\ current_entry_[it] # e
  BY AddedAlone
<1>2. /\ current_entry_' = current_entry_ /\ iterate_forward_' = iterate_forward_
      /\ linklist[e] = NULL
  BY DEF Added
<1>3. /\ next \in [Entry -> Entry \cup {NULL}] /\ prev \in [Entry -> Entry \cup {NULL}]
      /\ next' \in [Entry -> Entry \cup {NULL}] /\ prev' \in [Entry -> Entry \cup {NULL}]
      /\ current_entry_[it] \in Entry \cup {NULL} /\ NULL \notin Entry
  BY NullAssumption DEF IInv, TypeOK
<1> DEFINE c == current_entry_[it]
<1>7. c \in Entry \cup {NULL} /\ c # e
  BY <1>1, <1>3
<1>8. Ahead(it)' = IF iterate_forward_[it] THEN Reach(c, next', Entry) ELSE Reach(c, prev', Entry)
  BY <1>2 DEF Ahead, Onward
<1>9. Ahead(it) = IF iterate_forward_[it] THEN Reach(c, next, Entry) ELSE Reach(c, prev, Entry)
  BY DEF Ahead, Onward
<1> HIDE DEF c
<1>4. Reach(c, next', Entry) \ {e} = Reach(c, next, Entry)
  <2>1. PICK r : Inserts(next, next', e, r)
    OBVIOUS
  <2>2. /\ r \in Entry \cup {NULL} /\ r # e
        /\ r # NULL => next'[r] = e /\ next'[e] = next[r]
        /\ \A x \in Entry \ {e, r} : next'[x] = next[x]
    BY <2>1 DEF Inserts
  <2> QED
    BY <1>1, <1>7, <1>3, <2>2, AheadInserted, SMTT(30)
<1>5. Reach(c, prev', Entry) \ {e} = Reach(c, prev, Entry)
  <2>1. PICK r : Inserts(prev, prev', e, r)
    OBVIOUS
  <2>2. /\ r \in Entry \cup {NULL} /\ r # e
        /\ r # NULL => prev'[r] = e /\ prev'[e] = prev[r]
        /\ \A x \in Entry \ {e, r} : prev'[x] = prev[x]
    BY <2>1 DEF Inserts
  <2> QED
    BY <1>1, <1>7, <1>3, <2>2, AheadInserted, SMTT(30)
<1>6. e \notin Staying
  BY <1>2 DEF Staying
<1> QED
  BY <1>4, <1>5, <1>6, <1>8, <1>9

(* Removing takes the entry out of what iterators have ahead, those that stand
   at it included, and nothing else. *)
LEMMA RemoveKeepsAhead ==
  ASSUME IInv, TypeOK', NEW l \in List, NEW e \in Entry, Remove(l, e), NEW it \in Iter
  PROVE  Ahead(it)' \cap Staying = Ahead(it) \cap Staying
<1> USE DEF IInv
<1>1. /\ linklist[e] = l /\ l # NULL /\ NULL \notin Entry /\ NULL \notin List
      /\ iterate_forward_' = iterate_forward_
      /\ linklist' = [linklist EXCEPT ![e] = NULL]
  BY NullAssumption DEF Remove
<1>2. current_entry_[it] = e => it \in Chain(l)
  BY <1>1 DEF IteratorsOnList, IteratorsLinked, Linked, Chain
<1>3. current_entry_'[it] = IF current_entry_[it] = e THEN Onward(it)[e] ELSE current_entry_[it]
  BY <1>2 DEF Remove, Step, Onward
<1>4. /\ next[e] # e /\ prev[e] # e
  BY <1>1, TypesOfLinks, LinkedNoLoop DEF EntriesLinked
<1>5. /\ \A x \in Entry : next[x] = e <=> x = prev[e]
      /\ \A x \in Entry : prev[x] = e <=> x = next[e]
  BY <1>1 DEF TypeOK, EntriesLinked, Linked
<1>6. \A x \in Entry : next'[x] = IF x = e THEN NULL ELSE IF next[x] = e THEN next[e] ELSE next[x]
  <2>1. next' = [Assign(next, prev[e], next[e]) EXCEPT ![e] = NULL]
    BY DEF Remove
  <2> QED
    BY <1>1, <1>5, <2>1 DEF Assign, TypeOK
<1>7. \A x \in Entry : prev'[x] = IF x = e THEN NULL ELSE IF prev[x] = e THEN prev[e] ELSE prev[x]
  <2>1. prev' = [Assign(prev, next[e], prev[e]) EXCEPT ![e] = NULL]
    BY DEF Remove
  <2> QED
    BY <1>1, <1>5, <2>1 DEF Assign, TypeOK
<1> DEFINE back == IF iterate_forward_[it] THEN prev ELSE next
           m == IF iterate_forward_[it] THEN next' ELSE prev'
           n == Onward(it)
           fst == Heads(it)
           c == current_entry_[it]
<1>8. /\ LinkTypes(Entry, fst, back, n, linklist)
      /\ Linked(Entry, fst, back, n, linklist)
  BY OnwardLinked
<1>9. /\ m \in [Entry -> Entry \cup {NULL}] /\ c \in Entry \cup {NULL}
      /\ \A x \in Entry : m[x] = IF x = e THEN NULL ELSE IF n[x] = e THEN n[e] ELSE n[x]
  BY <1>6, <1>7 DEF TypeOK, Onward
<1>10. Ahead(it) = Reach(c, n, Entry)
  BY DEF Ahead
<1>11. Ahead(it)' = Reach(IF c = e THEN n[e] ELSE c, m, Entry)
  BY <1>1, <1>3 DEF Ahead, Onward
<1> HIDE DEF back, m, n, fst, c
<1>12. Reach(IF c = e THEN n[e] ELSE c, m, Entry) = Reach(c, n, Entry) \ {e}
  BY <1>1, <1>8, <1>9, AheadRemoved
<1>13. e \notin Staying
  BY <1>1 DEF Staying, TypeOK
<1> QED
  BY <1>10, <1>11, <1>12, <1>13

(* When a list empties nothing in it stays, and the iterators of other lists
   only follow links of theirs. *)
LEMMA RemoveAllKeepsAhead ==
  ASSUME IInv, TypeOK', NEW l \in List, RemoveAll(l), NEW it \in Iter
  PROVE  Ahead(it)' \cap Staying = Ahead(it) \cap Staying
<1> USE DEF IInv
<1>1. /\ \A i \in Iter : i \in Chain(l) <=> list_[i] = l
      /\ \A e \in Entry : e \in Reach(first[l], next, Entry) <=> linklist[e] = l
  BY DEF Chain, IteratorsLinked, EntriesLinked, Linked
<1>2. /\ current_entry_'[it] = IF list_[it] = l THEN NULL ELSE current_entry_[it]
      /\ \A e \in Entry : next'[e] = (IF linklist[e] = l THEN NULL ELSE next[e])
      /\ \A e \in Entry : prev'[e] = (IF linklist[e] = l THEN NULL ELSE prev[e])
      /\ \A e \in Entry : linklist'[e] = (IF linklist[e] = l THEN NULL ELSE linklist[e])
      /\ iterate_forward_' = iterate_forward_
  BY <1>1 DEF RemoveAll, ClearEntries
<1> DEFINE back == IF iterate_forward_[it] THEN prev ELSE next
           m == IF iterate_forward_[it] THEN next' ELSE prev'
           n == Onward(it)
           fst == Heads(it)
           c == current_entry_[it]
<1>3. /\ LinkTypes(Entry, fst, back, n, linklist)
      /\ Linked(Entry, fst, back, n, linklist)
  BY OnwardLinked
<1>4. /\ m \in [Entry -> Entry \cup {NULL}] /\ n \in [Entry -> Entry \cup {NULL}]
      /\ c \in Entry \cup {NULL} /\ NULL \notin Entry
      /\ \A e \in Entry : m[e] = IF linklist[e] = l THEN NULL ELSE n[e]
  BY <1>2, NullAssumption DEF TypeOK, Onward
<1>5. Ahead(it) = Reach(c, n, Entry)
  BY DEF Ahead
<1>6. Ahead(it)' = Reach(IF list_[it] = l THEN NULL ELSE c, m, Entry)
  BY <1>2 DEF Ahead, Onward
<1>7. c # NULL => linklist[c] = list_[it]
  BY DEF IteratorsOnList
<1> HIDE DEF back, m, n, fst, c
<1>8. c \in Entry => \A x \in Reach(c, n, Entry) : linklist[x] = linklist[c]
  BY <1>3, AheadOwned
<1>9. c = NULL => Reach(c, n, Entry) = {} /\ Reach(c, m, Entry) = {}
  BY ReachNull
<1>10. CASE list_[it] = l
  <2>1. Reach(NULL, m, Entry) = {}
    BY ReachNull
  <2>2. \A x \in Reach(c, n, Entry) : x \notin Staying
    BY <1>2, <1>4, <1>7, <1>8, <1>9, <1>10 DEF Staying
  <2> QED
    BY <1>5, <1>6, <1>10, <2>1, <2>2
<1>11. CASE list_[it] # l
  <2>1. Reach(c, n, Entry) \subseteq Entry
    BY <1>4, ReachClosed
  <2>2. \A x \in Reach(c, n, Entry) : m[x] = n[x]
    BY <1>4, <1>7, <1>8, <1>9, <1>11, <2>1
  <2>3. Reach(c, m, Entry) = Reach(c, n, Entry)
    BY <1>4, <2>2, ReachFrame
  <2> QED
    BY <1>5, <1>6, <1>11, <2>3
<1> QED
  BY <1>10, <1>11

(* Safe iteration, for any entries, lists and iterators: no addition or removal
   makes an iterator skip an entry that stays or meet one again. *)
THEOREM SafeIteration == Spec => NoSkipNoRevisit
<1>1. IInv /\ [Next]_vars =>
        [ListOp => \A it \in Iter : Ahead(it)' \cap Staying = Ahead(it) \cap Staying]_vars
  <2> SUFFICES ASSUME IInv, [Next]_vars, ListOp, NEW it \in Iter
               PROVE  Ahead(it)' \cap Staying = Ahead(it) \cap Staying
    OBVIOUS
  <2>1. TypeOK'
    BY TypeStep DEF IInv
  <2>2. PICK l \in List :
          \/ \E e \in Entry : AddFirst(l, e) \/ AddLast(l, e) \/ Remove(l, e)
          \/ \E e, reference \in Entry : AddBefore(l, e, reference) \/ AddAfter(l, e, reference)
          \/ RemoveAll(l)
    BY DEF ListOp
  <2>3. ASSUME NEW e \in Entry,
               \/ AddFirst(l, e) \/ AddLast(l, e)
               \/ \E reference \in Entry : AddBefore(l, e, reference) \/ AddAfter(l, e, reference)
        PROVE  Ahead(it)' \cap Staying = Ahead(it) \cap Staying
    <3>1. Added(l, e)
      BY <2>3 DEF AddFirst, AddLast, AddBefore, AddAfter
    <3>2. (\E r : Inserts(next, next', e, r)) /\ (\E r : Inserts(prev, prev', e, r))
      BY <2>3, AddsInsert
    <3> QED
      BY <2>1, <3>1, <3>2, AddKeepsAhead
  <2> QED
    BY <2>1, <2>2, <2>3, RemoveKeepsAhead, RemoveAllKeepsAhead
<1>2. Spec => []IInv
  BY Invariance, PTL
<1>3. NoSkipNoRevisit <=>
        [][ListOp => \A it \in Iter : Ahead(it)' \cap Staying = Ahead(it) \cap Staying]_vars
  BY DEF NoSkipNoRevisit, Staying
<1> QED
  BY <1>1, <1>2, <1>3, PTL DEF Spec

-----------------------------------------------------------------------------
(* Walks as sequences *)

(* s is what a walk over step meets from start: it follows the links, ends
   where they do and meets nothing twice. *)
IsWalk(s, start, step) ==
  /\ s \in Seq(Entry)
  /\ start = IF Len(s) = 0 THEN NULL ELSE s[1]
  /\ \A i \in 1..Len(s) : step[s[i]] = IF i = Len(s) THEN NULL ELSE s[i + 1]
  /\ \A i, j \in 1..Len(s) : s[i] = s[j] => i = j

(* How many numbers there are up to n, and before n *)
LEMMA CountUpTo ==
  ASSUME NEW n \in Nat
  PROVE  Cardinality(1..n) = n /\ Cardinality(0..(n - 1)) = n
<1>1. 1 \in Int /\ 0 \in Int /\ n \in Int /\ n - 1 \in Int
  OBVIOUS
<1>2. Cardinality(1..n) = IF 1 > n THEN 0 ELSE n - 1 + 1
  BY <1>1, FS_Interval
<1>3. Cardinality(0..(n - 1)) = IF 0 > n - 1 THEN 0 ELSE n - 1 - 0 + 1
  BY <1>1, FS_Interval
<1> QED
  BY <1>2, <1>3

(* Walk, which is defined by recursion over the number of steps, is that
   sequence. *)
LEMMA WalkIs ==
  ASSUME IsFiniteSet(Entry), NEW s, NEW start, NEW step, IsWalk(s, start, step)
  PROVE  Walk(start, step) = s
<1> DEFINE N == Cardinality(Entry)
           g == [i \in 0..N |-> IF i < Len(s) THEN s[i + 1] ELSE NULL]
           at == CHOOSE f : f = [i \in 0..N |->
                                   IF i = 0 THEN start
                                   ELSE IF f[i - 1] = NULL THEN NULL ELSE step[f[i - 1]]]
<1>1. /\ s \in Seq(Entry) /\ Len(s) \in Nat /\ NULL \notin Entry
      /\ \A i \in 1..Len(s) : s[i] \in Entry
  BY NullAssumption DEF IsWalk
<1>2. N \in Nat
  BY FS_CardinalityType
<1>3. Len(s) <= N
  <2>1. s \in [1..Len(s) -> Entry]
    BY <1>1
  <2>2. s \in Injection(1..Len(s), Entry)
    BY <2>1, Fun_IsInj DEF IsWalk
  <2>3. Cardinality(1..Len(s)) <= N
    BY <2>2, FS_Injection
  <2>4. Cardinality(1..Len(s)) = Len(s)
    BY <1>1, CountUpTo
  <2> QED
    BY <2>3, <2>4
<1> HIDE DEF N
<1>4. g = [i \in 0..N |-> IF i = 0 THEN start
                          ELSE IF g[i - 1] = NULL THEN NULL ELSE step[g[i - 1]]]
  <2> SUFFICES ASSUME NEW i \in 0..N
               PROVE  g[i] = IF i = 0 THEN start
                             ELSE IF g[i - 1] = NULL THEN NULL ELSE step[g[i - 1]]
    OBVIOUS
  <2>1. CASE i = 0
    BY <1>1, <1>2, <2>1 DEF IsWalk
  <2>2. CASE i # 0 /\ i <= Len(s)
    <3>1. i - 1 \in 0..N /\ g[i - 1] = s[i] /\ s[i] # NULL
      BY <1>1, <1>2, <2>2
    <3>2. step[s[i]] = IF i = Len(s) THEN NULL ELSE s[i + 1]
      BY <1>1, <2>2 DEF IsWalk
    <3> QED
      BY <1>1, <1>2, <2>2, <3>1, <3>2
  <2>3. CASE i > Len(s)
    <3>1. i - 1 \in 0..N /\ g[i - 1] = NULL
      BY <1>1, <1>2, <2>3
    <3> QED
      BY <1>1, <1>2, <2>3, <3>1
  <2> QED
    BY <1>1, <1>2, <2>1, <2>2, <2>3
<1>5. at = [i \in 0..N |-> IF i = 0 THEN start
                           ELSE IF at[i - 1] = NULL THEN NULL ELSE step[at[i - 1]]]
  BY <1>4
<1>6. Walk(start, step) = [i \in 1..Cardinality({i \in 0..N : at[i] # NULL}) |-> at[i - 1]]
  BY DEF Walk, N
<1>7. DOMAIN g = 0..N
  OBVIOUS
<1>8. \A i \in 0..N : g[i] = IF i < Len(s) THEN s[i + 1] ELSE NULL
  OBVIOUS
<1> HIDE DEF at, g
<1>9. \A i \in 0..N : at[i] = g[i]
  <2> SUFFICES ASSUME NEW k \in 0..N, at[k] # g[k]
               PROVE  FALSE
    OBVIOUS
  <2> DEFINE T == {i \in Nat : i <= N /\ at[i] # g[i]}
  <2>1. k \in T /\ T \in SUBSET Nat
    BY <1>2
  <2>2. PICK m \in T : \A i \in T : m <= i
    BY <2>1, LL!LeastNatural
  <2>3. m # 0
    BY <1>2, <1>4, <1>5, <2>2
  <2>4. at[m - 1] = g[m - 1]
    BY <1>2, <2>2, <2>3
  <2> QED
    BY <1>2, <1>4, <1>5, <2>2, <2>3, <2>4
<1>10. {i \in 0..N : at[i] # NULL} = 0..(Len(s) - 1)
  BY <1>1, <1>2, <1>3, <1>8, <1>9
<1>11. Cardinality({i \in 0..N : at[i] # NULL}) = Len(s)
  BY <1>1, <1>10, CountUpTo
<1>12. \A i \in 1..Len(s) : at[i - 1] = s[i]
  BY <1>1, <1>2, <1>3, <1>8, <1>9
<1> QED
  BY <1>1, <1>6, <1>11, <1>12

(* A walk meets what Reach says. *)
LEMMA WalkReach ==
  ASSUME NEW s, NEW start, NEW step \in [Entry -> Entry \cup {NULL}], IsWalk(s, start, step)
  PROVE  \A e : e \in Reach(start, step, Entry) <=> \E i \in 1..Len(s) : s[i] = e
<1> DEFINE R == Reach(start, step, Entry)
           S == {s[i] : i \in 1..Len(s)}
<1>1. /\ s \in Seq(Entry) /\ Len(s) \in Nat /\ NULL \notin Entry
      /\ \A i \in 1..Len(s) : s[i] \in Entry
      /\ start = IF Len(s) = 0 THEN NULL ELSE s[1]
      /\ \A i \in 1..Len(s) : step[s[i]] = IF i = Len(s) THEN NULL ELSE s[i + 1]
  BY NullAssumption DEF IsWalk
<1>2. start \in Entry \cup {NULL}
  BY <1>1
<1>3. /\ R \subseteq Entry /\ (start # NULL => start \in R)
      /\ \A x \in R : step[x] # NULL => step[x] \in R
  BY <1>2, ReachClosed
<1>4. R \subseteq S
  <2>1. S \in SUBSET Entry
    BY <1>1
  <2>2. start # NULL => start \in S
    BY <1>1
  <2>3. \A x \in S : step[x] # NULL => step[x] \in S
    <3> SUFFICES ASSUME NEW i \in 1..Len(s), step[s[i]] # NULL PROVE step[s[i]] \in S
      OBVIOUS
    <3>1. i # Len(s) /\ step[s[i]] = s[i + 1] /\ i + 1 \in 1..Len(s)
      BY <1>1
    <3> QED
      BY <3>1
  <2> HIDE DEF S
  <2> QED
    BY <2>1, <2>2, <2>3, ReachLeast
<1> HIDE DEF R
<1>5. \A i \in 1..Len(s) : s[i] \in R
  <2> SUFFICES ASSUME NEW k \in 1..Len(s), s[k] \notin R PROVE FALSE
    OBVIOUS
  <2> DEFINE T == {i \in Nat : 1 <= i /\ i <= Len(s) /\ s[i] \notin R}
  <2>1. k \in T /\ T \in SUBSET Nat
    BY <1>1
  <2>2. PICK m \in T : \A i \in T : m <= i
    BY <2>1, LL!LeastNatural
  <2>3. m # 1
    BY <1>1, <1>3, <2>2
  <2>4. m - 1 \in 1..Len(s) /\ s[m - 1] \in R /\ m \in 1..Len(s) /\ s[m] \notin R
    BY <1>1, <2>2, <2>3
  <2>5. step[s[m - 1]] = s[m] /\ s[m] # NULL
    BY <1>1, <2>4
  <2> QED
    BY <1>3, <2>4, <2>5
<1> QED
  BY <1>4, <1>5 DEF R

(* A walk from nullptr meets nothing. *)
LEMMA WalkNull ==
  ASSUME NEW step
  PROVE  IsWalk(<<>>, NULL, step)
  BY DEF IsWalk

(* Only the links of what it meets matter to a walk. *)
LEMMA WalkFrame ==
  ASSUME NEW s, NEW start, NEW n, NEW m, IsWalk(s, start, n),
         \A i \in 1..Len(s) : m[s[i]] = n[s[i]]
  PROVE  IsWalk(s, start, m)
  BY DEF IsWalk

(* The walk from one of the nodes met is the rest of the walk. *)
LEMMA WalkRest ==
  ASSUME NEW s, NEW start, NEW step, IsWalk(s, start, step), NEW k \in 1..Len(s)
  PROVE  IsWalk(SubSeq(s, k, Len(s)), s[k], step)
<1> DEFINE rest == SubSeq(s, k, Len(s))
<1>1. /\ s \in Seq(Entry) /\ Len(s) \in Nat
      /\ \A i \in 1..Len(s) : step[s[i]] = IF i = Len(s) THEN NULL ELSE s[i + 1]
      /\ \A i, j \in 1..Len(s) : s[i] = s[j] => i = j
  BY DEF IsWalk
<1>2. /\ rest \in Seq(Entry) /\ Len(rest) = Len(s) - k + 1
      /\ \A i \in 1..Len(s) - k + 1 : rest[i] = s[k + i - 1]
  BY <1>1
<1> HIDE DEF rest
<1>3. s[k] = IF Len(rest) = 0 THEN NULL ELSE rest[1]
  BY <1>1, <1>2
<1>4. ASSUME NEW i \in 1..Len(rest)
      PROVE  step[rest[i]] = IF i = Len(rest) THEN NULL ELSE rest[i + 1]
  <2>1. k + i - 1 \in 1..Len(s) /\ (k + i - 1 = Len(s) <=> i = Len(rest)) /\ rest[i] = s[k + i - 1]
    BY <1>1, <1>2
  <2>2. i # Len(rest) => rest[i + 1] = s[k + i]
    BY <1>1, <1>2
  <2> QED
    BY <1>1, <2>1, <2>2
<1>5. ASSUME NEW i \in 1..Len(rest), NEW j \in 1..Len(rest), rest[i] = rest[j]
      PROVE  i = j
  <2>1. k + i - 1 \in 1..Len(s) /\ k + j - 1 \in 1..Len(s) /\ s[k + i - 1] = s[k + j - 1]
    BY <1>1, <1>2, <1>5
  <2>2. k + i - 1 = k + j - 1
    BY <1>1, <2>1
  <2> QED
    BY <2>2
<1> QED
  BY <1>2, <1>3, <1>4, <1>5 DEF IsWalk, rest

(* A step along a walk leaves its tail. *)
LEMMA WalkTail ==
  ASSUME NEW s, NEW start, NEW step, IsWalk(s, start, step), start # NULL
  PROVE  /\ s # <<>> /\ Head(s) = start
         /\ IsWalk(Tail(s), step[start], step)
<1>1. /\ s \in Seq(Entry) /\ Len(s) \in Nat /\ Len(s) # 0 /\ start = s[1]
      /\ \A i \in 1..Len(s) : step[s[i]] = IF i = Len(s) THEN NULL ELSE s[i + 1]
      /\ \A i, j \in 1..Len(s) : s[i] = s[j] => i = j
  BY DEF IsWalk
<1> DEFINE rest == Tail(s)
<1>2. /\ rest \in Seq(Entry) /\ Len(rest) = Len(s) - 1
      /\ \A i \in 1..Len(s) - 1 : rest[i] = s[i + 1]
  BY <1>1
<1> HIDE DEF rest
<1>3. step[start] = IF Len(rest) = 0 THEN NULL ELSE rest[1]
  BY <1>1, <1>2
<1>4. \A i \in 1..Len(rest) : step[rest[i]] = IF i = Len(rest) THEN NULL ELSE rest[i + 1]
  <2> TAKE i \in 1..Len(rest)
  <2>1. i + 1 \in 1..Len(s) /\ (i + 1 = Len(s) <=> i = Len(rest)) /\ rest[i] = s[i + 1]
    BY <1>1, <1>2
  <2>2. i # Len(rest) => rest[i + 1] = s[i + 1 + 1]
    BY <1>1, <1>2
  <2> QED
    BY <1>1, <2>1, <2>2
<1>5. ASSUME NEW i \in 1..Len(rest), NEW j \in 1..Len(rest), rest[i] = rest[j]
      PROVE  i = j
  <2>1. i + 1 \in 1..Len(s) /\ j + 1 \in 1..Len(s) /\ s[i + 1] = s[j + 1]
    BY <1>1, <1>2, <1>5
  <2>2. i + 1 = j + 1
    BY <1>1, <2>1
  <2> QED
    BY <2>2
<1>6. IsWalk(rest, step[start], step)
  BY <1>2, <1>3, <1>4, <1>5 DEF IsWalk
<1> QED
  BY <1>1, <1>6 DEF rest

(* A node linked in at place k of a walk is met there. *)
LEMMA WalkInserted ==
  ASSUME NEW s, NEW c, NEW n, NEW m, IsWalk(s, c, n),
         NEW e \in Entry, \A i \in 1..Len(s) : s[i] # e,
         NEW k \in 1..Len(s) + 1,
         m[e] = IF k = Len(s) + 1 THEN NULL ELSE s[k],
         k # 1 => m[s[k - 1]] = e,
         \A i \in 1..Len(s) : i # k - 1 => m[s[i]] = n[s[i]]
  PROVE  IsWalk(Abstract!S!InsertAt(s, k, e), IF k = 1 THEN e ELSE c, m)
<1> DEFINE t == LL!InsertAt(s, k, e)
<1>1. /\ s \in Seq(Entry) /\ Len(s) \in Nat
      /\ c = IF Len(s) = 0 THEN NULL ELSE s[1]
      /\ \A i \in 1..Len(s) : n[s[i]] = IF i = Len(s) THEN NULL ELSE s[i + 1]
      /\ \A i, j \in 1..Len(s) : s[i] = s[j] => i = j
  BY DEF IsWalk
<1>2. t \in Seq(Entry) /\ LL!IsInserted(t, s, k, e)
  BY <1>1, LL!InsertedAt
<1>3. t = Abstract!S!InsertAt(s, k, e)
  BY DEF LL!InsertAt, Abstract!S!InsertAt
<1> HIDE DEF t
<1>4. /\ Len(t) = Len(s) + 1
      /\ \A j \in 1..Len(s) + 1 : t[j] = IF j < k THEN s[j] ELSE IF j = k THEN e ELSE s[j - 1]
  BY <1>2 DEF LL!IsInserted
<1>5. (IF k = 1 THEN e ELSE c) = IF Len(t) = 0 THEN NULL ELSE t[1]
  BY <1>1, <1>4
<1>6. ASSUME NEW i \in 1..Len(t)
      PROVE  m[t[i]] = IF i = Len(t) THEN NULL ELSE t[i + 1]
  <2>1. CASE i < k - 1
    <3>1. i \in 1..Len(s) /\ t[i] = s[i] /\ t[i + 1] = s[i + 1] /\ i # Len(s) /\ i # Len(t) /\ i # k - 1
      BY <1>1, <1>4, <2>1
    <3> QED
      BY <1>1, <3>1
  <2>2. CASE i = k - 1
    <3>1. t[i] = s[k - 1] /\ t[i + 1] = e /\ i # Len(t) /\ k # 1
      BY <1>1, <1>4, <2>2
    <3> QED
      BY <3>1
  <2>3. CASE i = k
    <3>1. t[i] = e /\ (i = Len(t) <=> k = Len(s) + 1) /\ (i # Len(t) => t[i + 1] = s[k])
      BY <1>1, <1>4, <2>3
    <3> QED
      BY <3>1
  <2>4. CASE i > k
    <3>1. i - 1 \in 1..Len(s) /\ (i = Len(t) <=> i - 1 = Len(s)) /\ i - 1 # k - 1 /\ i - 1 + 1 = i
      BY <1>1, <1>4, <2>4
    <3>2. t[i] = s[i - 1]
      BY <1>1, <1>4, <2>4
    <3>3. ASSUME i # Len(t) PROVE t[i + 1] = s[i]
      <4>1. Len(t) = Len(s) + 1
        BY <1>4
      <4>2. Len(s) \in Int /\ i \in Int /\ k \in Int /\ i <= Len(s) + 1 /\ i # Len(s) + 1 /\ i >= 1
        BY <1>1, <3>3, <4>1
      <4>3. i + 1 \in 1..Len(s) + 1
        BY ONLY <4>2
      <4>4. ~(i + 1 < k) /\ i + 1 # k /\ i + 1 - 1 = i
        BY ONLY <2>4, <4>2
      <4> QED
        BY <1>4, <4>3, <4>4
    <3>4. n[s[i - 1]] = IF i - 1 = Len(s) THEN NULL ELSE s[i]
      BY <1>1, <3>1
    <3> QED
      BY <3>1, <3>2, <3>3, <3>4
  <2> QED
    BY <1>1, <1>4, <2>1, <2>2, <2>3, <2>4
<1>7. ASSUME NEW i \in 1..Len(t), NEW j \in 1..Len(t), t[i] = t[j]
      PROVE  i = j
  <2> DEFINE at(x) == IF x < k THEN x ELSE x - 1
  <2>1. \A x \in 1..Len(t) : IF x = k THEN t[x] = e ELSE at(x) \in 1..Len(s) /\ t[x] = s[at(x)]
    BY <1>1, <1>4
  <2>2. i = k <=> j = k
    BY <1>7, <2>1
  <2>3. ASSUME i # k PROVE i = j
    <3>1. at(i) \in 1..Len(s) /\ at(j) \in 1..Len(s) /\ s[at(i)] = s[at(j)]
      BY <1>7, <2>1, <2>2, <2>3
    <3> HIDE DEF at
    <3>2. at(i) = at(j)
      BY <1>1, <3>1
    <3> QED
      BY <1>1, <1>4, <2>2, <2>3, <3>2 DEF at
  <2> QED
    BY <2>2, <2>3
<1>8. IsWalk(t, IF k = 1 THEN e ELSE c, m)
  BY <1>2, <1>5, <1>6, <1>7 DEF IsWalk
<1> QED
  BY <1>3, <1>8

(* The walk without a node that is unlinked from it *)
LEMMA WalkRemoved ==
  ASSUME NEW s, NEW c, NEW n, NEW m, IsWalk(s, c, n), NEW e \in Entry,
         \A x \in Entry : m[x] = IF x = e THEN NULL ELSE IF n[x] = e THEN n[e] ELSE n[x]
  PROVE  IsWalk(Abstract!Dropped(s, e), IF c = e THEN n[e] ELSE c, m)
<1>1. /\ s \in Seq(Entry) /\ Len(s) \in Nat /\ NULL \notin Entry
      /\ \A i \in 1..Len(s) : s[i] \in Entry
      /\ c = IF Len(s) = 0 THEN NULL ELSE s[1]
      /\ \A i \in 1..Len(s) : n[s[i]] = IF i = Len(s) THEN NULL ELSE s[i + 1]
      /\ \A i, j \in 1..Len(s) : s[i] = s[j] => i = j
  BY NullAssumption DEF IsWalk
<1>2. CASE \A i \in 1..Len(s) : s[i] # e
  <2>1. Abstract!Dropped(s, e) = s
    BY <1>2 DEF Abstract!Dropped, Abstract!S!Contains
  <2>2. c # e
    BY <1>1, <1>2
  <2>3. \A i \in 1..Len(s) : n[s[i]] # e
    BY <1>1, <1>2
  <2>4. \A i \in 1..Len(s) : m[s[i]] = n[s[i]]
    BY <1>1, <1>2, <2>3
  <2> QED
    BY <2>1, <2>2, <2>4, WalkFrame
<1>3. ASSUME NEW k \in 1..Len(s), s[k] = e
      PROVE  IsWalk(Abstract!Dropped(s, e), IF c = e THEN n[e] ELSE c, m)
  <2> DEFINE front == SubSeq(s, 1, k - 1)
             back == SubSeq(s, k + 1, Len(s))
             t == front \o back
  <2>1. Abstract!IndexOf(s, e) = k
    BY <1>1, <1>3 DEF Abstract!IndexOf
  <2>2. Abstract!Dropped(s, e) = t
    BY <1>3, <2>1 DEF Abstract!Dropped, Abstract!S!Contains, Abstract!S!RemoveAt
  <2>3. front \in Seq(Entry) /\ Len(front) = k - 1 /\ \A i \in 1..k - 1 : front[i] = s[i]
    BY <1>1
  <2>4. /\ back \in Seq(Entry) /\ Len(back) = Len(s) - k
        /\ \A i \in 1..Len(s) - k : back[i] = s[k + i]
    BY <1>1
  <2> HIDE DEF front, back
  <2>10. t \in Seq(Entry) /\ Len(t) = Len(s) - 1
    <3>1. front \in Seq(Entry) /\ back \in Seq(Entry)
      BY <2>3, <2>4
    <3>3. t \in Seq(Entry)
      BY <3>1
    <3>4. Len(t) = Len(front) + Len(back)
      BY <3>1
    <3>2. Len(front) + Len(back) = Len(s) - 1
      BY <1>1, <2>3, <2>4
    <3> QED
      BY <3>2, <3>3, <3>4
  <2>11. \A i \in 1..Len(s) - 1 : t[i] = IF i < k THEN front[i] ELSE back[i - k + 1]
    BY <1>1, <2>3, <2>4
  <2>12. ASSUME NEW i \in 1..Len(s) - 1, ~(i < k)
        PROVE  back[i - k + 1] = s[i + 1]
    <3>1. i - k + 1 \in 1..Len(s) - k /\ k + (i - k + 1) = i + 1
      BY <1>1, <2>12
    <3> QED
      BY <2>4, <3>1
  <2>13. \A i \in 1..Len(s) - 1 : i < k => i \in 1..k - 1
    BY <1>1
  <2>5. /\ t \in Seq(Entry) /\ Len(t) = Len(s) - 1
        /\ \A i \in 1..Len(s) - 1 : t[i] = IF i < k THEN s[i] ELSE s[i + 1]
    BY <2>3, <2>10, <2>11, <2>12, <2>13
  <2> HIDE DEF t
  <2>6. (IF c = e THEN n[e] ELSE c) = IF Len(t) = 0 THEN NULL ELSE t[1]
    <3>1. c = e <=> k = 1
      BY <1>1, <1>3
    <3> QED
      BY <1>1, <1>3, <2>5, <3>1
  <2>7. ASSUME NEW i \in 1..Len(t)
        PROVE  m[t[i]] = IF i = Len(t) THEN NULL ELSE t[i + 1]
    <3>1. CASE i < k - 1
      <4>0. /\ i \in 1..Len(s) - 1 /\ i + 1 \in 1..Len(s) - 1 /\ i < k /\ i + 1 < k
            /\ i \in 1..Len(s) /\ i + 1 \in 1..Len(s)
            /\ i # Len(s) /\ i # Len(t) /\ i # k /\ i + 1 # k
        BY <1>1, <2>5, <3>1
      <4>1. t[i] = s[i] /\ t[i + 1] = s[i + 1]
        BY <2>5, <4>0
      <4>2. s[i] # e /\ s[i + 1] # e /\ n[s[i]] = s[i + 1]
        BY <1>1, <1>3, <4>0
      <4> QED
        BY <1>1, <4>0, <4>1, <4>2
    <3>2. CASE i = k - 1
      <4>0. /\ i \in 1..Len(s) /\ i \in 1..Len(s) - 1 /\ i < k /\ i # Len(s) /\ i # k /\ i + 1 = k
            /\ i = Len(t) <=> k = Len(s)
            /\ i # Len(t) => k \in 1..Len(s) - 1 /\ ~(k < k)
        BY <1>1, <2>5, <3>2
      <4>1. t[i] = s[i] /\ (i # Len(t) => t[i + 1] = s[k + 1])
        BY <2>5, <4>0
      <4>2. s[i] # e /\ n[s[i]] = e /\ n[e] = IF k = Len(s) THEN NULL ELSE s[k + 1]
        BY <1>1, <1>3, <4>0
      <4> QED
        BY <1>1, <4>0, <4>1, <4>2
    <3>3. CASE i >= k
      <4>0. /\ i \in 1..Len(s) - 1 /\ ~(i < k) /\ i + 1 \in 1..Len(s) /\ i + 1 # k
            /\ i = Len(t) <=> i + 1 = Len(s)
            /\ i # Len(t) => /\ i + 1 \in 1..Len(s) - 1 /\ ~(i + 1 < k)
                             /\ i + 1 + 1 \in 1..Len(s) /\ i + 1 + 1 # k
        BY <1>1, <2>5, <3>3
      <4>1. t[i] = s[i + 1] /\ (i # Len(t) => t[i + 1] = s[i + 1 + 1])
        BY <2>5, <4>0
      <4>2. s[i + 1] # e /\ n[s[i + 1]] = IF i + 1 = Len(s) THEN NULL ELSE s[i + 1 + 1]
        BY <1>1, <1>3, <4>0
      <4>3. n[s[i + 1]] # e
        BY <1>1, <1>3, <4>0, <4>2
      <4> QED
        BY <1>1, <4>0, <4>1, <4>2, <4>3
    <3> QED
      BY <1>1, <2>5, <3>1, <3>2, <3>3
  <2>8. ASSUME NEW i \in 1..Len(t), NEW j \in 1..Len(t), t[i] = t[j]
        PROVE  i = j
    <3> DEFINE at(x) == IF x < k THEN x ELSE x + 1
    <3>0. i \in 1..Len(s) - 1 /\ j \in 1..Len(s) - 1 /\ i \in Int /\ j \in Int
      BY <2>5
    <3>1. at(i) \in 1..Len(s) /\ at(j) \in 1..Len(s)
      BY <1>1, <3>0
    <3>2. s[at(i)] = s[at(j)]
      BY <2>5, <2>8, <3>0
    <3> HIDE DEF at
    <3>3. at(i) = at(j)
      BY <1>1, <3>1, <3>2
    <3> QED
      BY <1>1, <3>0, <3>3 DEF at
  <2>9. IsWalk(t, IF c = e THEN n[e] ELSE c, m)
    BY <2>5, <2>6, <2>7, <2>8 DEF IsWalk
  <2> QED
    BY <2>2, <2>9
<1> QED
  BY <1>2, <1>3

(* Read from the other end a list is the reversed sequence. *)
LEMMA WalkReversed ==
  ASSUME NEW fst, NEW lst, NEW prv, NEW nxt, NEW own,
         LinkTypes(Entry, fst, prv, nxt, own), Linked(Entry, fst, prv, nxt, own),
         LinkTypes(Entry, lst, nxt, prv, own), Linked(Entry, lst, nxt, prv, own),
         NEW l \in List, NEW s, IsWalk(s, fst[l], nxt)
  PROVE  IsWalk(Abstract!S!Reverse(s), lst[l], prv)
<1> DEFINE t == [i \in 1..Len(s) |-> s[Len(s) - i + 1]]
<1>1. /\ s \in Seq(Entry) /\ Len(s) \in Nat /\ NULL \notin Entry
      /\ \A i \in 1..Len(s) : s[i] \in Entry
      /\ fst[l] = IF Len(s) = 0 THEN NULL ELSE s[1]
      /\ \A i \in 1..Len(s) : nxt[s[i]] = IF i = Len(s) THEN NULL ELSE s[i + 1]
      /\ \A i, j \in 1..Len(s) : s[i] = s[j] => i = j
  BY NullAssumption DEF IsWalk
<1>2. nxt \in [Entry -> Entry \cup {NULL}]
  BY DEF LinkTypes
<1>3. \A e \in Entry : own[e] = l <=> \E i \in 1..Len(s) : s[i] = e
  <2>1. \A e : e \in Reach(fst[l], nxt, Entry) <=> \E i \in 1..Len(s) : s[i] = e
    BY <1>2, WalkReach
  <2> QED
    BY <2>1 DEF Linked
<1>4. /\ t \in Seq(Entry) /\ Len(t) = Len(s)
      /\ \A i \in 1..Len(s) : t[i] = s[Len(s) - i + 1]
  BY <1>1
<1>5. t = Abstract!S!Reverse(s)
  BY DEF Abstract!S!Reverse
<1> HIDE DEF t
<1>6. lst[l] = IF Len(t) = 0 THEN NULL ELSE t[1]
  <2>1. CASE Len(s) = 0
    <3>1. lst[l] \in Entry \cup {NULL}
      BY DEF LinkTypes
    <3>2. lst[l] # NULL => own[lst[l]] = l
      BY DEF Linked
    <3> QED
      BY <1>1, <1>3, <1>4, <2>1, <3>1, <3>2
  <2>2. CASE Len(s) # 0
    <3>1. t[1] = s[Len(s)] /\ Len(s) \in 1..Len(s)
      BY <1>1, <1>4, <2>2
    <3>2. own[s[Len(s)]] = l /\ nxt[s[Len(s)]] = NULL /\ s[Len(s)] \in Entry /\ l # NULL
      BY <1>1, <1>3, <3>1, NullAssumption
    <3>3. lst[l] = s[Len(s)]
      BY <3>2 DEF Linked
    <3> QED
      BY <1>4, <2>2, <3>1, <3>3
  <2> QED
    BY <2>1, <2>2
<1>7. ASSUME NEW i \in 1..Len(t)
      PROVE  prv[t[i]] = IF i = Len(t) THEN NULL ELSE t[i + 1]
  <2>1. CASE i = Len(t)
    <3>1. t[i] = s[1] /\ fst[l] = s[1] /\ s[1] # NULL
      BY <1>1, <1>4, <2>1
    <3>2. prv[fst[l]] = NULL
      BY <3>1 DEF Linked
    <3> QED
      BY <2>1, <3>1, <3>2
  <2>2. CASE i # Len(t)
    <3>0. /\ Len(s) - i \in 1..Len(s) /\ Len(s) - i # Len(s) /\ i \in 1..Len(s) /\ i + 1 \in 1..Len(s)
          /\ Len(s) - i + 1 \in 1..Len(s) /\ Len(s) - (i + 1) + 1 = Len(s) - i
      BY <1>1, <1>4, <2>2
    <3>1. t[i] = s[Len(s) - i + 1] /\ t[i + 1] = s[Len(s) - i]
      BY <1>4, <3>0
    <3>2. nxt[s[Len(s) - i]] = s[Len(s) - i + 1] /\ s[Len(s) - i + 1] # NULL /\ s[Len(s) - i] \in Entry
      BY <1>1, <3>0
    <3>3. prv[s[Len(s) - i + 1]] = s[Len(s) - i]
      BY <3>2 DEF Linked
    <3> QED
      BY <2>2, <3>0, <3>1, <3>3
  <2> QED
    BY <2>1, <2>2
<1>8. ASSUME NEW i \in 1..Len(t), NEW j \in 1..Len(t), t[i] = t[j]
      PROVE  i = j
  <2>1. /\ Len(s) - i + 1 \in 1..Len(s) /\ Len(s) - j + 1 \in 1..Len(s)
        /\ s[Len(s) - i + 1] = s[Len(s) - j + 1]
    BY <1>1, <1>4, <1>8
  <2>2. Len(s) - i + 1 = Len(s) - j + 1
    BY <1>1, <2>1
  <2> QED
    BY <1>1, <1>4, <2>2
<1>9. IsWalk(t, lst[l], prv)
  BY <1>4, <1>6, <1>7, <1>8 DEF IsWalk
<1> QED
  BY <1>5, <1>9

-----------------------------------------------------------------------------
(* The invariant: next to that of the pointers, the walk of every list ends.
   It is carried along rather than derived from the number of entries. *)
Walks == \A l \in List : IsWalk(order[l], first[l], next)

RInv == IInv /\ Walks

(* The sequences that are walks of the lists are the order of them. *)
LEMMA OrderIs ==
  ASSUME IsFiniteSet(Entry), NEW f, NEW n, NEW o, DOMAIN o = List, o = [l \in List |-> o[l]],
         \A l \in List : IsWalk(o[l], f[l], n)
  PROVE  [l \in List |-> Walk(f[l], n)] = o
<1>1. \A l \in List : Walk(f[l], n) = o[l]
  BY WalkIs
<1> QED
  BY <1>1

(* Which entries the sequence of a list holds *)
LEMMA OrderFacts ==
  RInv => /\ order = [l \in List |-> order[l]]
          /\ \A l \in List :
               /\ order[l] \in Seq(Entry)
               /\ \A i \in 1..Len(order[l]) : order[l][i] \in Entry /\ linklist[order[l][i]] = l
               /\ \A e \in Entry : linklist[e] = l => \E i \in 1..Len(order[l]) : order[l][i] = e
               /\ \A e : Abstract!S!Contains(order[l], e) <=> e \in Entry /\ linklist[e] = l
<1> HAVE RInv
<1>1. order = [l \in List |-> order[l]]
  BY DEF order
<1>2. ASSUME NEW l \in List
      PROVE  /\ order[l] \in Seq(Entry)
             /\ \A i \in 1..Len(order[l]) : order[l][i] \in Entry /\ linklist[order[l][i]] = l
             /\ \A e \in Entry : linklist[e] = l => \E i \in 1..Len(order[l]) : order[l][i] = e
             /\ \A e : Abstract!S!Contains(order[l], e) <=> e \in Entry /\ linklist[e] = l
  <2>1. IsWalk(order[l], first[l], next)
    BY DEF RInv, Walks
  <2>2. next \in [Entry -> Entry \cup {NULL}]
    BY DEF RInv, IInv, TypeOK
  <2>3. \A e : e \in Reach(first[l], next, Entry) <=> \E i \in 1..Len(order[l]) : order[l][i] = e
    BY <2>1, <2>2, WalkReach
  <2>4. \A e \in Entry : e \in Reach(first[l], next, Entry) <=> linklist[e] = l
    BY DEF RInv, IInv, EntriesLinked, Linked
  <2>5. order[l] \in Seq(Entry)
    BY <2>1 DEF IsWalk
  <2>6. \A i \in 1..Len(order[l]) : order[l][i] \in Entry
    BY <2>5
  <2>7. \A i \in 1..Len(order[l]) : linklist[order[l][i]] = l
    BY <2>3, <2>4, <2>6
  <2>8. \A e \in Entry : linklist[e] = l => \E i \in 1..Len(order[l]) : order[l][i] = e
    BY <2>3, <2>4
  <2>9. \A e : Abstract!S!Contains(order[l], e) <=> e \in Entry /\ linklist[e] = l
    BY <2>6, <2>7, <2>8 DEF Abstract!S!Contains
  <2> QED
    BY <2>5, <2>6, <2>7, <2>8, <2>9
<1> QED
  BY <1>1, <1>2

(* What an iterator meets that starts at an end of a list, and from one of its
   entries *)
LEMMA DirectedFacts ==
  RInv => \A l \in List, fwd \in BOOLEAN :
            /\ IsWalk(Abstract!Directed(order[l], fwd),
                      IF fwd THEN first[l] ELSE last[l], IF fwd THEN next ELSE prev)
            /\ \A e : Abstract!S!Contains(Abstract!Directed(order[l], fwd), e) <=>
                        e \in Entry /\ linklist[e] = l
            /\ \A e \in Entry : linklist[e] = l =>
                 IsWalk(Abstract!From(Abstract!Directed(order[l], fwd), e),
                        e, IF fwd THEN next ELSE prev)
<1> SUFFICES ASSUME RInv, NEW l \in List, NEW fwd \in BOOLEAN
             PROVE  /\ IsWalk(Abstract!Directed(order[l], fwd),
                              IF fwd THEN first[l] ELSE last[l], IF fwd THEN next ELSE prev)
                    /\ \A e : Abstract!S!Contains(Abstract!Directed(order[l], fwd), e) <=>
                                e \in Entry /\ linklist[e] = l
                    /\ \A e \in Entry : linklist[e] = l =>
                         IsWalk(Abstract!From(Abstract!Directed(order[l], fwd), e),
                                e, IF fwd THEN next ELSE prev)
  OBVIOUS
<1> DEFINE d == Abstract!Directed(order[l], fwd)
           head == IF fwd THEN first[l] ELSE last[l]
           dir == IF fwd THEN next ELSE prev
<1>1. IsWalk(order[l], first[l], next)
  BY DEF RInv, Walks
<1>2. IsWalk(Abstract!S!Reverse(order[l]), last[l], prev)
  <2>1. /\ LinkTypes(Entry, first, prev, next, linklist)
        /\ LinkTypes(Entry, last, next, prev, linklist)
        /\ Linked(Entry, first, prev, next, linklist)
        /\ Linked(Entry, last, next, prev, linklist)
    BY TypesOfLinks DEF RInv, IInv, EntriesLinked
  <2> QED
    BY <1>1, <2>1, WalkReversed
<1>3. IsWalk(d, head, dir)
  BY <1>1, <1>2 DEF Abstract!Directed
<1>4. dir \in [Entry -> Entry \cup {NULL}]
  BY DEF RInv, IInv, TypeOK
<1>5. \A e \in Entry : e \in Reach(head, dir, Entry) <=> linklist[e] = l
  BY DEF RInv, IInv, EntriesLinked, Linked
<1> HIDE DEF d, head, dir
<1>6. \A e : e \in Reach(head, dir, Entry) <=> \E i \in 1..Len(d) : d[i] = e
  BY <1>3, <1>4, WalkReach
<1>7. d \in Seq(Entry) /\ \A i, j \in 1..Len(d) : d[i] = d[j] => i = j
  BY <1>3 DEF IsWalk
<1>8. \A e : Abstract!S!Contains(d, e) <=> e \in Entry /\ linklist[e] = l
  <2>1. \A i \in 1..Len(d) : d[i] \in Entry
    BY <1>7
  <2> QED
    BY <1>5, <1>6, <2>1 DEF Abstract!S!Contains
<1>9. ASSUME NEW e \in Entry, linklist[e] = l
      PROVE  IsWalk(Abstract!From(d, e), e, dir)
  <2>1. PICK i \in 1..Len(d) : d[i] = e
    BY <1>8, <1>9 DEF Abstract!S!Contains
  <2>2. Abstract!IndexOf(d, e) = i
    BY <1>7, <2>1 DEF Abstract!IndexOf
  <2>3. Abstract!From(d, e) = SubSeq(d, i, Len(d))
    BY <2>2 DEF Abstract!From
  <2> QED
    BY <1>3, <2>1, <2>3, WalkRest
<1> QED
  BY <1>3, <1>8, <1>9 DEF d, head, dir

(* What an iteration returns is the part of the list from its current entry. *)
Rest(it) ==
  IF current_entry_[it] = NULL THEN <<>>
  ELSE Abstract!From(Abstract!Directed(order[list_[it]], iterate_forward_[it]), current_entry_[it])

(* What an iterator has still to return is a walk from where it stands, empty when it stands
   nowhere. *)
LEMMA TodoFacts ==
  IsFiniteSet(Entry) /\ RInv =>
    /\ todo = [it \in Iter |-> Rest(it)]
    /\ \A it \in Iter :
         /\ IsWalk(todo[it], current_entry_[it], Onward(it))
         /\ todo[it] = <<>> <=> current_entry_[it] = NULL
         /\ current_entry_[it] # NULL => Head(todo[it]) = current_entry_[it]
<1> HAVE IsFiniteSet(Entry) /\ RInv
<1>1. ASSUME NEW it \in Iter
      PROVE  /\ todo[it] = Rest(it)
             /\ IsWalk(todo[it], current_entry_[it], Onward(it))
             /\ todo[it] = <<>> <=> current_entry_[it] = NULL
             /\ current_entry_[it] # NULL => Head(todo[it]) = current_entry_[it]
  <2>1. IsWalk(Rest(it), current_entry_[it], Onward(it))
    <3>1. CASE current_entry_[it] = NULL
      BY <3>1, WalkNull DEF Rest
    <3>2. CASE current_entry_[it] # NULL
      <4>1. /\ current_entry_[it] \in Entry /\ list_[it] \in List
            /\ linklist[current_entry_[it]] = list_[it] /\ iterate_forward_[it] \in BOOLEAN
        BY <3>2 DEF RInv, IInv, TypeOK, IteratorsOnList
      <4> QED
        BY <3>2, <4>1, DirectedFacts DEF Rest, Onward
    <3> QED
      BY <3>1, <3>2
  <2>2. todo[it] = Rest(it)
    BY <2>1, WalkIs DEF todo
  <2>3. /\ Rest(it) \in Seq(Entry)
        /\ current_entry_[it] = IF Len(Rest(it)) = 0 THEN NULL ELSE Rest(it)[1]
    BY <2>1 DEF IsWalk
  <2>4. NULL \notin Entry
    BY NullAssumption
  <2>5. todo[it] = <<>> <=> current_entry_[it] = NULL
    BY <2>2, <2>3, <2>4
  <2>6. current_entry_[it] # NULL => Head(todo[it]) = current_entry_[it]
    BY <2>2, <2>3
  <2> QED
    BY <2>1, <2>2, <2>5, <2>6
<1>2. todo = [it \in Iter |-> todo[it]]
  BY DEF todo
<1> QED
  BY <1>1, <1>2

-----------------------------------------------------------------------------
(* The steps.  Each finds the sequences that are walks of the lists after the
   step, which are the order then, and reads what iterations return off them. *)

(* The sequences that are walks of the lists after a step are their order. *)
LEMMA Becomes ==
  ASSUME IsFiniteSet(Entry), NEW o, o = [l \in List |-> o[l]],
         \A l \in List : IsWalk(o[l], first'[l], next')
  PROVE  order' = o /\ Walks'
<1>1. [l \in List |-> Walk(first'[l], next')] = o
  BY OrderIs
<1>2. order' = o
  BY <1>1 DEF order
<1> QED
  BY <1>2 DEF Walks

(* A list none of whose pointers changes keeps its walk. *)
LEMMA OtherFrame ==
  ASSUME RInv, NEW l \in List, first'[l] = first[l],
         \A e \in Entry : linklist[e] = l => next'[e] = next[e]
  PROVE  IsWalk(order[l], first'[l], next')
<1>1. IsWalk(order[l], first[l], next)
  BY DEF RInv, Walks
<1>2. \A i \in 1..Len(order[l]) : next'[order[l][i]] = next[order[l][i]]
  BY OrderFacts
<1> QED
  BY <1>1, <1>2, WalkFrame

(* Adding at place k of the walk is adding there. *)
LEMMA AddRefines ==
  ASSUME IsFiniteSet(Entry), RInv, IInv', NEW l \in List, NEW e \in Entry, Added(l, e),
         NEW k \in 1..Len(order[l]) + 1,
         IsWalk(Abstract!S!InsertAt(order[l], k, e), first'[l], next'),
         \A j \in List \ {l} : first'[j] = first[j],
         \A x \in Entry : linklist[x] # NULL /\ linklist[x] # l => next'[x] = next[x]
  PROVE  Walks' /\ Abstract!Add(l, e)
<1> DEFINE o == [order EXCEPT ![l] = Abstract!S!InsertAt(order[l], k, e)]
<1>1. NULL \notin List /\ linklist[e] = NULL
  BY NullAssumption DEF Added
<1>2. order = [j \in List |-> order[j]]
  BY OrderFacts
<1>3. \A j \in List : o[j] = IF j = l THEN Abstract!S!InsertAt(order[l], k, e) ELSE order[j]
  BY <1>2
<1>4. o = [j \in List |-> o[j]]
  BY <1>2
<1> HIDE DEF o
<1>5. \A j \in List : IsWalk(o[j], first'[j], next')
  <2> TAKE j \in List
  <2>1. CASE j = l
    BY <1>3, <2>1
  <2>2. CASE j # l
    BY <1>1, <1>3, <2>2, OtherFrame
  <2> QED
    BY <2>1, <2>2
<1>6. order' = o /\ Walks'
  BY <1>4, <1>5, Becomes
<1>7. \A j \in List : ~Abstract!S!Contains(order[j], e)
  BY <1>1, OrderFacts
<1>8. /\ UNCHANGED <<list_, iterate_forward_, current_entry_>>
  BY DEF Added, chainVars
<1>9. todo' = [it \in Iter |->
                 IF list_[it] = l /\ todo[it] # <<>>
                   THEN Abstract!From(Abstract!Directed(order'[l], iterate_forward_[it]), Head(todo[it]))
                   ELSE todo[it]]
  <2>1. RInv'
    BY <1>6 DEF RInv
  <2>2. todo' = [it \in Iter |-> Rest(it)']
    <3>1. (IsFiniteSet(Entry) /\ RInv => todo = [it \in Iter |-> Rest(it)])'
      BY TodoFacts, PTL
    <3> QED
      BY <2>1, <3>1
  <2>3. ASSUME NEW it \in Iter
        PROVE  Rest(it)' = IF list_[it] = l /\ todo[it] # <<>>
                             THEN Abstract!From(Abstract!Directed(order'[l], iterate_forward_[it]), Head(todo[it]))
                             ELSE todo[it]
    <3>1. /\ todo[it] = Rest(it)
          /\ todo[it] = <<>> <=> current_entry_[it] = NULL
          /\ current_entry_[it] # NULL => Head(todo[it]) = current_entry_[it]
      BY TodoFacts
    <3>2. Rest(it)' = IF current_entry_[it] = NULL THEN <<>>
                      ELSE Abstract!From(Abstract!Directed(order'[list_[it]], iterate_forward_[it]),
                                         current_entry_[it])
      BY <1>8 DEF Rest
    <3>3. current_entry_[it] # NULL => list_[it] \in List
      BY DEF RInv, IInv, TypeOK, IteratorsOnList
    <3>4. current_entry_[it] # NULL /\ list_[it] # l => order'[list_[it]] = order[list_[it]]
      BY <1>3, <1>6, <3>3
    <3> QED
      BY <3>1, <3>2, <3>4 DEF Rest
  <2> QED
    BY <2>2, <2>3
<1> QED
  BY <1>6, <1>7, <1>8, <1>9 DEF Abstract!Add, o

(* AddFirst adds in front. *)
LEMMA AddFirstRefines ==
  ASSUME IsFiniteSet(Entry), RInv, IInv', NEW l \in List, NEW e \in Entry, AddFirst(l, e)
  PROVE  Walks' /\ Abstract!Add(l, e)
<1>1. /\ Added(l, e) /\ next \in [Entry -> Entry \cup {NULL}] /\ first \in [List -> Entry \cup {NULL}]
      /\ next' = [next EXCEPT ![e] = first[l]] /\ first' = [first EXCEPT ![l] = e]
      /\ linklist[e] = NULL /\ NULL \notin List
  BY NullAssumption DEF AddFirst, Added, RInv, IInv, TypeOK
<1> DEFINE s == order[l]
<1>2. IsWalk(s, first[l], next)
  BY DEF RInv, Walks
<1>3. \A i \in 1..Len(s) : s[i] \in Entry /\ s[i] # e
  BY <1>1, OrderFacts
<1>4. s \in Seq(Entry) /\ Len(s) \in Nat /\ first[l] = IF Len(s) = 0 THEN NULL ELSE s[1]
  BY <1>2 DEF IsWalk
<1> HIDE DEF s
<1>5. /\ 1 \in 1..Len(s) + 1
      /\ next'[e] = IF 1 = Len(s) + 1 THEN NULL ELSE s[1]
      /\ \A i \in 1..Len(s) : i # 1 - 1 => next'[s[i]] = next[s[i]]
  BY <1>1, <1>3, <1>4
<1>6. IsWalk(Abstract!S!InsertAt(s, 1, e), IF 1 = 1 THEN e ELSE first[l], next')
  BY <1>2, <1>3, <1>5, WalkInserted
<1>7. IsWalk(Abstract!S!InsertAt(s, 1, e), first'[l], next')
  BY <1>1, <1>6
<1>8. \A x \in Entry : linklist[x] # NULL /\ linklist[x] # l => next'[x] = next[x]
  BY <1>1
<1>9. \A j \in List \ {l} : first'[j] = first[j]
  BY <1>1
<1> QED
  BY <1>1, <1>5, <1>7, <1>8, <1>9, AddRefines DEF s

(* AddLast adds at the end. *)
LEMMA AddLastRefines ==
  ASSUME IsFiniteSet(Entry), RInv, IInv', NEW l \in List, NEW e \in Entry, AddLast(l, e)
  PROVE  Walks' /\ Abstract!Add(l, e)
<1>1. /\ Added(l, e) /\ next \in [Entry -> Entry \cup {NULL}] /\ first \in [List -> Entry \cup {NULL}]
      /\ last[l] \in Entry \cup {NULL} /\ NULL \notin Entry
      /\ next' = Assign(next, last[l], e)
      /\ first' = IF first[l] = NULL THEN [first EXCEPT ![l] = e] ELSE first
      /\ linklist[e] = NULL /\ NULL \notin List
      /\ next[e] = NULL
  BY NullAssumption DEF AddLast, Added, RInv, IInv, TypeOK, EntriesLinked, Linked
<1> DEFINE s == order[l]
<1>2. IsWalk(s, first[l], next)
  BY DEF RInv, Walks
<1>3. \A i \in 1..Len(s) : s[i] \in Entry /\ s[i] # e
  BY <1>1, OrderFacts
<1>4. /\ s \in Seq(Entry) /\ Len(s) \in Nat /\ first[l] = IF Len(s) = 0 THEN NULL ELSE s[1]
      /\ \A i, j \in 1..Len(s) : s[i] = s[j] => i = j
  BY <1>2 DEF IsWalk
<1>5. last[l] = IF Len(s) = 0 THEN NULL ELSE s[Len(s)]
  <2>1. CASE Len(s) = 0
    BY <1>1, <2>1, OrderFacts DEF RInv, IInv, EntriesLinked, Linked
  <2>2. CASE Len(s) # 0
    <3>1. Len(s) \in 1..Len(s) /\ s[Len(s)] \in Entry
      BY <1>3, <1>4, <2>2
    <3>2. next[s[Len(s)]] = NULL
      BY <1>2, <3>1 DEF IsWalk
    <3>3. linklist[s[Len(s)]] = l
      BY <3>1, OrderFacts
    <3> QED
      BY <1>1, <2>2, <3>1, <3>2, <3>3 DEF RInv, IInv, EntriesLinked, Linked
  <2> QED
    BY <2>1, <2>2
<1>10. last[l] # NULL => linklist[last[l]] = l
  BY DEF RInv, IInv, EntriesLinked, Linked
<1> HIDE DEF s
<1>11. /\ next'[e] = NULL
       /\ \A x \in Entry : next'[x] = IF x = last[l] THEN e ELSE next[x]
  BY <1>1, <1>10 DEF Assign
<1> DEFINE k == Len(s) + 1
<1>12. k \in 1..Len(s) + 1 /\ k = Len(s) + 1 /\ (k # 1 => k - 1 = Len(s) /\ Len(s) # 0)
  BY <1>4
<1> HIDE DEF k
<1>13. next'[e] = IF k = Len(s) + 1 THEN NULL ELSE s[k]
  BY <1>11, <1>12
<1>14. k # 1 => next'[s[k - 1]] = e
  BY <1>1, <1>3, <1>4, <1>5, <1>11, <1>12
<1>15. \A i \in 1..Len(s) : i # k - 1 => next'[s[i]] = next[s[i]]
  <2> SUFFICES ASSUME NEW i \in 1..Len(s), i # k - 1 PROVE next'[s[i]] = next[s[i]]
    OBVIOUS
  <2>1. Len(s) # 0 /\ Len(s) \in 1..Len(s) /\ i # Len(s)
    BY <1>4, <1>12
  <2>2. s[i] # last[l]
    BY <1>4, <1>5, <2>1
  <2> QED
    BY <1>3, <1>11, <2>2
<1>16. IsWalk(Abstract!S!InsertAt(s, k, e), IF k = 1 THEN e ELSE first[l], next')
  <2>1. \A i \in 1..Len(s) : s[i] # e
    BY <1>3
  <2>2. k \in 1..Len(s) + 1
    BY <1>12
  <2> QED
    BY <1>2, <1>13, <1>14, <1>15, <2>1, <2>2, WalkInserted
<1>17. first'[l] = IF k = 1 THEN e ELSE first[l]
  BY <1>1, <1>3, <1>4, <1>12
<1>18. \A x \in Entry : linklist[x] # NULL /\ linklist[x] # l => next'[x] = next[x]
  BY <1>1, <1>10, <1>11
<1>19. \A j \in List \ {l} : first'[j] = first[j]
  BY <1>1
<1> QED
  BY <1>1, <1>12, <1>16, <1>17, <1>18, <1>19, AddRefines DEF s

(* AddAfter adds behind its reference. *)
LEMMA AddAfterRefines ==
  ASSUME IsFiniteSet(Entry), RInv, IInv', NEW l \in List, NEW e \in Entry,
         NEW reference \in Entry, AddAfter(l, e, reference)
  PROVE  Walks' /\ Abstract!Add(l, e)
<1>1. /\ Added(l, e) /\ next \in [Entry -> Entry \cup {NULL}] /\ first' = first
      /\ next' = [next EXCEPT ![e] = next[reference], ![reference] = e]
      /\ linklist[e] = NULL /\ linklist[reference] = l /\ NULL \notin List
  BY NullAssumption DEF AddAfter, Added, RInv, IInv, TypeOK
<1> DEFINE s == order[l]
<1>2. IsWalk(s, first[l], next)
  BY DEF RInv, Walks
<1>3. \A i \in 1..Len(s) : s[i] \in Entry /\ s[i] # e
  BY <1>1, OrderFacts
<1>4. /\ s \in Seq(Entry) /\ Len(s) \in Nat
      /\ \A i, j \in 1..Len(s) : s[i] = s[j] => i = j
      /\ \A i \in 1..Len(s) : next[s[i]] = IF i = Len(s) THEN NULL ELSE s[i + 1]
  BY <1>2 DEF IsWalk
<1>5. PICK i \in 1..Len(s) : s[i] = reference
  BY <1>1, OrderFacts
<1> HIDE DEF s
<1>6. reference # e
  BY <1>1
<1>7. /\ next'[e] = next[reference] /\ next'[reference] = e
      /\ \A x \in Entry : x # e /\ x # reference => next'[x] = next[x]
  BY <1>1, <1>6
<1> DEFINE k == i + 1
<1>8. k \in 1..Len(s) + 1 /\ k # 1 /\ k - 1 = i /\ (k = Len(s) + 1 <=> i = Len(s))
  BY <1>4
<1>9. next'[e] = IF k = Len(s) + 1 THEN NULL ELSE s[k]
  BY <1>4, <1>5, <1>7, <1>8
<1> HIDE DEF k
<1>10. k # 1 => next'[s[k - 1]] = e
  BY <1>5, <1>7, <1>8
<1>11. \A j \in 1..Len(s) : j # k - 1 => next'[s[j]] = next[s[j]]
  BY <1>3, <1>4, <1>5, <1>7, <1>8
<1>12. IsWalk(Abstract!S!InsertAt(s, k, e), IF k = 1 THEN e ELSE first[l], next')
  <2>1. \A j \in 1..Len(s) : s[j] # e
    BY <1>3
  <2>2. k \in 1..Len(s) + 1
    BY <1>8
  <2> QED
    BY <1>2, <1>9, <1>10, <1>11, <2>1, <2>2, WalkInserted
<1>13. IsWalk(Abstract!S!InsertAt(s, k, e), first'[l], next')
  BY <1>1, <1>8, <1>12
<1>14. \A x \in Entry : linklist[x] # NULL /\ linklist[x] # l => next'[x] = next[x]
  BY <1>1, <1>7
<1>15. \A j \in List \ {l} : first'[j] = first[j]
  BY <1>1
<1> QED
  BY <1>1, <1>8, <1>13, <1>14, <1>15, AddRefines DEF s

(* AddBefore adds in front of its reference. *)
LEMMA AddBeforeRefines ==
  ASSUME IsFiniteSet(Entry), RInv, IInv', NEW l \in List, NEW e \in Entry,
         NEW reference \in Entry, AddBefore(l, e, reference)
  PROVE  Walks' /\ Abstract!Add(l, e)
<1>1. /\ Added(l, e) /\ next \in [Entry -> Entry \cup {NULL}] /\ first \in [List -> Entry \cup {NULL}]
      /\ prev[reference] \in Entry \cup {NULL} /\ NULL \notin Entry
      /\ next' = Assign([next EXCEPT ![e] = reference], prev[reference], e)
      /\ first' = IF prev[reference] = NULL THEN [first EXCEPT ![l] = e] ELSE first
      /\ linklist[e] = NULL /\ linklist[reference] = l /\ NULL \notin List
  BY NullAssumption DEF AddBefore, Added, RInv, IInv, TypeOK
<1> DEFINE s == order[l]
<1>2. IsWalk(s, first[l], next)
  BY DEF RInv, Walks
<1>3. \A i \in 1..Len(s) : s[i] \in Entry /\ s[i] # e
  BY <1>1, OrderFacts
<1>4. /\ s \in Seq(Entry) /\ Len(s) \in Nat /\ first[l] = IF Len(s) = 0 THEN NULL ELSE s[1]
      /\ \A i, j \in 1..Len(s) : s[i] = s[j] => i = j
      /\ \A i \in 1..Len(s) : next[s[i]] = IF i = Len(s) THEN NULL ELSE s[i + 1]
  BY <1>2 DEF IsWalk
<1>5. PICK k \in 1..Len(s) : s[k] = reference
  BY <1>1, OrderFacts
<1> HIDE DEF s
<1>6. reference # e /\ prev[reference] # e
  <2>1. prev[reference] # NULL => linklist[prev[reference]] = l
    BY <1>1 DEF RInv, IInv, EntriesLinked, Linked
  <2> QED
    BY <1>1, <2>1
<1>7. prev[reference] = IF k = 1 THEN NULL ELSE s[k - 1]
  <2>1. CASE k = 1
    <3>1. first[l] = reference /\ reference # NULL
      BY <1>1, <1>4, <1>5, <2>1
    <3> QED
      BY <2>1, <3>1 DEF RInv, IInv, EntriesLinked, Linked
  <2>2. CASE k # 1
    <3>1. k - 1 \in 1..Len(s) /\ k - 1 # Len(s) /\ k - 1 + 1 = k
      BY <1>4, <2>2
    <3>2. next[s[k - 1]] = reference /\ s[k - 1] \in Entry /\ reference # NULL
      BY <1>1, <1>3, <1>4, <1>5, <3>1
    <3> QED
      BY <2>2, <3>2 DEF RInv, IInv, EntriesLinked, Linked
  <2> QED
    BY <2>1, <2>2
<1>8. /\ next'[e] = reference
      /\ prev[reference] # NULL => next'[prev[reference]] = e
      /\ \A x \in Entry : x # e /\ x # prev[reference] => next'[x] = next[x]
  BY <1>1, <1>6 DEF Assign
<1>9. k \in 1..Len(s) + 1 /\ k # Len(s) + 1
  BY <1>4
<1>10. next'[e] = IF k = Len(s) + 1 THEN NULL ELSE s[k]
  BY <1>5, <1>8, <1>9
<1>11. k # 1 => next'[s[k - 1]] = e /\ s[k - 1] # NULL /\ k - 1 \in 1..Len(s)
  <2> HAVE k # 1
  <2>1. k - 1 \in 1..Len(s)
    BY <1>4
  <2>2. s[k - 1] \in Entry
    BY <1>3, <2>1
  <2> QED
    BY <1>1, <1>7, <1>8, <2>1, <2>2
<1>12. \A j \in 1..Len(s) : j # k - 1 => next'[s[j]] = next[s[j]]
  <2> SUFFICES ASSUME NEW j \in 1..Len(s), j # k - 1 PROVE next'[s[j]] = next[s[j]]
    OBVIOUS
  <2>1. s[j] \in Entry /\ s[j] # e
    BY <1>3
  <2>2. s[j] # prev[reference]
    BY <1>1, <1>4, <1>7, <1>11, <2>1
  <2> QED
    BY <1>8, <2>1, <2>2
<1>13. IsWalk(Abstract!S!InsertAt(s, k, e), IF k = 1 THEN e ELSE first[l], next')
  <2>1. \A j \in 1..Len(s) : s[j] # e
    BY <1>3
  <2>2. k \in 1..Len(s) + 1 /\ (k # 1 => next'[s[k - 1]] = e)
    BY <1>9, <1>11
  <2> QED
    BY <1>2, <1>10, <1>12, <2>1, <2>2, WalkInserted
<1>14. first'[l] = IF k = 1 THEN e ELSE first[l]
  BY <1>1, <1>7, <1>11
<1>15. \A x \in Entry : linklist[x] # NULL /\ linklist[x] # l => next'[x] = next[x]
  <2>1. prev[reference] # NULL => linklist[prev[reference]] = l
    BY <1>1 DEF RInv, IInv, EntriesLinked, Linked
  <2> QED
    BY <1>1, <1>8, <2>1
<1>16. \A j \in List \ {l} : first'[j] = first[j]
  BY <1>1
<1>17. /\ k \in 1..Len(order[l]) + 1
       /\ IsWalk(Abstract!S!InsertAt(order[l], k, e), first'[l], next')
  BY <1>9, <1>13, <1>14 DEF s
<1> QED
  BY <1>1, <1>15, <1>16, <1>17, AddRefines

(* Remove drops the entry from its list and from every iteration. *)
LEMMA RemoveRefines ==
  ASSUME IsFiniteSet(Entry), RInv, IInv', NEW l \in List, NEW e \in Entry, Remove(l, e)
  PROVE  Walks' /\ Abstract!Remove(l, e)
<1> USE DEF IInv
<1>1. /\ linklist[e] = l /\ l # NULL /\ NULL \notin Entry
      /\ list_' = list_ /\ iterate_forward_' = iterate_forward_
      /\ first' = IF first[l] = e THEN [first EXCEPT ![l] = next[e]] ELSE first
      /\ first \in [List -> Entry \cup {NULL}]
  BY NullAssumption DEF Remove, chainVars, RInv, TypeOK
<1>2. next[e] # e /\ prev[e] # e
  <2>1. LinkTypes(Entry, first, prev, next, linklist) /\ Linked(Entry, first, prev, next, linklist)
    BY TypesOfLinks DEF RInv, EntriesLinked
  <2> QED
    BY <1>1, <2>1, LinkedNoLoop
<1>3. /\ \A x \in Entry : next[x] = e <=> x = prev[e]
      /\ \A x \in Entry : prev[x] = e <=> x = next[e]
  BY <1>1 DEF RInv, TypeOK, EntriesLinked, Linked
<1>4. \A x \in Entry : next'[x] = IF x = e THEN NULL ELSE IF next[x] = e THEN next[e] ELSE next[x]
  <2>1. next' = [Assign(next, prev[e], next[e]) EXCEPT ![e] = NULL]
    BY DEF Remove
  <2> QED
    BY <1>1, <1>3, <2>1 DEF Assign, RInv, TypeOK
<1>5. \A x \in Entry : prev'[x] = IF x = e THEN NULL ELSE IF prev[x] = e THEN prev[e] ELSE prev[x]
  <2>1. prev' = [Assign(prev, next[e], prev[e]) EXCEPT ![e] = NULL]
    BY DEF Remove
  <2> QED
    BY <1>1, <1>3, <2>1 DEF Assign, RInv, TypeOK
<1>6. order = [j \in List |-> order[j]]
  BY OrderFacts
<1> DEFINE o == [order EXCEPT ![l] = Abstract!Dropped(order[l], e)]
<1>7. /\ o = [j \in List |-> o[j]]
      /\ \A j \in List : o[j] = IF j = l THEN Abstract!Dropped(order[l], e) ELSE order[j]
  BY <1>6
<1> HIDE DEF o
<1>8. \A j \in List : IsWalk(o[j], first'[j], next')
  <2> TAKE j \in List
  <2>1. CASE j = l
    <3>1. IsWalk(order[l], first[l], next)
      BY DEF RInv, Walks
    <3>2. IsWalk(Abstract!Dropped(order[l], e), IF first[l] = e THEN next[e] ELSE first[l], next')
      BY <1>4, <3>1, WalkRemoved
    <3> QED
      BY <1>1, <1>7, <2>1, <3>2
  <2>2. CASE j # l
    <3>1. \A x \in Entry : linklist[x] = j => next'[x] = next[x]
      <4>1. \A x \in Entry : next[x] = e => linklist[x] = l
        BY <1>1 DEF RInv, EntriesLinked, Linked
      <4> QED
        BY <1>1, <1>4, <2>2, <4>1
    <3>2. first'[j] = first[j]
      BY <1>1, <2>2
    <3> QED
      BY <1>7, <2>2, <3>1, <3>2, OtherFrame
  <2> QED
    BY <2>1, <2>2
<1>9. order' = o /\ Walks'
  BY <1>7, <1>8, Becomes
<1>10. Abstract!S!Contains(order[l], e)
  BY <1>1, OrderFacts
<1>11. todo' = [it \in Iter |-> Abstract!Dropped(todo[it], e)]
  <2>1. ASSUME NEW it \in Iter
        PROVE  Walk(current_entry_'[it], Onward(it)') = Abstract!Dropped(todo[it], e)
    <3>1. current_entry_[it] = e => it \in Chain(l)
      BY <1>1 DEF RInv, IteratorsOnList, IteratorsLinked, Linked, Chain
    <3>2. current_entry_'[it] = IF current_entry_[it] = e THEN Onward(it)[e] ELSE current_entry_[it]
      BY <3>1 DEF Remove, Step, Onward
    <3>3. IsWalk(todo[it], current_entry_[it], Onward(it))
      BY TodoFacts
    <3> DEFINE n == Onward(it)
               m == Onward(it)'
    <3>4. \A x \in Entry : m[x] = IF x = e THEN NULL ELSE IF n[x] = e THEN n[e] ELSE n[x]
      BY <1>1, <1>4, <1>5 DEF Onward
    <3> HIDE DEF n, m
    <3>5. IsWalk(Abstract!Dropped(todo[it], e),
                 IF current_entry_[it] = e THEN n[e] ELSE current_entry_[it], m)
      BY <3>3, <3>4, WalkRemoved DEF n
    <3> QED
      BY <3>2, <3>5, WalkIs DEF n, m
  <2>2. todo' = [it \in Iter |-> Walk(current_entry_'[it], Onward(it)')]
    BY DEF todo
  <2> QED
    BY <2>1, <2>2
<1> QED
  BY <1>1, <1>9, <1>10, <1>11 DEF Abstract!Remove, o

(* Clearing a list leaves it empty and ends its iterations. *)
LEMMA ClearRefines ==
  ASSUME IsFiniteSet(Entry), RInv, IInv', NEW l \in List, ClearEntries(l)
  PROVE  Walks' /\ Abstract!Clear(l)
<1> USE DEF IInv
<1>1. /\ \A it \in Iter : it \in Chain(l) <=> list_[it] = l
      /\ \A e \in Entry : e \in Reach(first[l], next, Entry) <=> linklist[e] = l
  BY DEF RInv, Chain, IteratorsLinked, EntriesLinked, Linked
<1>2. /\ first' = [first EXCEPT ![l] = NULL] /\ iterate_forward_' = iterate_forward_
      /\ first \in [List -> Entry \cup {NULL}] /\ NULL \notin List /\ NULL \notin Entry
  BY NullAssumption DEF ClearEntries, RInv, TypeOK
<1>3. /\ \A e \in Entry : next'[e] = (IF linklist[e] = l THEN NULL ELSE next[e])
      /\ \A e \in Entry : prev'[e] = (IF linklist[e] = l THEN NULL ELSE prev[e])
      /\ \A it \in Iter : current_entry_'[it] = (IF list_[it] = l THEN NULL ELSE current_entry_[it])
  BY <1>1 DEF ClearEntries
<1>4. order = [j \in List |-> order[j]]
  BY OrderFacts
<1> DEFINE o == [order EXCEPT ![l] = <<>>]
<1>5. /\ o = [j \in List |-> o[j]]
      /\ \A j \in List : o[j] = IF j = l THEN <<>> ELSE order[j]
  BY <1>4
<1> HIDE DEF o
<1>6. \A j \in List : IsWalk(o[j], first'[j], next')
  <2> TAKE j \in List
  <2>1. CASE j = l
    BY <1>2, <1>5, <2>1, WalkNull
  <2>2. CASE j # l
    BY <1>2, <1>3, <1>5, <2>2, OtherFrame
  <2> QED
    BY <2>1, <2>2
<1>7. order' = o /\ Walks'
  BY <1>5, <1>6, Becomes
<1>8. todo' = [it \in Iter |-> IF list_[it] = l THEN <<>> ELSE todo[it]]
  <2>1. ASSUME NEW it \in Iter
        PROVE  Walk(current_entry_'[it], Onward(it)') = IF list_[it] = l THEN <<>> ELSE todo[it]
    <3> DEFINE n == Onward(it)
               m == Onward(it)'
    <3>1. \A x \in Entry : m[x] = (IF linklist[x] = l THEN NULL ELSE n[x])
      BY <1>2, <1>3 DEF Onward
    <3>2. n \in [Entry -> Entry \cup {NULL}]
      BY DEF Onward, RInv, TypeOK
    <3>3. IsWalk(todo[it], current_entry_[it], n)
      BY TodoFacts
    <3>4. LinkTypes(Entry, Heads(it), IF iterate_forward_[it] THEN prev ELSE next, n, linklist)
      BY OnwardLinked DEF RInv
    <3>5. Linked(Entry, Heads(it), IF iterate_forward_[it] THEN prev ELSE next, n, linklist)
      BY OnwardLinked DEF RInv
    <3> HIDE DEF n, m
    <3>6. CASE list_[it] = l
      BY <1>3, <3>6, WalkNull, WalkIs DEF m
    <3>7. CASE list_[it] # l /\ current_entry_[it] = NULL
      <4>1. todo[it] = <<>>
        BY <3>7, TodoFacts
      <4> QED
        BY <1>3, <3>7, <4>1, WalkNull, WalkIs DEF m
    <3>8. CASE list_[it] # l /\ current_entry_[it] # NULL
      <4>1. /\ current_entry_[it] \in Entry /\ linklist[current_entry_[it]] = list_[it]
        BY <3>8 DEF RInv, TypeOK, IteratorsOnList
      <4>2. \A x \in Reach(current_entry_[it], n, Entry) : linklist[x] = list_[it]
        BY <3>4, <3>5, <4>1, AheadOwned
      <4>3. \A i \in 1..Len(todo[it]) : todo[it][i] \in Entry /\ linklist[todo[it][i]] = list_[it]
        <5>1. \A i \in 1..Len(todo[it]) : todo[it][i] \in Entry
          BY <3>3 DEF IsWalk
        <5> QED
          BY <3>2, <3>3, <4>2, <5>1, WalkReach
      <4>4. IsWalk(todo[it], current_entry_[it], m)
        BY <3>1, <3>3, <3>8, <4>3, WalkFrame
      <4> QED
        BY <1>3, <3>8, <4>4, WalkIs DEF m
    <3> QED
      BY <3>6, <3>7, <3>8
  <2>2. todo' = [it \in Iter |-> Walk(current_entry_'[it], Onward(it)')]
    BY DEF todo
  <2> QED
    BY <2>1, <2>2
<1> QED
  BY <1>2, <1>7, <1>8 DEF Abstract!Clear, o

(* RemoveAll and the destructor are clearing; the destructor also takes the
   list away from its iterators. *)
LEMMA DestroyRefines ==
  ASSUME IsFiniteSet(Entry), RInv, IInv', NEW l \in List
  PROVE  /\ RemoveAll(l) => Walks' /\ Abstract!RemoveAll(l)
         /\ DestroyList(l) => Walks' /\ Abstract!Destroy(l)
<1>1. ASSUME RemoveAll(l)
      PROVE  Walks' /\ Abstract!RemoveAll(l)
  BY <1>1, ClearRefines DEF RemoveAll, chainVars, Abstract!RemoveAll
<1>2. ASSUME DestroyList(l)
      PROVE  Walks' /\ Abstract!Destroy(l)
  <2>1. list_' = [it \in Iter |-> IF list_[it] = l THEN NULL ELSE list_[it]]
    <3>1. \A it \in Iter : it \in Chain(l) <=> list_[it] = l
      BY DEF RInv, IInv, Chain, IteratorsLinked, Linked
    <3> QED
      BY <1>2, <3>1 DEF DestroyList
  <2>2. Walks' /\ Abstract!Clear(l)
    BY <1>2, ClearRefines DEF DestroyList
  <2> QED
    BY <2>1, <2>2 DEF Abstract!Destroy
<1> QED
  BY <1>1, <1>2

-----------------------------------------------------------------------------
(* What iterators do changes no list. *)

(* No list changes, and what iterations return follows their pointers. *)
LEMMA EntriesKept ==
  ASSUME RInv, UNCHANGED entryVars
  PROVE  /\ Walks' /\ order' = order
         /\ todo' = [it \in Iter |-> Walk(current_entry_'[it], IF iterate_forward_'[it] THEN next ELSE prev)]
<1>1. first' = first /\ next' = next /\ prev' = prev
  BY DEF entryVars
<1>2. order' = order
  BY <1>1 DEF order
<1>3. Walks'
  BY <1>1, <1>2 DEF RInv, Walks
<1>4. todo' = [it \in Iter |-> Walk(current_entry_'[it], IF iterate_forward_'[it] THEN next ELSE prev)]
  BY <1>1 DEF todo, Onward
<1> QED
  BY <1>2, <1>3, <1>4

(* An iterator that takes up an iteration: its new pointers give its rest, the
   others keep theirs. *)
LEMMA BeginRefines ==
  ASSUME IsFiniteSet(Entry), RInv, UNCHANGED entryVars, NEW it \in Iter,
         NEW l, NEW c, NEW fwd, NEW rest,
         list_' = [list_ EXCEPT ![it] = l],
         current_entry_' = [current_entry_ EXCEPT ![it] = c],
         iterate_forward_' = [iterate_forward_ EXCEPT ![it] = fwd],
         IsWalk(rest, c, IF fwd THEN next ELSE prev)
  PROVE  Walks' /\ Abstract!Begin(it, l, fwd, rest)
<1>1. /\ Walks' /\ order' = order
      /\ todo' = [i \in Iter |-> Walk(current_entry_'[i], IF iterate_forward_'[i] THEN next ELSE prev)]
  BY EntriesKept
<1>2. todo = [i \in Iter |-> Walk(current_entry_[i], IF iterate_forward_[i] THEN next ELSE prev)]
  BY DEF todo, Onward
<1>3. current_entry_ \in [Iter -> Entry \cup {NULL}] /\ iterate_forward_ \in [Iter -> BOOLEAN]
  BY DEF RInv, IInv, TypeOK
<1>4. Walk(c, IF fwd THEN next ELSE prev) = rest
  BY WalkIs
<1>5. \A i \in Iter : Walk(current_entry_'[i], IF iterate_forward_'[i] THEN next ELSE prev) =
                        IF i = it THEN rest ELSE Walk(current_entry_[i], IF iterate_forward_[i] THEN next ELSE prev)
  BY <1>3, <1>4
<1>6. todo' = [todo EXCEPT ![it] = rest]
  BY <1>1, <1>2, <1>5
<1> QED
  BY <1>1, <1>6 DEF Abstract!Begin

(* A new iterator takes up a whole list, or the rest of one from an entry. *)
LEMMA IterateRefines ==
  ASSUME IsFiniteSet(Entry), RInv, NEW it \in Iter, NEW l \in List,
         NEW start \in Entry \cup {NULL}, NEW fwd \in BOOLEAN, Iterate(it, l, start, fwd)
  PROVE  Walks' /\ Abstract!Iterate(it, l, fwd)
<1> DEFINE whole == Abstract!Directed(order[l], fwd)
           dir == IF fwd THEN next ELSE prev
<1>1. /\ list_[it] = NULL /\ UNCHANGED entryVars
      /\ list_' = [list_ EXCEPT ![it] = l]
      /\ current_entry_' = [current_entry_ EXCEPT ![it] = start]
      /\ iterate_forward_' = [iterate_forward_ EXCEPT ![it] = fwd]
      /\ \/ start = IF fwd THEN first[l] ELSE last[l]
         \/ start \in Entry /\ linklist[start] = l
  BY DEF Iterate, Register
<1>2. CASE start = IF fwd THEN first[l] ELSE last[l]
  <2>1. IsWalk(whole, start, dir)
    BY <1>2, DirectedFacts
  <2>2. Walks' /\ Abstract!Begin(it, l, fwd, whole)
    BY <1>1, <2>1, BeginRefines
  <2> QED
    BY <1>1, <2>2 DEF Abstract!Iterate
<1>3. CASE start \in Entry /\ linklist[start] = l
  <2>1. IsWalk(Abstract!From(whole, start), start, dir) /\ Abstract!S!Contains(whole, start)
    BY <1>3, DirectedFacts
  <2>2. Walks' /\ Abstract!Begin(it, l, fwd, Abstract!From(whole, start))
    BY <1>1, <2>1, BeginRefines
  <2> QED
    BY <1>1, <1>3, <2>1, <2>2 DEF Abstract!Iterate
<1> QED
  BY <1>1, <1>2, <1>3

(* A copy takes up what its source has left. *)
LEMMA CopyRefines ==
  ASSUME IsFiniteSet(Entry), RInv, NEW it \in Iter, NEW source \in Iter, Copy(it, source)
  PROVE  Walks' /\ Abstract!Copy(it, source)
<1>1. /\ list_[source] # NULL /\ UNCHANGED entryVars
      /\ current_entry_' = [current_entry_ EXCEPT ![it] = current_entry_[source]]
      /\ iterate_forward_' = [iterate_forward_ EXCEPT ![it] = iterate_forward_[source]]
  BY DEF Copy
<1>2. list_' = [list_ EXCEPT ![it] = list_[source]]
  <2>1. list_ \in [Iter -> List \cup {NULL}]
    BY DEF RInv, IInv, TypeOK
  <2> QED
    BY <2>1 DEF Copy, Register, chainVars
<1>3. IsWalk(todo[source], current_entry_[source], IF iterate_forward_[source] THEN next ELSE prev)
  BY TodoFacts DEF Onward
<1>4. Walks' /\ Abstract!Begin(it, list_[source], iterate_forward_[source], todo[source])
  BY <1>1, <1>2, <1>3, BeginRefines
<1> QED
  BY <1>1, <1>4 DEF Abstract!Copy

(* An iterator that is destroyed gives up its list and what it had left. *)
LEMMA EndRefines ==
  ASSUME IsFiniteSet(Entry), RInv, NEW it \in Iter, DestroyIter(it)
  PROVE  Walks' /\ Abstract!End(it)
<1>1. /\ list_' = [list_ EXCEPT ![it] = NULL] /\ UNCHANGED entryVars
      /\ current_entry_' = [current_entry_ EXCEPT ![it] = NULL]
      /\ iterate_forward_' = iterate_forward_
  BY DEF DestroyIter
<1>2. iterate_forward_' = [iterate_forward_ EXCEPT ![it] = iterate_forward_[it]]
  BY <1>1 DEF RInv, IInv, TypeOK
<1>3. IsWalk(<<>>, NULL, IF iterate_forward_[it] THEN next ELSE prev)
  BY WalkNull
<1>4. Walks' /\ Abstract!Begin(it, NULL, iterate_forward_[it], <<>>)
  BY <1>1, <1>2, <1>3, BeginRefines
<1> QED
  BY <1>1, <1>4 DEF Abstract!Begin, Abstract!End

(* Reset takes up the whole list again; without a list it does nothing. *)
LEMMA ResetRefines ==
  ASSUME IsFiniteSet(Entry), RInv, NEW it \in Iter, Reset(it)
  PROVE  Walks' /\ (Abstract!Reset(it) \/ UNCHANGED Abstract!vars)
<1>1. /\ UNCHANGED entryVars /\ list_' = list_ /\ iterate_forward_' = iterate_forward_
      /\ list_ \in [Iter -> List \cup {NULL}] /\ iterate_forward_ \in [Iter -> BOOLEAN]
      /\ current_entry_ \in [Iter -> Entry \cup {NULL}]
  BY DEF Reset, chainVars, RInv, IInv, TypeOK
<1>2. CASE list_[it] = NULL
  <2>1. current_entry_[it] = NULL
    BY <1>2 DEF RInv, IInv, IteratorsOnList
  <2>2. current_entry_' = current_entry_
    BY <1>1, <1>2, <2>1 DEF Reset
  <2>3. Walks' /\ order' = order /\ todo' = todo
    BY <1>1, <2>2, EntriesKept DEF todo, Onward
  <2> QED
    BY <1>1, <2>3 DEF Abstract!vars
<1>3. CASE list_[it] # NULL
  <2> DEFINE l == list_[it]
             fwd == iterate_forward_[it]
             head == IF fwd THEN first[l] ELSE last[l]
             whole == Abstract!Directed(order[l], fwd)
  <2>1. l \in List /\ fwd \in BOOLEAN
    BY <1>1, <1>3
  <2>2. IsWalk(whole, head, IF fwd THEN next ELSE prev)
    BY <2>1, DirectedFacts
  <2>3. /\ current_entry_' = [current_entry_ EXCEPT ![it] = head]
        /\ list_' = [list_ EXCEPT ![it] = l]
        /\ iterate_forward_' = [iterate_forward_ EXCEPT ![it] = fwd]
    BY <1>1, <1>3 DEF Reset
  <2> HIDE DEF l, fwd, head, whole
  <2>4. Walks' /\ Abstract!Begin(it, l, fwd, whole)
    BY <1>1, <2>2, <2>3, BeginRefines
  <2> QED
    BY <1>3, <2>4 DEF Abstract!Reset, l, fwd, whole
<1> QED
  BY <1>2, <1>3

(* A step takes the first entry off what is left. *)
LEMMA GetAndStepRefines ==
  ASSUME IsFiniteSet(Entry), RInv, NEW it \in Iter, GetAndStep(it)
  PROVE  Walks' /\ Abstract!GetAndStep(it)
<1> DEFINE c == current_entry_[it]
           fwd == iterate_forward_[it]
           n == IF fwd THEN next ELSE prev
<1>1. /\ UNCHANGED entryVars /\ list_' = list_ /\ iterate_forward_' = iterate_forward_
      /\ list_ \in [Iter -> List \cup {NULL}] /\ iterate_forward_ \in [Iter -> BOOLEAN]
      /\ c # NULL /\ current_entry_' = [current_entry_ EXCEPT ![it] = n[c]]
  BY DEF GetAndStep, Step, chainVars, RInv, IInv, TypeOK
<1>2. IsWalk(todo[it], c, n) /\ todo[it] # <<>>
  BY <1>1, TodoFacts DEF Onward
<1>3. /\ list_' = [list_ EXCEPT ![it] = list_[it]]
      /\ iterate_forward_' = [iterate_forward_ EXCEPT ![it] = fwd]
  BY <1>1
<1> HIDE DEF c, fwd
<1>4. IsWalk(Tail(todo[it]), n[c], n)
  BY <1>1, <1>2, WalkTail
<1>5. Walks' /\ Abstract!Begin(it, list_[it], fwd, Tail(todo[it]))
  BY <1>1, <1>3, <1>4, BeginRefines
<1> QED
  BY <1>1, <1>2, <1>5 DEF Abstract!Begin, Abstract!GetAndStep

-----------------------------------------------------------------------------
(* The initial state maps to the initial state. *)
LEMMA InitRefines ==
  ASSUME IsFiniteSet(Entry), Init
  PROVE  Abstract!Init /\ Walks
<1>1. /\ first = [l \in List |-> NULL] /\ current_entry_ = [it \in Iter |-> NULL]
      /\ list_ = [it \in Iter |-> NULL] /\ iterate_forward_ = [it \in Iter |-> TRUE]
  BY DEF Init
<1>2. \A step : Walk(NULL, step) = <<>>
  BY WalkNull, WalkIs
<1>3. order = [l \in List |-> <<>>] /\ todo = [it \in Iter |-> <<>>]
  BY <1>1, <1>2 DEF order, todo
<1>4. Walks
  BY <1>1, <1>3, WalkNull DEF Walks
<1> QED
  BY <1>1, <1>3, <1>4 DEF Abstract!Init

(* Every step maps to a step or a stutter. *)
LEMMA StepRefines ==
  ASSUME IsFiniteSet(Entry), RInv, IInv', [Next]_vars
  PROVE  Walks' /\ [Abstract!Next]_(Abstract!vars)
<1>1. ASSUME NEW l \in List, NEW e \in Entry, AddFirst(l, e) \/ AddLast(l, e) \/ Remove(l, e)
      PROVE  Walks' /\ Abstract!Next
  BY <1>1, AddFirstRefines, AddLastRefines, RemoveRefines DEF Abstract!Next
<1>2. ASSUME NEW l \in List, NEW e \in Entry, NEW reference \in Entry,
             AddBefore(l, e, reference) \/ AddAfter(l, e, reference)
      PROVE  Walks' /\ Abstract!Next
  BY <1>2, AddBeforeRefines, AddAfterRefines DEF Abstract!Next
<1>3. ASSUME NEW l \in List, RemoveAll(l) \/ DestroyList(l)
      PROVE  Walks' /\ Abstract!Next
  BY <1>3, DestroyRefines DEF Abstract!Next
<1>4. ASSUME NEW it \in Iter, NEW l \in List, NEW start \in Entry \cup {NULL},
             NEW fwd \in BOOLEAN, Iterate(it, l, start, fwd)
      PROVE  Walks' /\ Abstract!Next
  BY <1>4, IterateRefines DEF Abstract!Next
<1>5. ASSUME NEW it \in Iter, NEW source \in Iter, Copy(it, source)
      PROVE  Walks' /\ Abstract!Next
  BY <1>5, CopyRefines DEF Abstract!Next
<1>6. ASSUME NEW it \in Iter, DestroyIter(it) \/ GetAndStep(it)
      PROVE  Walks' /\ Abstract!Next
  BY <1>6, EndRefines, GetAndStepRefines DEF Abstract!Next
<1>7. ASSUME NEW it \in Iter, Reset(it)
      PROVE  Walks' /\ [Abstract!Next]_(Abstract!vars)
  BY <1>7, ResetRefines DEF Abstract!Next
<1>8. CASE UNCHANGED vars
  <2>1. order' = order /\ todo' = todo /\ Walks'
    BY <1>8, EntriesKept DEF vars, todo, Onward
  <2> QED
    BY <1>8, <2>1 DEF vars, chainVars, Abstract!vars
<1> QED
  BY <1>1, <1>2, <1>3, <1>4, <1>5, <1>6, <1>7, <1>8 DEF Next, ListOp, IterOp

(* Refinement: whatever the owners of lists and their walkers do, and in
   whatever order, an iteration over the pointers returns exactly what the
   abstract list says. *)
THEOREM Refines ==
  ASSUME IsFiniteSet(Entry)
  PROVE  Spec => RefinesIterableList
<1>1. Init => Abstract!Init /\ Walks
  BY InitRefines
<1>2. IInv /\ IInv' /\ Walks /\ [Next]_vars => Walks' /\ [Abstract!Next]_(Abstract!vars)
  BY StepRefines DEF RInv
<1>3. Spec => []IInv
  BY Invariance
<1> QED
  BY <1>1, <1>2, <1>3, PTL DEF Spec, RefinesIterableList, Abstract!Spec
=============================================================================
