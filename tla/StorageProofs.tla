---------------------------- MODULE StorageProofs ---------------------------
(***************************************************************************)
(* The storage of values.  First one size class with its list operations   *)
(* interleaved (module Slab): conservation of its blocks, for every number *)
(* of threads and blocks.  Then all the classes under whole calls of the    *)
(* library (module Values): conservation again, and that a value fits the  *)
(* place it is put in, for every set of keys and every choice of lengths.  *)
(***************************************************************************)
EXTENDS Slab, Values, WellFoundedInduction, TLAPS

-----------------------------------------------------------------------------
(* The inductive invariant.                                                *)

Words == Blocks \cup {NULL, Bytes}

Labels == {"idle", "popload", "popnext", "popcas", "fill", "pushload", "pushlink", "pushcas"}

TypeOK ==
    /\ head \in Words /\ link \in [Blocks -> Words] /\ uses \in [Blocks -> Int]
    /\ pc \in [Threads -> Labels] /\ aba \in BOOLEAN
    /\ h \in [Threads -> Words] /\ n \in [Threads -> Words] /\ node \in [Threads -> Words]

\* F is the free list and d[b] is how many blocks lie below b on it.
Stack(F, d) ==
    /\ IF F = {} THEN head = NULL ELSE head \in F
    /\ \A b \in F : d[b] <= d[head]
    /\ \A b, c \in F : d[b] = d[c] => b = c
    /\ \A b \in F : \A i \in 0 .. d[b] : \E c \in F : d[c] = i
    /\ \A b \in F : IF d[b] = 0 THEN link[b] = NULL ELSE link[b] \in F /\ d[link[b]] = d[b] - 1

\* A block that is not free is held by one caller or on its way back, once.
Placed(F) ==
    /\ \A b \in Blocks : uses[b] \in {0, 1}
    /\ \A b \in Blocks : b \in F \/ uses[b] = 1 \/ b \in InTransit
    /\ \A b \in F : uses[b] = 0 /\ b \notin InTransit
    /\ \A t \in Threads : Pushed(t) => node[t] \in Blocks /\ uses[node[t]] = 0
    /\ \A t, u \in Threads : Pushed(t) /\ Pushed(u) /\ node[t] = node[u] => t = u

LocalOK(t) ==
    /\ pc[t] \in {"popnext", "popcas"} => h[t] \in Blocks
    /\ pc[t] = "fill" => node[t] \in Blocks /\ uses[node[t]] = 1
    /\ pc[t] = "pushcas" => link[node[t]] = h[t]

Depths == [Blocks -> Nat]

Listed == \E F \in SUBSET Blocks : \E d \in Depths : Stack(F, d) /\ Placed(F)

SlabInv == TypeOK /\ (~aba => Listed /\ \A t \in Threads : LocalOK(t))

-----------------------------------------------------------------------------
(* Induction on the depth, by a least counterexample.                      *)

\* A set of naturals that is not empty has a least member.
LEMMA LeastNumber ==
    ASSUME NEW T, T \subseteq Nat, T # {}
    PROVE  \E x \in T : \A y \in T : x <= y
<1> DEFINE R == OpToRel(<, Nat)
<1>1. IsWellFoundedOn(R, Nat)
  BY NatLessThanWellFounded, Zenon
<1> HIDE DEF R
<1>2. PICK x \in T : \A y \in T : ~ (<<y, x>> \in R)
  BY <1>1, WFMin, Zenon
<1>3. ASSUME NEW y \in T, y < x PROVE FALSE
  <2>1. <<y, x>> \in R
    BY <1>3 DEF R, OpToRel
  <2>2. QED
    BY <1>2, <2>1, Zenon
<1>4. QED
  BY <1>3

\* The stack is what a walk from the head meets, and the walk ends.
LEMMA StackIsFreeList ==
    ASSUME TypeOK, NEW F \in SUBSET Blocks, NEW d \in Depths, Stack(F, d)
    PROVE  FreeList = F /\ (head = NULL \/ \E b \in FreeList : link[b] = NULL)
<1>1. NULL \notin Blocks
  BY DEF NULL, Blocks
<1>2. \A b \in F : d[b] \in Nat
  BY Zenon DEF Depths
<1>3. Closed(F)
  <2>1. head \in Blocks => head \in F
    BY <1>1, Zenon DEF Stack
  <2>2. \A b \in F : link[b] \in Blocks => link[b] \in F
    BY <1>1, Zenon DEF Stack
  <2>3. QED
    BY <2>1, <2>2, Zenon DEF Closed
<1>4. ASSUME NEW S \in SUBSET Blocks, Closed(S), NEW x \in F, x \notin S
      PROVE  FALSE
  <2> DEFINE T == {d[head] - d[b] : b \in F \ S}
  <2>1. head \in F /\ d[head] \in Nat
    BY <1>2, Zenon DEF Stack
  <2>2. \A b \in F : d[b] <= d[head]
    BY Zenon DEF Stack
  <2>3. T \subseteq Nat
    BY <1>2, <2>1, <2>2
  <2>4. T # {}
    BY <1>4
  <2>5. PICK m \in T : \A y \in T : m <= y
    BY <2>3, <2>4, LeastNumber, Zenon
  <2>6. PICK b \in F \ S : m = d[head] - d[b]
    BY <2>5, Zenon
  <2>7. b # head
    BY <1>4, <2>6, Zenon DEF Closed
  <2>8. d[b] + 1 \in 0 .. d[head]
    <3>1. d[b] # d[head]
      BY <2>1, <2>6, <2>7, Zenon DEF Stack
    <3>2. QED
      BY <1>2, <2>1, <2>2, <2>6, <3>1
  <2>9. PICK c \in F : d[c] = d[b] + 1
    BY <2>1, <2>8, Zenon DEF Stack
  <2>10. c \in S
    <3>1. ASSUME c \notin S PROVE FALSE
      <4>1. d[head] - d[c] \in T
        BY <3>1, Zenon
      <4>2. d[head] - d[b] <= d[head] - d[c]
        BY <2>5, <2>6, <4>1, Zenon
      <4>3. QED
        BY <1>2, <2>1, <2>6, <2>9, <4>2
    <3>2. QED
      BY <3>1, Zenon
  <2>11. d[c] # 0 /\ d[c] - 1 = d[b]
    BY <1>2, <2>6, <2>9
  <2>12. link[c] \in F /\ d[link[c]] = d[b]
    BY <2>11, Zenon DEF Stack
  <2>13. link[c] = b
    BY <2>6, <2>12, Zenon DEF Stack
  <2>14. QED
    BY <1>4, <2>6, <2>10, <2>13, Zenon DEF Closed
<1>5. FreeList = F
  BY <1>3, <1>4, Zenon DEF FreeList
<1>6. head = NULL \/ \E b \in F : link[b] = NULL
  <2>1. ASSUME head # NULL PROVE \E b \in F : link[b] = NULL
    <3>1. head \in F
      BY <2>1, Zenon DEF Stack
    <3>2. 0 \in 0 .. d[head]
      BY <1>2, <3>1
    <3>3. PICK c \in F : d[c] = 0
      BY <3>1, <3>2, Zenon DEF Stack
    <3>4. QED
      BY <3>3, Zenon DEF Stack
  <2>2. QED
    BY <2>1, Zenon
<1>7. QED
  BY <1>5, <1>6, Zenon


-----------------------------------------------------------------------------
(* The steps.                                                              *)

\* Every step keeps the types.
LEMMA TypeNext == TypeOK /\ [Next]_vars => TypeOK'
<1> SUFFICES ASSUME TypeOK, [Next]_vars PROVE TypeOK'
  OBVIOUS
<1> USE DEF TypeOK, Goto
<1>1. /\ NULL \in Words /\ Bytes \in Words /\ \A b \in Blocks : b \in Words
      /\ \A l \in {"idle", "popload", "popnext", "popcas", "fill", "pushload", "pushlink", "pushcas"} : l \in Labels
  BY Zenon DEF Words, Labels
<1>2. CASE UNCHANGED vars
  BY <1>2, Zenon DEF vars
<1>3. ASSUME NEW t \in Threads, slab_alloc(t) PROVE TypeOK'
  BY <1>1, <1>3, Zenon DEF slab_alloc, Call
<1>4. ASSUME NEW t \in Threads, pop_load(t) PROVE TypeOK'
  BY <1>1, <1>4 DEF pop_load
<1>5. ASSUME NEW t \in Threads, pop_next(t) PROVE TypeOK'
  <2>1. PICK w \in Words : n' = [n EXCEPT ![t] = w]
    BY <1>1, <1>5, Zenon DEF pop_next, Words
  <2>2. QED
    BY <1>1, <1>5, <2>1, Zenon DEF pop_next
<1>6. ASSUME NEW t \in Threads, pop_cas(t) PROVE TypeOK'
  <2>1. uses' \in [Blocks -> Int]
    <3>1. uses' = [b \in Blocks |-> IF b = h[t] THEN uses[b] + 1 ELSE uses[b]]
      BY <1>6, Zenon DEF pop_cas
    <3>2. \A b \in Blocks : uses[b] + 1 \in Int
      OBVIOUS
    <3>3. QED
      BY <3>1, <3>2, Zenon
  <2>2. aba' \in BOOLEAN
    BY <1>6, Zenon DEF pop_cas
  <2>3. QED
    BY <1>1, <1>6, <2>1, <2>2, Zenon DEF pop_cas
<1>7. ASSUME NEW t \in Threads, cas_fail(t) PROVE TypeOK'
  BY <1>1, <1>7, Zenon DEF cas_fail
<1>8. ASSUME NEW t \in Threads, fill(t) PROVE TypeOK'
  BY <1>1, <1>8, Zenon DEF fill
<1>9. ASSUME NEW t \in Threads, NEW b \in Blocks, slab_free(t, b) PROVE TypeOK'
  <2>1. uses' \in [Blocks -> Int]
    BY <1>9 DEF slab_free
  <2>2. QED
    BY <1>1, <1>9, <2>1, Zenon DEF slab_free, Call
<1>10. ASSUME NEW t \in Threads, push_load(t) PROVE TypeOK'
  BY <1>1, <1>10, Zenon DEF push_load
<1>11. ASSUME NEW t \in Threads, push_link(t) PROVE TypeOK'
  BY <1>1, <1>11, Zenon DEF push_link
<1>12. ASSUME NEW t \in Threads, push_cas(t) PROVE TypeOK'
  BY <1>1, <1>12, Zenon DEF push_cas
<1>13. QED
  BY <1>2, <1>3, <1>4, <1>5, <1>6, <1>7, <1>8, <1>9, <1>10, <1>11, <1>12, Zenon DEF Next, Step, Finished

\* The list stays as it is when neither the head nor a link on it changes.
LEMMA StackFrame ==
    ASSUME NEW F \in SUBSET Blocks, NEW d \in Depths, Stack(F, d), head' = head,
           \A b \in F : link'[b] = link[b]
    PROVE  Stack(F, d)'
  BY Zenon DEF Stack

\* The blocks on their way back depend only on who pushes what.
LEMMA TransitSame ==
    ASSUME \A u \in Threads : (Pushed(u)' <=> Pushed(u)) /\ (Pushed(u) => node'[u] = node[u])
    PROVE  InTransit' = InTransit
  BY Zenon DEF InTransit

\* Every block stays where it is when no caller's hold changes and the same
\* threads push the same blocks.
LEMMA PlacedFrame ==
    ASSUME NEW F \in SUBSET Blocks, Placed(F), uses' = uses,
           \A u \in Threads : (Pushed(u)' <=> Pushed(u)) /\ (Pushed(u) => node'[u] = node[u])
    PROVE  Placed(F)'
<1>1. InTransit' = InTransit
  BY TransitSame, Zenon
<1>2. QED
  BY <1>1, ZenonT(30) DEF Placed

\* slab_alloc, up to its compare-and-swap, and the loops that start again.
LEMMA QuietSteps ==
    ASSUME TypeOK, NEW F \in SUBSET Blocks, NEW d \in Depths, Stack(F, d), Placed(F),
           \A u \in Threads : LocalOK(u), NEW t \in Threads,
           slab_alloc(t) \/ pop_load(t) \/ pop_next(t) \/ cas_fail(t) \/ push_load(t)
    PROVE  Stack(F, d)' /\ Placed(F)' /\ \A u \in Threads : LocalOK(u)'
<1> USE DEF TypeOK
<1>1. /\ head' = head /\ link' = link /\ uses' = uses /\ node' = node
      /\ \A u \in Threads : u # t => pc'[u] = pc[u] /\ h'[u] = h[u]
  BY Zenon DEF slab_alloc, Call, pop_load, pop_next, cas_fail, push_load, Goto
<1>2. Pushed(t)' <=> Pushed(t)
  BY Zenon DEF slab_alloc, Call, pop_load, pop_next, cas_fail, push_load, Goto, Pushed
<1>3. LocalOK(t)'
  <2>1. /\ pc'[t] \notin {"fill", "pushcas"}
        /\ pc'[t] \in {"popnext", "popcas"} =>
             \/ h'[t] = head /\ head # NULL
             \/ pc[t] \in {"popnext", "popcas"} /\ h'[t] = h[t]
    BY Zenon DEF slab_alloc, Call, pop_load, pop_next, cas_fail, push_load, Goto
  <2>2. head # NULL => head \in Blocks
    BY Zenon DEF Stack
  <2>3. QED
    BY <2>1, <2>2, Zenon DEF LocalOK
<1>4. \A u \in Threads : LocalOK(u)'
  BY <1>1, <1>3, ZenonT(30) DEF LocalOK
<1>5. Stack(F, d)'
  BY <1>1, StackFrame, Zenon
<1>6. \A u \in Threads : (Pushed(u)' <=> Pushed(u)) /\ (Pushed(u) => node'[u] = node[u])
  BY <1>1, <1>2, Zenon DEF Pushed
<1>7. QED
  BY <1>1, <1>4, <1>5, <1>6, PlacedFrame, Zenon

\* The caller stores its value, or slab_free its link, in a block that is not
\* on the list.
LEMMA WriteSteps ==
    ASSUME TypeOK, NEW F \in SUBSET Blocks, NEW d \in Depths, Stack(F, d), Placed(F),
           \A u \in Threads : LocalOK(u), NEW t \in Threads, fill(t) \/ push_link(t)
    PROVE  Stack(F, d)' /\ Placed(F)' /\ \A u \in Threads : LocalOK(u)'
<1> USE DEF TypeOK
<1>1. /\ head' = head /\ uses' = uses /\ node' = node /\ h' = h
      /\ \A u \in Threads : u # t => pc'[u] = pc[u]
      /\ \A b \in Blocks : b # node[t] => link'[b] = link[b]
  BY Zenon DEF fill, push_link, Goto
<1>2. \/ pc[t] = "fill" /\ pc'[t] = "idle"
      \/ pc[t] = "pushlink" /\ pc'[t] = "pushcas" /\ link' = [link EXCEPT ![node[t]] = h[t]]
  BY Zenon DEF fill, push_link, Goto
<1>3. node[t] \in Blocks /\ node[t] \notin F /\ \A u \in Threads : Pushed(u) /\ u # t => node[u] # node[t]
  <2>1. CASE pc[t] = "fill"
    <3>1. node[t] \in Blocks /\ uses[node[t]] = 1
      BY <2>1, Zenon DEF LocalOK
    <3>2. 1 # 0
      OBVIOUS
    <3>3. QED
      BY <3>1, <3>2, Zenon DEF Placed
  <2>2. CASE pc[t] = "pushlink"
    <3>1. Pushed(t)
      BY <2>2, Zenon DEF Pushed
    <3>2. node[t] \in InTransit
      BY <3>1, Zenon DEF InTransit
    <3>3. QED
      BY <3>1, <3>2, Zenon DEF Placed
  <2>3. QED
    BY <1>2, <2>1, <2>2, Zenon
<1>4. Stack(F, d)'
  BY <1>1, <1>3, StackFrame, Zenon
<1>5. \A u \in Threads : (Pushed(u)' <=> Pushed(u)) /\ (Pushed(u) => node'[u] = node[u])
  BY <1>1, <1>2, Zenon DEF Pushed
<1>6. LocalOK(t)'
  BY <1>1, <1>2, <1>3, Zenon DEF LocalOK
<1>7. ASSUME NEW u \in Threads, u # t PROVE LocalOK(u)'
  <2>1. pc[u] = "pushcas" => Pushed(u) /\ node[u] \in Blocks /\ node[u] # node[t]
    BY <1>3, <1>7, Zenon DEF Pushed, Placed
  <2>2. QED
    BY <1>1, <1>7, <2>1, Zenon DEF LocalOK
<1>8. QED
  BY <1>1, <1>4, <1>5, <1>6, <1>7, PlacedFrame, Zenon


\* slab_alloc takes the top of the list if the link it read is still current.
LEMMA PopStep ==
    ASSUME TypeOK, NEW F \in SUBSET Blocks, NEW d \in Depths, Stack(F, d), Placed(F),
           \A u \in Threads : LocalOK(u), NEW t \in Threads, pop_cas(t), n[t] = link[h[t]]
    PROVE  \E G \in SUBSET Blocks : Stack(G, d)' /\ Placed(G)' /\ \A u \in Threads : LocalOK(u)'
<1> USE DEF TypeOK
<1>0. PICK G \in SUBSET Blocks : G = F \ {head}
  BY Zenon
<1>1. /\ head \in Blocks /\ head = h[t] /\ head' = link[head] /\ link' = link /\ h' = h
      /\ pc[t] = "popcas" /\ pc'[t] = "fill" /\ node'[t] = head
      /\ \A u \in Threads : u # t => pc'[u] = pc[u] /\ node'[u] = node[u]
  BY Zenon DEF pop_cas, LocalOK, Goto
<1>2. NULL \notin Blocks /\ 0 # 1
  BY DEF NULL, Blocks
<1>3. head \in F /\ uses[head] = 0 /\ head \notin InTransit
  BY <1>1, <1>2, Zenon DEF Stack, Placed
<1>4. uses'[head] = 1 /\ \A b \in Blocks : b # head => uses'[b] = uses[b]
  BY <1>1, <1>3 DEF pop_cas
<1>5. \A b \in F : d[b] \in Nat
  BY Zenon DEF Depths
<1>6. Stack(G, d)'
  <2>1. ASSUME NEW b \in G PROVE d[b] <= d[head] - 1
    <3>1. d[b] <= d[head] /\ d[b] # d[head] /\ b \in F
      BY <1>0, <1>3, Zenon DEF Stack
    <3>2. d[b] \in Nat /\ d[head] \in Nat
      BY <1>3, <1>5, <3>1, Zenon
    <3>3. QED
      BY <3>1, <3>2
  <2>2. IF G = {} THEN head' = NULL ELSE head' \in G /\ d[head'] = d[head] - 1
    <3>1. CASE d[head] = 0
      <4>1. G = {}
        BY <1>0, <1>3, <1>5, <2>1, <3>1
      <4>2. QED
        BY <1>1, <1>3, <3>1, <4>1, Zenon DEF Stack
    <3>2. CASE d[head] # 0
      <4>1. link[head] \in F /\ d[link[head]] = d[head] - 1
        BY <1>3, <3>2, Zenon DEF Stack
      <4>2. link[head] # head
        BY <1>3, <1>5, <4>1
      <4>3. QED
        BY <1>0, <1>1, <4>1, <4>2, Zenon
    <3>3. QED
      BY <1>0, <3>1, <3>2, Zenon
  <2>3. \A b \in G : d[b] <= d[head']
    BY <1>0, <2>1, <2>2, Zenon
  <2>4. \A b, c \in G : d[b] = d[c] => b = c
    BY <1>0, Zenon DEF Stack
  <2>5. ASSUME NEW b \in G, NEW i \in 0 .. d[b] PROVE \E c \in G : d[c] = i
    <3>1. PICK c \in F : d[c] = i
      BY <1>0, Zenon DEF Stack
    <3>2. c # head
      BY <1>0, <1>3, <1>5, <2>1, <3>1
    <3>3. QED
      BY <1>0, <3>1, <3>2, Zenon
  <2>6. ASSUME NEW b \in G PROVE IF d[b] = 0 THEN link[b] = NULL ELSE link[b] \in G /\ d[link[b]] = d[b] - 1
    <3>1. CASE d[b] = 0
      BY <1>0, <3>1, Zenon DEF Stack
    <3>2. CASE d[b] # 0
      <4>1. link[b] \in F /\ d[link[b]] = d[b] - 1
        BY <1>0, <3>2, Zenon DEF Stack
      <4>2. link[b] # head
        <5>1. d[b] \in Nat /\ d[head] \in Nat /\ d[b] <= d[head] - 1
          BY <1>0, <1>3, <1>5, <2>1, Zenon
        <5>2. d[link[b]] # d[head]
          BY <4>1, <5>1
        <5>3. QED
          BY <5>2, Zenon
      <4>3. QED
        BY <1>0, <3>2, <4>1, <4>2, Zenon
    <3>3. QED
      BY <1>0, <3>1, <3>2, Zenon
  <2>7. QED
    BY <1>1, <2>2, <2>3, <2>4, <2>5, <2>6, Zenon DEF Stack
<1>7. \A u \in Threads : (Pushed(u)' <=> Pushed(u)) /\ (Pushed(u) => u # t /\ node'[u] = node[u])
  BY <1>1, Zenon DEF Pushed
<1>8. InTransit' = InTransit
  BY <1>7, TransitSame, Zenon
<1>9. Placed(G)'
  <2>1. \A u \in Threads : Pushed(u) => node[u] # head
    BY <1>3, Zenon DEF InTransit
  <2>2. \A b \in Blocks : uses'[b] \in {0, 1}
    BY <1>0, <1>4, Zenon DEF Placed
  <2>3. \A b \in Blocks : b \in G \/ uses'[b] = 1 \/ b \in InTransit
    BY <1>0, <1>4, Zenon DEF Placed
  <2>4. \A b \in G : uses'[b] = 0 /\ b \notin InTransit
    BY <1>0, <1>4, Zenon DEF Placed
  <2>5. ASSUME NEW u \in Threads, Pushed(u)' PROVE node'[u] \in Blocks /\ uses'[node'[u]] = 0
    <3>1. Pushed(u) /\ node'[u] = node[u] /\ node[u] # head
      BY <1>7, <2>1, <2>5, Zenon
    <3>2. node[u] \in Blocks /\ uses[node[u]] = 0
      BY <3>1, Zenon DEF Placed
    <3>3. QED
      BY <1>4, <3>1, <3>2, Zenon
  <2>6. \A u, w \in Threads : Pushed(u)' /\ Pushed(w)' /\ node'[u] = node'[w] => u = w
    BY <1>7, Zenon DEF Placed
  <2>7. QED
    BY <1>8, <2>2, <2>3, <2>4, <2>5, <2>6, Zenon DEF Placed
<1>10. ASSUME NEW u \in Threads PROVE LocalOK(u)'
  <2>1. CASE u = t
    BY <1>1, <1>4, <2>1, Zenon DEF LocalOK
  <2>2. CASE u # t
    <3>1. pc[u] = "fill" => node[u] # head
      BY <1>2, <1>3, Zenon DEF LocalOK
    <3>2. pc'[u] = pc[u] /\ node'[u] = node[u] /\ h'[u] = h[u] /\ link' = link
      BY <1>1, <2>2, Zenon
    <3>3. pc[u] = "fill" => node[u] \in Blocks /\ uses'[node[u]] = 1
      BY <1>4, <3>1, Zenon DEF LocalOK
    <3>4. QED
      BY <3>2, <3>3, Zenon DEF LocalOK
  <2>3. QED
    BY <1>0, <2>1, <2>2, Zenon
<1>11. QED
  BY <1>6, <1>9, <1>10, Zenon


\* slab_free: the caller gives up a block it holds.
LEMMA FreeStep ==
    ASSUME TypeOK, NEW F \in SUBSET Blocks, NEW d \in Depths, Stack(F, d), Placed(F),
           \A u \in Threads : LocalOK(u), NEW t \in Threads, NEW b \in Blocks, slab_free(t, b)
    PROVE  Stack(F, d)' /\ Placed(F)' /\ \A u \in Threads : LocalOK(u)'
<1> USE DEF TypeOK
<1>1. /\ head' = head /\ link' = link /\ h' = h /\ node'[t] = b
      /\ pc[t] = "idle" /\ pc'[t] = "pushload"
      /\ \A u \in Threads : u # t => pc'[u] = pc[u] /\ node'[u] = node[u]
  BY Zenon DEF slab_free, Call, Goto
<1>2. uses[b] = 1
  <2>1. uses[b] \in {0, 1} /\ uses[b] > 0
    BY Zenon DEF Placed, slab_free
  <2>2. QED
    BY <2>1
<1>3. uses'[b] = 0 /\ \A c \in Blocks : c # b => uses'[c] = uses[c]
  BY <1>2 DEF slab_free
<1>4. 0 # 1
  OBVIOUS
<1>5. b \notin F /\ b \notin InTransit
  <2>1. b \notin F
    BY <1>2, <1>4, Zenon DEF Placed
  <2>2. \A u \in Threads : Pushed(u) => node[u] # b
    BY <1>2, <1>4, Zenon DEF Placed
  <2>3. QED
    BY <2>1, <2>2, Zenon DEF InTransit
<1>6. ~Pushed(t) /\ Pushed(t)' /\ \A u \in Threads : u # t => (Pushed(u)' <=> Pushed(u))
  BY <1>1, Zenon DEF Pushed
<1>7. InTransit' = InTransit \cup {b}
  BY <1>1, <1>6, Zenon DEF InTransit
<1>8. Stack(F, d)'
  BY <1>1, StackFrame, Zenon
<1>9. Placed(F)'
  <2>1. \A c \in Blocks : uses'[c] \in {0, 1}
    BY <1>3, Zenon DEF Placed
  <2>2. \A c \in Blocks : c \in F \/ uses'[c] = 1 \/ c \in InTransit'
    BY <1>3, <1>7, Zenon DEF Placed
  <2>3. \A c \in F : uses'[c] = 0 /\ c \notin InTransit'
    BY <1>3, <1>5, <1>7, Zenon DEF Placed
  <2>4. ASSUME NEW u \in Threads, Pushed(u)' PROVE node'[u] \in Blocks /\ uses'[node'[u]] = 0
    <3>1. CASE u = t
      BY <1>1, <1>3, <3>1, Zenon
    <3>2. CASE u # t
      <4>1. Pushed(u) /\ node'[u] = node[u]
        BY <1>1, <1>6, <2>4, <3>2, Zenon
      <4>2. node[u] \in Blocks /\ uses[node[u]] = 0
        BY <4>1, Zenon DEF Placed
      <4>3. QED
        BY <1>3, <4>1, <4>2, Zenon
    <3>3. QED
      BY <3>1, <3>2, Zenon
  <2>5. \A u \in Threads : u # t /\ Pushed(u)' => Pushed(u) /\ node'[u] = node[u] /\ node[u] # b
    BY <1>1, <1>5, <1>6, Zenon DEF InTransit
  <2>6. \A u, w \in Threads : Pushed(u)' /\ Pushed(w)' /\ node'[u] = node'[w] => u = w
    BY <1>1, <2>5, Zenon DEF Placed
  <2>7. QED
    BY <2>1, <2>2, <2>3, <2>4, <2>6, Zenon DEF Placed
<1>10. ASSUME NEW u \in Threads PROVE LocalOK(u)'
  <2>1. CASE u = t
    BY <1>1, <2>1, Zenon DEF LocalOK
  <2>2. CASE u # t
    <3>1. pc[u] = "fill" => node[u] # b
      BY Zenon DEF slab_free, Filling
    <3>2. pc'[u] = pc[u] /\ node'[u] = node[u] /\ h'[u] = h[u] /\ link' = link
      BY <1>1, <2>2, Zenon
    <3>3. pc[u] = "fill" => node[u] \in Blocks /\ uses'[node[u]] = 1
      BY <1>3, <3>1, Zenon DEF LocalOK
    <3>4. QED
      BY <3>2, <3>3, Zenon DEF LocalOK
  <2>3. QED
    BY <2>1, <2>2, Zenon
<1>11. QED
  BY <1>8, <1>9, <1>10, Zenon

\* slab_free puts its block on top of the list whose head it linked to.
LEMMA PushStep ==
    ASSUME TypeOK, NEW F \in SUBSET Blocks, NEW d \in Depths, Stack(F, d), Placed(F),
           \A u \in Threads : LocalOK(u), NEW t \in Threads, push_cas(t)
    PROVE  \E G \in SUBSET Blocks, e \in Depths :
              Stack(G, e)' /\ Placed(G)' /\ \A u \in Threads : LocalOK(u)'
<1> USE DEF TypeOK
<1>1. /\ pc[t] = "pushcas" /\ pc'[t] = "idle" /\ head' = node[t]
      /\ link' = link /\ uses' = uses /\ node' = node /\ h' = h
      /\ \A u \in Threads : u # t => pc'[u] = pc[u]
      /\ link[node[t]] = head
  BY Zenon DEF push_cas, Goto, LocalOK
<1>2. Pushed(t) /\ ~Pushed(t)' /\ \A u \in Threads : u # t => (Pushed(u)' <=> Pushed(u))
  BY <1>1, Zenon DEF Pushed
<1>3. PICK b \in Blocks : b = node[t]
  BY <1>2, Zenon DEF Placed
<1>4. b \notin F /\ uses[b] = 0
  <2>1. b \in InTransit
    BY <1>2, <1>3, Zenon DEF InTransit
  <2>2. QED
    BY <1>2, <1>3, <2>1, Zenon DEF Placed
<1>5. PICK G \in SUBSET Blocks : G = F \cup {b}
  BY Zenon
<1>6. \A c \in F : d[c] \in Nat
  BY Zenon DEF Depths
<1>7. PICK top \in Nat : IF F = {} THEN top = 0 ELSE top = d[head] + 1
  <2>1. F # {} => d[head] + 1 \in Nat
    BY <1>6 DEF Stack
  <2>2. QED
    BY <2>1
<1>8. PICK e \in Depths : e = [d EXCEPT ![b] = top]
  BY Zenon DEF Depths
<1>9. e[b] = top /\ \A c \in F : e[c] = d[c]
  BY <1>4, <1>8, Zenon DEF Depths
<1>10. \A c \in F : d[c] < top
  BY <1>6, <1>7 DEF Stack
<1>11. Stack(G, e)'
  <2>1. \A c \in G : e[c] <= e[b]
    BY <1>5, <1>6, <1>9, <1>10
  <2>2. ASSUME NEW a \in G, NEW c \in G, e[a] = e[c] PROVE a = c
    <3>1. CASE a = b \/ c = b
      BY <1>5, <1>6, <1>9, <1>10, <2>2, <3>1
    <3>2. CASE a # b /\ c # b
      BY <1>5, <1>9, <2>2, <3>2, Zenon DEF Stack
    <3>3. QED
      BY <3>1, <3>2, Zenon
  <2>3. ASSUME NEW a \in G, NEW i \in 0 .. e[a] PROVE \E c \in G : e[c] = i
    <3>1. CASE a # b
      BY <1>5, <1>9, <3>1, Zenon DEF Stack
    <3>2. CASE a = b /\ i = top
      BY <1>5, <1>9, <3>2, Zenon
    <3>3. CASE a = b /\ i # top
      <4>1. F # {} /\ head \in F
        <5>1. F # {}
          BY <1>7, <1>9, <3>3
        <5>2. QED
          BY <5>1, Zenon DEF Stack
      <4>2. i \in 0 .. d[head]
        BY <1>6, <1>7, <1>9, <3>3, <4>1
      <4>3. PICK c \in F : d[c] = i
        BY <4>1, <4>2, Zenon DEF Stack
      <4>4. QED
        BY <1>5, <1>9, <4>3, Zenon
    <3>4. QED
      BY <3>1, <3>2, <3>3, Zenon
  <2>4. ASSUME NEW a \in G PROVE IF e[a] = 0 THEN link[a] = NULL ELSE link[a] \in G /\ e[link[a]] = e[a] - 1
    <3>1. CASE a # b
      BY <1>5, <1>9, <3>1, Zenon DEF Stack
    <3>2. CASE a = b /\ F = {}
      BY <1>1, <1>3, <1>7, <1>9, <3>2, Zenon DEF Stack
    <3>3. CASE a = b /\ F # {}
      <4>1. head \in F /\ link[a] = head /\ e[a] = d[head] + 1
        BY <1>1, <1>3, <1>7, <1>9, <3>3, Zenon DEF Stack
      <4>2. e[a] # 0 /\ e[a] - 1 = d[head]
        BY <1>6, <4>1
      <4>3. QED
        BY <1>5, <1>9, <4>1, <4>2, Zenon
    <3>4. QED
      BY <3>1, <3>2, <3>3, Zenon
  <2>5. G # {} /\ head' \in G /\ head' = b
    BY <1>1, <1>3, <1>5, Zenon
  <2>6. QED
    BY <1>1, <2>1, <2>2, <2>3, <2>4, <2>5, Zenon DEF Stack
<1>12. \A c \in InTransit' : c \in InTransit /\ c # b
  <2>1. ASSUME NEW c \in InTransit' PROVE c \in InTransit /\ c # b
    <3>1. PICK u \in Threads : Pushed(u)' /\ c = node'[u]
      BY <2>1, Zenon DEF InTransit
    <3>2. u # t /\ Pushed(u) /\ c = node[u]
      BY <1>1, <1>2, <3>1, Zenon
    <3>3. node[u] # node[t]
      BY <1>2, <3>2, Zenon DEF Placed
    <3>4. QED
      BY <1>3, <3>2, <3>3, Zenon DEF InTransit
  <2>2. QED
    BY <2>1, Zenon
<1>13. \A c \in InTransit : c \in InTransit' \/ c = b
  BY <1>1, <1>2, <1>3, Zenon DEF InTransit
<1>14. Placed(G)'
  <2>1. \A c \in Blocks : c \in G \/ uses[c] = 1 \/ c \in InTransit'
    BY <1>5, <1>13, Zenon DEF Placed
  <2>2. \A c \in G : uses[c] = 0 /\ c \notin InTransit'
    BY <1>4, <1>5, <1>12, Zenon DEF Placed
  <2>3. \A u \in Threads : Pushed(u)' => Pushed(u)
    BY <1>2, Zenon
  <2>4. QED
    BY <1>1, <2>1, <2>2, <2>3, ZenonT(30) DEF Placed
<1>15. \A u \in Threads : LocalOK(u)'
  BY <1>1, Zenon DEF LocalOK
<1>16. QED
  BY <1>11, <1>14, <1>15, Zenon


\* slab_init puts every block on the list, the last one at the bottom.
LEMMA SlabStart == Init => SlabInv
<1> SUFFICES ASSUME Init PROVE SlabInv
  OBVIOUS
<1> USE SlabAssumption
<1>1. TypeOK
  <2>1. link \in [Blocks -> Words]
    BY DEF Init, Words, Blocks
  <2>2. head \in Words /\ uses \in [Blocks -> Int] /\ NULL \in Words
    <3>1. head \in Words /\ NULL \in Words
      BY DEF Init, Words, Blocks
    <3>2. uses \in [Blocks -> Int]
      BY DEF Init
    <3>3. QED
      BY <3>1, <3>2, Zenon
  <2>3. "idle" \in Labels
    BY Zenon DEF Labels
  <2>4. /\ pc \in [Threads -> Labels]
        /\ h \in [Threads -> Words] /\ n \in [Threads -> Words] /\ node \in [Threads -> Words]
    BY <2>2, <2>3, Zenon DEF Init
  <2>5. QED
    BY <2>1, <2>2, <2>4, Zenon DEF Init, TypeOK
<1>2. \A t \in Threads : LocalOK(t) /\ ~Pushed(t)
  BY Zenon DEF Init, LocalOK, Pushed
<1>3. InTransit = {}
  BY <1>2, Zenon DEF InTransit
<1>4. PICK d \in Depths : \A b \in Blocks : d[b] = NBlocks - b
  <2>1. [b \in Blocks |-> NBlocks - b] \in Depths
    BY DEF Depths, Blocks
  <2>2. QED
    BY <2>1, Zenon
<1>5. Stack(Blocks, d)
  <2>1. IF Blocks = {} THEN head = NULL ELSE head \in Blocks
    BY DEF Init, Blocks
  <2>2. \A b \in Blocks : d[b] <= d[head]
    BY <1>4 DEF Init, Blocks
  <2>3. \A b, c \in Blocks : d[b] = d[c] => b = c
    BY <1>4 DEF Blocks
  <2>4. ASSUME NEW b \in Blocks, NEW i \in 0 .. d[b] PROVE \E c \in Blocks : d[c] = i
    <3>1. NBlocks - i \in Blocks /\ d[NBlocks - i] = i
      BY <1>4 DEF Blocks
    <3>2. QED
      BY <3>1, Zenon
  <2>5. \A b \in Blocks : IF d[b] = 0 THEN link[b] = NULL ELSE link[b] \in Blocks /\ d[link[b]] = d[b] - 1
    BY <1>4 DEF Init, Blocks
  <2>6. QED
    BY <2>1, <2>2, <2>3, <2>4, <2>5, Zenon DEF Stack
<1>6. Placed(Blocks)
  BY <1>2, <1>3, Zenon DEF Init, Placed
<1>7. QED
  BY <1>1, <1>2, <1>5, <1>6, Zenon DEF SlabInv, Listed

\* Every step keeps the blocks of the class in place, as long as no
\* compare-and-swap installed a stale link.
LEMMA SlabNext == SlabInv /\ [Next]_vars => SlabInv'
<1> SUFFICES ASSUME SlabInv, [Next]_vars PROVE SlabInv'
  OBVIOUS
<1>1. TypeOK /\ TypeOK'
  BY TypeNext, Zenon DEF SlabInv
<1> SUFFICES ASSUME ~aba' PROVE Listed' /\ \A u \in Threads : LocalOK(u)'
  BY <1>1, Zenon DEF SlabInv
<1> DEFINE Goal == \E G \in SUBSET Blocks, e \in Depths :
                      Stack(G, e)' /\ Placed(G)' /\ \A u \in Threads : LocalOK(u)'
<1> SUFFICES Goal
  BY Zenon DEF Listed
<1>2. ~aba
  BY <1>1, Zenon DEF Next, Step, vars, TypeOK, slab_alloc, slab_free, Call, pop_load, pop_next,
    pop_cas, cas_fail, fill, push_load, push_link, push_cas, Finished
<1>3. \A u \in Threads : LocalOK(u)
  BY <1>2, Zenon DEF SlabInv
<1>4. PICK F \in SUBSET Blocks : \E e \in Depths : Stack(F, e) /\ Placed(F)
  BY <1>2, Zenon DEF SlabInv, Listed
<1>5. PICK d \in Depths : Stack(F, d) /\ Placed(F)
  BY <1>4, Zenon
<1>6. ASSUME NEW t \in Threads, slab_alloc(t) \/ Step(t) PROVE Goal
  <2>1. CASE slab_alloc(t) \/ pop_load(t) \/ pop_next(t) \/ cas_fail(t) \/ push_load(t)
    BY <1>1, <1>3, <1>5, <2>1, QuietSteps, Zenon
  <2>2. CASE fill(t) \/ push_link(t)
    BY <1>1, <1>3, <1>5, <2>2, WriteSteps, Zenon
  <2>3. CASE pop_cas(t)
    <3>1. n[t] = link[h[t]]
      BY <2>3, Zenon DEF pop_cas
    <3>2. PICK G \in SUBSET Blocks : Stack(G, d)' /\ Placed(G)' /\ \A u \in Threads : LocalOK(u)'
      BY <1>1, <1>3, <1>5, <2>3, <3>1, PopStep, Zenon
    <3>3. QED
      BY <3>2, Zenon
  <2>4. CASE push_cas(t)
    BY <1>1, <1>3, <1>5, <2>4, PushStep, Zenon
  <2>5. QED
    BY <1>6, <2>1, <2>2, <2>3, <2>4, Zenon DEF Step
<1>7. ASSUME NEW t \in Threads, NEW b \in Blocks, slab_free(t, b) PROVE Goal
  BY <1>1, <1>3, <1>5, <1>7, FreeStep, Zenon
<1>8. CASE UNCHANGED vars
  <2>1. Stack(F, d)' /\ Placed(F)'
    BY <1>5, <1>8, StackFrame, PlacedFrame, Zenon DEF vars, Pushed
  <2>2. \A u \in Threads : LocalOK(u)'
    BY <1>3, <1>8, Zenon DEF vars, LocalOK
  <2>3. QED
    BY <2>1, <2>2, Zenon
<1>9. QED
  BY <1>6, <1>7, <1>8, Zenon DEF Next, Finished

\* The invariant holds in every state of the slab allocator.
LEMMA SlabInvariant == Spec => []SlabInv
BY SlabStart, SlabNext, PTL DEF Spec

\* Until a compare-and-swap of slab_alloc installs a stale link, slab_alloc and
\* slab_free neither lose a block nor put one in two places, and the free list
\* ends: whatever the number of threads and of blocks in the class.
THEOREM ConservationCorrect == Spec => []Conservation
<1>1. SlabInv => Conservation
  <2> SUFFICES ASSUME SlabInv, ~aba
               PROVE  /\ head = NULL \/ \E b \in FreeList : link[b] = NULL
                      /\ FreeList \cup InUse \cup InTransit = Blocks
                      /\ FreeList \cap InUse = {} /\ FreeList \cap InTransit = {}
                      /\ InUse \cap InTransit = {}
    BY Zenon DEF Conservation
  <2>1. PICK F \in SUBSET Blocks : \E e \in Depths : Stack(F, e) /\ Placed(F)
    BY Zenon DEF SlabInv, Listed
  <2>2. PICK d \in Depths : Stack(F, d) /\ Placed(F)
    BY <2>1, Zenon
  <2>3. FreeList = F /\ (head = NULL \/ \E b \in FreeList : link[b] = NULL)
    BY <2>2, StackIsFreeList, Zenon DEF SlabInv
  <2>4. \A b \in Blocks : uses[b] = 1 <=> b \in InUse
    BY <2>2 DEF Placed, InUse
  <2>5. ASSUME NEW b \in InTransit PROVE b \in Blocks /\ uses[b] = 0
    <3>1. PICK t \in Threads : Pushed(t) /\ b = node[t]
      BY <2>5, Zenon DEF InTransit
    <3>2. QED
      BY <2>2, <3>1, Zenon DEF Placed
  <2>6. 0 # 1
    OBVIOUS
  <2>7. FreeList \cup InUse \cup InTransit = Blocks
    BY <2>2, <2>3, <2>4, <2>5, Zenon DEF Placed, InUse
  <2>8. FreeList \cap InUse = {} /\ FreeList \cap InTransit = {} /\ InUse \cap InTransit = {}
    <3>1. F \cap InUse = {} /\ F \cap InTransit = {}
      <4>1. ASSUME NEW b \in F PROVE b \in Blocks /\ uses[b] = 0 /\ b \notin InTransit
        BY <2>2, Zenon DEF Placed
      <4>2. QED
        BY <2>4, <2>6, <4>1, Zenon
    <3>2. InUse \cap InTransit = {}
      BY <2>4, <2>5, <2>6, Zenon
    <3>3. QED
      BY <2>3, <3>1, <3>2, Zenon
  <2>9. QED
    BY <2>3, <2>7, <2>8, Zenon
<1>2. QED
  BY <1>1, SlabInvariant, PTL

-----------------------------------------------------------------------------
(* Size classes.                                                           *)

\* The sizes of the classes in order: what the recursive definition needs as a witness.
Doubled ==
    [c \in Classes |->
        IF c = 0 THEN 64 ELSE IF c = 1 THEN 128 ELSE IF c = 2 THEN 256 ELSE IF c = 3 THEN 512
        ELSE IF c = 4 THEN 1024 ELSE IF c = 5 THEN 2048 ELSE IF c = 6 THEN 4096
        ELSE IF c = 7 THEN 8192 ELSE IF c = 8 THEN 16384 ELSE IF c = 9 THEN 32768
        ELSE IF c = 10 THEN 65536 ELSE IF c = 11 THEN 131072 ELSE IF c = 12 THEN 262144
        ELSE IF c = 13 THEN 524288 ELSE IF c = 14 THEN 1048576 ELSE 2097152]

\* slab_class_size doubles from class to class.
LEMMA ClassSizes ==
    \A c \in Classes :
        /\ slab_class_size[c] \in Nat
        /\ \A d \in Classes : c <= d => slab_class_size[c] <= slab_class_size[d]
<1> USE DEF Classes, VC_SLAB_CLASSES, VC_SLAB_BASE
<1> DEFINE Unfold(g) == [c \in Classes |-> IF c = 0 THEN VC_SLAB_BASE ELSE 2 * g[c - 1]]
<1>1. \A c \in Classes : Doubled[c] = IF c = 0 THEN VC_SLAB_BASE ELSE 2 * Doubled[c - 1]
  BY DEF Doubled
<1>2. Doubled = Unfold(Doubled)
  BY <1>1 DEF Doubled
<1>3. slab_class_size = CHOOSE g : g = Unfold(g)
  BY Zenon DEF slab_class_size
<1>4. slab_class_size = Unfold(slab_class_size)
  BY <1>2, <1>3, Zenon
<1> HIDE DEF Unfold
<1>5. /\ \A c \in Classes : slab_class_size[c] = IF c = 0 THEN VC_SLAB_BASE ELSE 2 * slab_class_size[c - 1]
  BY <1>4, Zenon DEF Unfold
<1> DEFINE s == slab_class_size
<1>6. s[0] = 64 /\ s[1] = 128 /\ s[2] = 256 /\ s[3] = 512 /\ s[4] = 1024 /\ s[5] = 2048
  BY <1>5
<1>7. s[6] = 4096 /\ s[7] = 8192 /\ s[8] = 16384 /\ s[9] = 32768 /\ s[10] = 65536
  BY <1>5, <1>6
<1>8. s[11] = 131072 /\ s[12] = 262144 /\ s[13] = 524288 /\ s[14] = 1048576 /\ s[15] = 2097152
  BY <1>5, <1>7
<1>9. QED
  BY <1>6, <1>7, <1>8

LastClass == VC_SLAB_CLASSES - 1

\* Where the loop of slab_class_for ends.
Ends(c, sz) == slab_class_size[c] >= sz \/ c = LastClass

\* d is the first class from c on at which the loop ends.
First(c, d, sz) ==
    /\ d \in Classes /\ c <= d /\ Ends(d, sz)
    /\ \A e \in Classes : c <= e /\ e < d => ~Ends(e, sz)

\* The loop of slab_class_for ends, at the first class that holds sz bytes or the last.
LEMMA ClassFor == ASSUME NEW sz \in Nat PROVE First(0, slab_class_for(sz), sz)
<1> DEFINE Unfold(g) ==
      [c \in Classes |-> IF slab_class_size[c] < sz /\ c < VC_SLAB_CLASSES - 1 THEN g[c + 1] ELSE c]
<1> DEFINE W == [c \in Classes |-> CHOOSE d \in Classes : First(c, d, sz)]
<1>0. /\ \A c \in Classes : slab_class_size[c] \in Nat
      /\ Classes \subseteq Nat /\ LastClass \in Classes /\ 0 \in Classes /\ \A c \in Classes : c <= LastClass
  BY ClassSizes DEF Classes, VC_SLAB_CLASSES, LastClass
<1>1. ASSUME NEW c \in Classes PROVE \E d \in Classes : First(c, d, sz)
  <2> DEFINE T == {d \in Classes : c <= d /\ Ends(d, sz)}
  <2>1. T # {} /\ T \subseteq Nat
    BY <1>0, Zenon DEF Ends
  <2>2. PICK d \in T : \A y \in T : d <= y
    BY <2>1, LeastNumber, Zenon
  <2>3. QED
    BY <1>0, <2>2 DEF First
<1>2. ASSUME NEW c \in Classes PROVE W[c] \in Classes /\ First(c, W[c], sz)
  BY <1>1, Zenon
<1>3. ASSUME NEW c \in Classes, NEW d \in Classes, NEW e \in Classes, First(c, d, sz), First(c, e, sz)
      PROVE  d = e
  <2>1. d \in Nat /\ e \in Nat /\ ~(d < e) /\ ~(e < d)
    BY <1>0, <1>3, Zenon DEF First
  <2>2. QED
    BY <2>1
<1>w. W \in [Classes -> Classes]
  BY <1>2, Zenon
<1> HIDE DEF W
<1>4. ASSUME NEW c \in Classes, Ends(c, sz)
      PROVE  First(c, c, sz) /\ ~(slab_class_size[c] < sz /\ c < VC_SLAB_CLASSES - 1)
  <2>1. slab_class_size[c] \in Nat /\ c \in Nat /\ c <= c /\ LastClass = VC_SLAB_CLASSES - 1
    BY <1>0 DEF LastClass
  <2>2. \A e \in Classes : ~(c <= e /\ e < c)
    BY <1>0
  <2>3. QED
    BY <1>4, <2>1, <2>2 DEF First, Ends
<1>5. ASSUME NEW c \in Classes, ~Ends(c, sz)
      PROVE  /\ slab_class_size[c] < sz /\ c < VC_SLAB_CLASSES - 1 /\ c + 1 \in Classes
             /\ \A d \in Classes : First(c + 1, d, sz) => First(c, d, sz)
  <2>1. slab_class_size[c] < sz /\ c < VC_SLAB_CLASSES - 1 /\ c + 1 \in Classes
    BY <1>0, <1>5 DEF Ends, LastClass, Classes
  <2>2. \A e \in Classes : (c <= e <=> e = c \/ c + 1 <= e)
    BY <1>0
  <2>3. QED
    BY <1>5, <2>1, <2>2, Zenon DEF First
<1>6. ASSUME NEW c \in Classes
      PROVE  W[c] = IF slab_class_size[c] < sz /\ c < VC_SLAB_CLASSES - 1 THEN W[c + 1] ELSE c
  <2>1. CASE Ends(c, sz)
    BY <1>2, <1>3, <1>4, <2>1, Zenon
  <2>2. CASE ~Ends(c, sz)
    BY <1>2, <1>3, <1>5, <2>2, Zenon
  <2>3. QED
    BY <2>1, <2>2, Zenon
<1>7. W = Unfold(W)
  <2>1. Unfold(W) = [c \in Classes |-> W[c]]
    BY <1>6, Zenon
  <2>2. W = [c \in Classes |-> W[c]]
    BY <1>w
  <2>3. QED
    BY <2>1, <2>2, Zenon
<1> DEFINE f == CHOOSE g : g = Unfold(g)
<1>8. f = Unfold(f) /\ slab_class_for(sz) = f[0]
  <2>1. slab_class_for(sz) = f[0]
    BY Zenon DEF slab_class_for
  <2>2. QED
    BY <1>7, <2>1, Zenon
<1> HIDE DEF f
<1>9. \A c \in Classes : f[c] = IF slab_class_size[c] < sz /\ c < VC_SLAB_CLASSES - 1 THEN f[c + 1] ELSE c
  BY <1>8, Zenon
<1> HIDE DEF Unfold
<1>10. \A c \in Classes : First(c, f[c], sz)
  <2> DEFINE T == {j \in Nat : j <= LastClass /\ ~First(LastClass - j, f[LastClass - j], sz)}
  <2>1. ASSUME NEW c \in Classes PROVE LastClass - c \in Nat /\ LastClass - c <= LastClass /\ LastClass - (LastClass - c) = c
    BY <1>0
  <2>2. SUFFICES ASSUME T # {} PROVE FALSE
    BY <2>1, Zenon
  <2>3. PICK j \in T : \A y \in T : j <= y
    BY <2>2, LeastNumber, Zenon
  <2>4. LastClass - j \in Classes /\ ~First(LastClass - j, f[LastClass - j], sz)
    BY <2>3 DEF Classes, LastClass, VC_SLAB_CLASSES
  <2>5. CASE Ends(LastClass - j, sz)
    BY <1>4, <1>9, <2>4, <2>5, Zenon
  <2>6. CASE ~Ends(LastClass - j, sz)
    <3>1. LastClass - j + 1 \in Classes /\ f[LastClass - j] = f[LastClass - j + 1]
      BY <1>5, <1>9, <2>4, <2>6, Zenon
    <3>2. j - 1 \in Nat /\ j - 1 <= LastClass /\ LastClass - (j - 1) = LastClass - j + 1 /\ ~(j <= j - 1)
      BY <2>3, <3>1 DEF Classes, LastClass, VC_SLAB_CLASSES
    <3>3. First(LastClass - j + 1, f[LastClass - j + 1], sz)
      BY <2>3, <3>2, Zenon
    <3>4. QED
      BY <1>5, <2>4, <2>6, <3>1, <3>3, Zenon DEF First
  <2>7. QED
    BY <2>5, <2>6
<1>11. QED
  BY <1>0, <1>8, <1>10, Zenon

\* The largest recorded length is a number.
LEMMA MaxLength == UINT16_MAX \in Nat
  BY DEF UINT16_MAX

\* A value that fits the largest class fits its own, and its clipped length has the
\* same class or a smaller one.
LEMMA ClassFits ==
    ASSUME NEW vl \in Nat, vl <= slab_class_size[VC_SLAB_CLASSES - 1]
    PROVE  /\ slab_class_for(vl) \in Classes /\ vl <= slab_class_size[slab_class_for(vl)]
           /\ ClipLen(vl) \in 0 .. UINT16_MAX /\ slab_class_for(ClipLen(vl)) \in Classes
           /\ slab_class_for(ClipLen(vl)) <= slab_class_for(vl)
<1> DEFINE c == slab_class_for(vl)
<1> DEFINE d == slab_class_for(ClipLen(vl))
<1>1. ClipLen(vl) \in 0 .. UINT16_MAX /\ ClipLen(vl) \in Nat /\ ClipLen(vl) <= vl
  BY MaxLength DEF ClipLen
<1>2. First(0, c, vl) /\ First(0, d, ClipLen(vl))
  BY <1>1, ClassFor, Zenon
<1> HIDE DEF c, d
<1>3. c \in Classes /\ d \in Classes /\ Ends(c, vl)
  BY <1>2, Zenon DEF First
<1>4. c \in Nat /\ d \in Nat /\ slab_class_size[c] \in Nat
  BY <1>3, ClassSizes DEF Classes, VC_SLAB_CLASSES
<1>5. vl <= slab_class_size[c]
  BY <1>3, <1>4 DEF Ends, LastClass
<1>6. Ends(c, ClipLen(vl))
  BY <1>1, <1>4, <1>5 DEF Ends
<1>7. ~(c < d)
  BY <1>2, <1>3, <1>4, <1>6 DEF First
<1>8. QED
  BY <1>1, <1>3, <1>4, <1>5, <1>7 DEF c, d

-----------------------------------------------------------------------------
(* Lists of blocks.                                                        *)

\* What a push does to a list.
LEMMA PushList ==
    ASSUME NEW S, NEW s \in Seq(S), NEW b \in S
    PROVE  /\ <<b>> \o s \in Seq(S) /\ Range(<<b>> \o s) = Range(s) \cup {b}
           /\ IsInjective(s) /\ b \notin Range(s) => IsInjective(<<b>> \o s)
<1> DEFINE p == <<b>> \o s
<1>1. /\ p \in Seq(S) /\ Len(p) = Len(s) + 1 /\ Len(s) \in Nat
      /\ DOMAIN p = 1 .. Len(p) /\ DOMAIN s = 1 .. Len(s)
  OBVIOUS
<1>2. p[1] = b /\ \A j \in DOMAIN s : p[j + 1] = s[j]
  OBVIOUS
<1>3. 1 \in DOMAIN p /\ \A j \in DOMAIN s : j + 1 \in DOMAIN p
  BY <1>1
<1>4. \A j \in DOMAIN p : j = 1 \/ (j - 1 \in DOMAIN s /\ p[j] = s[j - 1])
  BY <1>1, <1>2
<1> HIDE DEF p
<1>5. Range(p) = Range(s) \cup {b}
  <2>1. ASSUME NEW x \in Range(p) PROVE x \in Range(s) \cup {b}
    <3>1. PICK j \in DOMAIN p : x = p[j]
      BY Zenon DEF Range
    <3>2. QED
      BY <1>2, <1>4, <3>1, Zenon DEF Range
  <2>2. ASSUME NEW x \in Range(s) PROVE x \in Range(p)
    BY <1>2, <1>3, Zenon DEF Range
  <2>3. b \in Range(p)
    BY <1>2, <1>3, Zenon DEF Range
  <2>4. QED
    BY <2>1, <2>2, <2>3, Zenon
<1>6. ASSUME IsInjective(s), b \notin Range(s), NEW x \in DOMAIN p, NEW y \in DOMAIN p, p[x] = p[y]
      PROVE  x = y
  <2>1. \A j \in DOMAIN s : s[j] # b
    BY <1>6, Zenon DEF Range
  <2>2. x \in Int /\ y \in Int
    BY <1>1
  <2>3. CASE x = 1 \/ y = 1
    BY <1>2, <1>4, <1>6, <2>1, <2>3, Zenon
  <2>4. CASE x # 1 /\ y # 1
    <3>1. x - 1 = y - 1
      BY <1>4, <1>6, <2>4, Zenon DEF IsInjective
    <3>2. QED
      BY <2>2, <3>1
  <2>5. QED
    BY <2>3, <2>4
<1>7. QED
  BY <1>1, <1>5, <1>6, Zenon DEF IsInjective, p

\* What a pop does to a list that is not empty.
LEMMA PopList ==
    ASSUME NEW S, NEW s \in Seq(S), s # <<>>
    PROVE  /\ Head(s) \in S /\ Tail(s) \in Seq(S) /\ Range(s) = Range(Tail(s)) \cup {Head(s)}
           /\ IsInjective(s) => IsInjective(Tail(s)) /\ Head(s) \notin Range(Tail(s))
<1> DEFINE r == Tail(s)
<1>1. /\ r \in Seq(S) /\ Len(s) \in Nat \ {0} /\ Len(r) = Len(s) - 1
      /\ DOMAIN r = 1 .. Len(r) /\ DOMAIN s = 1 .. Len(s) /\ Head(s) \in S
  OBVIOUS
<1>2. Head(s) = s[1] /\ \A j \in DOMAIN r : r[j] = s[j + 1]
  OBVIOUS
<1>3. 1 \in DOMAIN s /\ \A j \in DOMAIN r : j + 1 \in DOMAIN s /\ j + 1 # 1
  BY <1>1
<1>4. \A j \in DOMAIN s : j = 1 \/ (j - 1 \in DOMAIN r /\ r[j - 1] = s[j])
  BY <1>1, <1>2
<1> HIDE DEF r
<1>5. Range(s) = Range(r) \cup {Head(s)}
  <2>1. ASSUME NEW x \in Range(s) PROVE x \in Range(r) \cup {Head(s)}
    <3>1. PICK j \in DOMAIN s : x = s[j]
      BY Zenon DEF Range
    <3>2. CASE j = 1
      BY <1>2, <3>1, <3>2, Zenon
    <3>3. CASE j - 1 \in DOMAIN r /\ r[j - 1] = s[j]
      BY <3>1, <3>3, Zenon DEF Range
    <3>4. QED
      BY <1>4, <3>2, <3>3, Zenon
  <2>2. ASSUME NEW x \in Range(r) PROVE x \in Range(s)
    BY <1>2, <1>3, Zenon DEF Range
  <2>3. Head(s) \in Range(s)
    BY <1>2, <1>3, Zenon DEF Range
  <2>4. QED
    BY <2>1, <2>2, <2>3, Zenon
<1>6. ASSUME IsInjective(s) PROVE IsInjective(r)
  <2> SUFFICES ASSUME NEW x \in DOMAIN r, NEW y \in DOMAIN r, r[x] = r[y] PROVE x = y
    BY Zenon DEF IsInjective
  <2>1. x + 1 = y + 1
    BY <1>2, <1>3, <1>6, Zenon DEF IsInjective
  <2>2. QED
    BY <1>1, <2>1
<1>7. ASSUME IsInjective(s) PROVE Head(s) \notin Range(r)
  <2> SUFFICES ASSUME NEW j \in DOMAIN r, r[j] = Head(s) PROVE FALSE
    BY Zenon DEF Range
  <2>1. j + 1 \in DOMAIN s /\ s[j + 1] = s[1] /\ 1 \in DOMAIN s
    BY <1>2, <1>3, Zenon
  <2>2. QED
    BY <1>3, <1>7, <2>1, Zenon DEF IsInjective
<1>8. QED
  BY <1>1, <1>5, <1>6, <1>7, Zenon DEF r

-----------------------------------------------------------------------------
(* The inductive invariant.                                                *)

OnBlock(e) == "VAL_SLAB" \in e.flags

\* The blocks that the entries of a table have.
Held(table) == {table[k].block : k \in {l \in Keys : OnBlock(table[l])}}

OneHolder(table) ==
    \A k, l \in Keys :
        OnBlock(table[k]) /\ OnBlock(table[l]) /\ table[k].block = table[l].block => k = l

\* Block b may be on the list of class c.
Suits(c, b) == b.arena = c \/ (c = slab_class_for(UINT16_MAX) /\ b.arena > c)

\* What an entry says about its storage, when the value has len bytes.
Sane(e, len) ==
    /\ len = 0 => e = NoEntry
    /\ len > 0 => e.end <= PayloadBytes
    /\ OnBlock(e) =>
         /\ e.block \in ArenaBlock /\ len > 0
         /\ len <= slab_class_size[e.block.arena]
         /\ slab_class_for(e.val_len) \in Classes /\ Suits(slab_class_for(e.val_len), e.block)

Suited(f) == \A c \in Classes : \A b \in Range(f[c]) : Suits(c, b)

\* Lists f and the set H of blocks in use share out the blocks of the arenas.
Split(f, H) ==
    /\ \A c \in Classes : IsInjective(f[c]) /\ Range(f[c]) \cap H = {}
    /\ \A c, d \in Classes : c # d => Range(f[c]) \cap Range(f[d]) = {}
    /\ \A b \in ArenaBlock : b \in H \/ \E c \in Classes : b \in Range(f[c])

\* So do the lists, the entries of a table, and a set X of blocks that are in neither.
Shared(f, table, X) == Split(f, Held(table) \cup X) /\ Held(table) \cap X = {} /\ OneHolder(table)

Lists == [Classes -> Seq(ArenaBlock)]

EntryType ==
    [flags : SUBSET {"KEY_LONG", "VAL_SLAB", "VAL_MMAP"}, key_len : Nat,
     val_len : 0 .. UINT16_MAX, end : Nat, block : ArenaBlock \cup {NoBlock}]

ValuesInv ==
    /\ entry \in [Keys -> EntryType] /\ stored \in [Keys -> Nat] /\ mapped \in [Keys -> Nat]
    /\ free \in Lists
    /\ \A k \in Keys : Sane(entry[k], stored[k]) /\ FreePages(entry[k]) <= mapped[k]
    /\ Suited(free)
    /\ open => Shared(free, entry, lost)

\* slab_alloc on lists that share out the blocks.
LEMMA PopSplit ==
    ASSUME NEW f \in Lists, NEW H, Suited(f), NEW c \in Classes, f[c] # <<>>
    PROVE  LET g == [f EXCEPT ![c] = Tail(@)]
               b == Head(f[c]) IN
           /\ g \in Lists /\ Suited(g) /\ b \in ArenaBlock /\ Suits(c, b)
           /\ Split(f, H) => Split(g, H \cup {b}) /\ b \notin H
<1> DEFINE g == [f EXCEPT ![c] = Tail(@)]
<1> DEFINE b == Head(f[c])
<1> DEFINE R(d) == Range(f[d])
<1> DEFINE Q(d) == Range(g[d])
<1>1. f[c] \in Seq(ArenaBlock)
  BY Zenon DEF Lists
<1>2. /\ b \in ArenaBlock /\ Tail(f[c]) \in Seq(ArenaBlock) /\ R(c) = Range(Tail(f[c])) \cup {b}
      /\ IsInjective(f[c]) => IsInjective(Tail(f[c])) /\ b \notin Range(Tail(f[c]))
  BY <1>1, PopList, Zenon
<1>3. g \in Lists /\ g[c] = Tail(f[c]) /\ \A d \in Classes : d # c => g[d] = f[d]
  BY <1>2, Zenon DEF Lists
<1>4. R(c) = Q(c) \cup {b} /\ \A d \in Classes : d # c => Q(d) = R(d)
  BY <1>2, <1>3, Zenon
<1>5. IsInjective(f[c]) => IsInjective(g[c]) /\ b \notin Q(c)
  BY <1>2, <1>3, Zenon
<1>6. \A d \in Classes : d # c /\ IsInjective(f[d]) => IsInjective(g[d])
  BY <1>3, Zenon
<1>7. Suits(c, b)
  BY <1>4, Zenon DEF Suited
<1> HIDE DEF g, b
<1>8. Suited(g)
  BY <1>4, Zenon DEF Suited
<1>9. ASSUME Split(f, H) PROVE Split(g, H \cup {b}) /\ b \notin H
  <2>1. \A d \in Classes : IsInjective(f[d]) /\ R(d) \cap H = {}
    BY <1>9, Zenon DEF Split
  <2>2. \A d, e \in Classes : d # e => R(d) \cap R(e) = {}
    BY <1>9, Zenon DEF Split
  <2>3. \A x \in ArenaBlock : x \in H \/ \E d \in Classes : x \in R(d)
    BY <1>9, Zenon DEF Split
  <2> HIDE DEF R, Q
  <2>4. b \notin H /\ b \in R(c)
    BY <1>4, <2>1, Zenon
  <2>5. ASSUME NEW d \in Classes PROVE IsInjective(g[d]) /\ Q(d) \cap (H \cup {b}) = {}
    <3>1. CASE d = c
      BY <1>4, <1>5, <2>1, <3>1, Zenon
    <3>2. CASE d # c
      <4>1. IsInjective(g[d]) /\ Q(d) = R(d)
        BY <1>4, <1>6, <2>1, <3>2, Zenon
      <4>2. b \notin R(d)
        BY <2>2, <2>4, <3>2, Zenon
      <4>3. QED
        BY <2>1, <4>1, <4>2, Zenon
    <3>3. QED
      BY <3>1, <3>2
  <2>6. \A d \in Classes : Q(d) \subseteq R(d)
    BY <1>4, Zenon
  <2>7. \A d, e \in Classes : d # e => Q(d) \cap Q(e) = {}
    BY <2>2, <2>6, Zenon
  <2>8. ASSUME NEW x \in ArenaBlock PROVE x \in H \cup {b} \/ \E d \in Classes : x \in Q(d)
    BY <1>4, <2>3, Zenon
  <2>9. QED
    BY <2>4, <2>5, <2>7, <2>8, Zenon DEF Split, Q
<1>10. QED
  BY <1>2, <1>3, <1>7, <1>8, <1>9, Zenon DEF g, b

\* slab_free on lists that share out the blocks.
LEMMA PushSplit ==
    ASSUME NEW f \in Lists, NEW H, Suited(f), NEW c \in Classes, NEW b \in ArenaBlock, Suits(c, b)
    PROVE  LET g == [f EXCEPT ![c] = <<b>> \o @] IN
           /\ g \in Lists /\ Suited(g)
           /\ Split(f, H) /\ b \in H => Split(g, H \ {b})
<1> DEFINE g == [f EXCEPT ![c] = <<b>> \o @]
<1> DEFINE R(d) == Range(f[d])
<1> DEFINE Q(d) == Range(g[d])
<1>1. f[c] \in Seq(ArenaBlock)
  BY Zenon DEF Lists
<1>2. /\ <<b>> \o f[c] \in Seq(ArenaBlock) /\ Range(<<b>> \o f[c]) = R(c) \cup {b}
      /\ IsInjective(f[c]) /\ b \notin R(c) => IsInjective(<<b>> \o f[c])
  BY <1>1, PushList, Zenon
<1>3. g \in Lists /\ g[c] = <<b>> \o f[c] /\ \A d \in Classes : d # c => g[d] = f[d]
  BY <1>2, Zenon DEF Lists
<1>4. Q(c) = R(c) \cup {b} /\ \A d \in Classes : d # c => Q(d) = R(d)
  BY <1>2, <1>3, Zenon
<1>5. IsInjective(f[c]) /\ b \notin R(c) => IsInjective(g[c])
  BY <1>2, <1>3, Zenon
<1>6. \A d \in Classes : d # c /\ IsInjective(f[d]) => IsInjective(g[d])
  BY <1>3, Zenon
<1> HIDE DEF g
<1>8. Suited(g)
  BY <1>4, Zenon DEF Suited
<1>9. ASSUME Split(f, H), b \in H PROVE Split(g, H \ {b})
  <2>1. \A d \in Classes : IsInjective(f[d]) /\ R(d) \cap H = {}
    BY <1>9, Zenon DEF Split
  <2>2. \A d, e \in Classes : d # e => R(d) \cap R(e) = {}
    BY <1>9, Zenon DEF Split
  <2>3. \A x \in ArenaBlock : x \in H \/ \E d \in Classes : x \in R(d)
    BY <1>9, Zenon DEF Split
  <2> HIDE DEF R, Q
  <2>4. \A d \in Classes : b \notin R(d)
    BY <1>9, <2>1, Zenon
  <2>5. ASSUME NEW d \in Classes PROVE IsInjective(g[d]) /\ Q(d) \cap (H \ {b}) = {}
    BY <1>4, <1>5, <1>6, <2>1, <2>4, Zenon
  <2>6. ASSUME NEW d \in Classes, NEW e \in Classes, d # e PROVE Q(d) \cap Q(e) = {}
    <3>1. CASE d # c /\ e # c
      BY <1>4, <2>2, <2>6, <3>1, Zenon
    <3>2. CASE d = c
      BY <1>4, <2>2, <2>4, <2>6, <3>2, Zenon
    <3>3. CASE e = c
      BY <1>4, <2>2, <2>4, <2>6, <3>3, Zenon
    <3>4. QED
      BY <3>1, <3>2, <3>3
  <2>7. \A x \in ArenaBlock : x \in H \ {b} \/ \E d \in Classes : x \in Q(d)
    BY <1>4, <2>3, Zenon
  <2>8. QED
    BY <2>5, <2>6, <2>7, Zenon DEF Split, Q
<1>10. QED
  BY <1>3, <1>8, <1>9, Zenon DEF g

-----------------------------------------------------------------------------
(* Entries.                                                                *)

\* An absent entry has no storage.
LEMMA NoEntryFacts ==
    /\ NoEntry \in EntryType /\ ~OnBlock(NoEntry) /\ FreePages(NoEntry) = 0
<1>1. NoBlock \in ArenaBlock \cup {NoBlock}
  BY Zenon
<1>2. 0 \in Nat /\ 0 \in 0 .. UINT16_MAX
  BY MaxLength
<1> HIDE DEF NoBlock
<1>3. QED
  BY <1>1, <1>2, Zenon DEF NoEntry, EntryType, OnBlock, FreePages

\* Whole pages are a number, and no fewer for a longer value.
LEMMA PageFacts ==
    ASSUME NEW x \in Nat, NEW y \in Nat, x <= y
    PROVE  Pages(x) \in Nat /\ Pages(y) \in Nat /\ Pages(x) <= Pages(y)
  BY DEF Pages, PageBytes

\* The entry vc_set builds has its fields' types, stays inside the payload and records
\* no more pages than were mapped.
LEMMA NewEntryFacts ==
    ASSUME NEW k \in Keys, NEW vl \in Nat \ {0}, NEW b \in ArenaBlock \cup {NoBlock}
    PROVE  LET e == NewEntry(k, vl, b) IN
           /\ e \in EntryType /\ e.end <= PayloadBytes /\ e.val_len = ClipLen(vl) /\ e.block = b
           /\ e.flags = Flags(KeyLen[k], vl)
           /\ NewPages(k, vl) \in Nat /\ FreePages(e) \in Nat /\ FreePages(e) <= NewPages(k, vl)
           /\ OnBlock(e) => vl <= slab_class_size[VC_SLAB_CLASSES - 1]
<1> DEFINE e == NewEntry(k, vl, b)
<1> DEFINE fl == Flags(KeyLen[k], vl)
<1> DEFINE end == ValOffset(fl, KeyLen[k]) + IF fl = {} THEN vl ELSE PointerBytes
<1>1. KeyLen[k] \in Nat \ {0}
  BY KeyAssumption
<1>2. slab_class_size[VC_SLAB_CLASSES - 1] \in Nat
  BY ClassSizes DEF Classes, VC_SLAB_CLASSES
<1>3. fl \in SUBSET {"KEY_LONG", "VAL_SLAB", "VAL_MMAP"}
  BY Zenon DEF Flags
<1>4. /\ fl = {} => KeyLen[k] + vl <= PayloadBytes
      /\ "VAL_SLAB" \in fl => vl <= slab_class_size[VC_SLAB_CLASSES - 1]
      /\ fl # {} /\ "KEY_LONG" \notin fl => KeyLen[k] <= PayloadBytes - PointerBytes
  BY DEF Flags
<1> HIDE DEF fl
<1>5. end \in Nat /\ end <= PayloadBytes
  BY <1>1, <1>4 DEF ValOffset, PayloadBytes, PointerBytes
<1>6. ClipLen(vl) \in 0 .. UINT16_MAX /\ ClipLen(vl) \in Nat /\ ClipLen(vl) <= vl
  BY MaxLength DEF ClipLen
<1> HIDE DEF end
<1>7. e = [flags |-> fl, key_len |-> KeyLen[k], val_len |-> ClipLen(vl), block |-> b, end |-> end]
  BY Zenon DEF NewEntry, fl, end
<1> HIDE DEF e
<1>8. e.flags = fl /\ e.end = end /\ e.val_len = ClipLen(vl) /\ e.block = b
  BY <1>7
<1>9. e \in EntryType
  BY <1>1, <1>3, <1>5, <1>6, <1>7 DEF EntryType
<1>10. Pages(vl) \in Nat /\ Pages(ClipLen(vl)) \in Nat /\ Pages(ClipLen(vl)) <= Pages(vl)
  BY <1>6, PageFacts
<1>11. NewPages(k, vl) \in Nat /\ FreePages(e) \in Nat /\ FreePages(e) <= NewPages(k, vl)
  BY <1>8, <1>10 DEF NewPages, FreePages, fl
<1>12. QED
  BY <1>4, <1>5, <1>8, <1>9, <1>11, Zenon DEF OnBlock, e, fl

\* A block from the list of a value's class holds the value, and may come back to the
\* list of its clipped length.
LEMMA ClipSuits ==
    ASSUME NEW vl \in Nat, vl <= slab_class_size[VC_SLAB_CLASSES - 1], NEW b \in ArenaBlock,
           Suits(slab_class_for(vl), b)
    PROVE  /\ vl <= slab_class_size[b.arena]
           /\ slab_class_for(ClipLen(vl)) \in Classes /\ Suits(slab_class_for(ClipLen(vl)), b)
<1> DEFINE c == slab_class_for(vl)
<1> DEFINE d == slab_class_for(ClipLen(vl))
<1>1. c \in Classes /\ vl <= slab_class_size[c] /\ d \in Classes /\ d <= c
  BY ClassFits, Zenon
<1>2. ClipLen(vl) = vl \/ ClipLen(vl) = UINT16_MAX
  BY Zenon DEF ClipLen
<1>3. d = c \/ d = slab_class_for(UINT16_MAX)
  BY <1>2, Zenon
<1>4. Suits(c, b) /\ b.arena \in Classes
  BY Zenon DEF ArenaBlock
<1> HIDE DEF c, d
<1>5. c \in Nat /\ d \in Nat /\ b.arena \in Nat
  BY <1>1, <1>4 DEF Classes, VC_SLAB_CLASSES
<1>6. b.arena >= c
  BY <1>4, <1>5 DEF Suits
<1>7. slab_class_size[c] \in Nat /\ slab_class_size[b.arena] \in Nat /\ slab_class_size[c] <= slab_class_size[b.arena]
  BY <1>1, <1>4, <1>6, ClassSizes DEF Classes, VC_SLAB_CLASSES
<1>8. vl <= slab_class_size[b.arena]
  BY <1>1, <1>7
<1>9. Suits(d, b)
  <2>1. CASE d = c
    BY <1>4, <2>1, Zenon
  <2>2. CASE d # c
    <3>1. b.arena > d
      BY <1>1, <1>5, <1>6, <2>2
    <3>2. QED
      BY <1>3, <2>2, <3>1, Zenon DEF Suits
  <2>3. QED
    BY <2>1, <2>2
<1>10. QED
  BY <1>1, <1>8, <1>9, Zenon DEF d

-----------------------------------------------------------------------------
(* Tables of entries.                                                      *)

\* The blocks in use after an entry is replaced.
LEMMA HeldChange ==
    ASSUME NEW table \in [Keys -> EntryType], NEW k \in Keys, NEW e, OneHolder(table),
           OnBlock(e) => e.block \notin Held(table)
    PROVE  LET next == [table EXCEPT ![k] = e] IN
           /\ Held(next) = (IF OnBlock(table[k]) THEN Held(table) \ {table[k].block} ELSE Held(table))
                             \cup (IF OnBlock(e) THEN {e.block} ELSE {})
           /\ OneHolder(next)
<1> DEFINE next == [table EXCEPT ![k] = e]
<1>1. next[k] = e /\ \A l \in Keys : l # k => next[l] = table[l]
  BY Zenon
<1> HIDE DEF next
<1> DEFINE Others == {table[l].block : l \in {j \in Keys : j # k /\ OnBlock(table[j])}}
<1>2. Others = IF OnBlock(table[k]) THEN Held(table) \ {table[k].block} ELSE Held(table)
  <2>1. ASSUME NEW x \in Others PROVE x \in Held(table) /\ (OnBlock(table[k]) => x # table[k].block)
    BY Zenon DEF Held, OneHolder
  <2>2. ASSUME NEW x \in Held(table), OnBlock(table[k]) => x # table[k].block PROVE x \in Others
    BY <2>2, Zenon DEF Held
  <2>3. QED
    BY <2>1, <2>2, Zenon
<1>3. Held(next) = Others \cup IF OnBlock(e) THEN {e.block} ELSE {}
  <2>1. ASSUME NEW x \in Held(next) PROVE x \in Others \cup IF OnBlock(e) THEN {e.block} ELSE {}
    <3>1. PICK l \in Keys : OnBlock(next[l]) /\ x = next[l].block
      BY Zenon DEF Held
    <3>2. QED
      BY <1>1, <3>1, Zenon
  <2>2. ASSUME NEW x \in Others PROVE x \in Held(next)
    <3>1. PICK l \in Keys : l # k /\ OnBlock(table[l]) /\ x = table[l].block
      BY Zenon
    <3>2. QED
      BY <1>1, <3>1, Zenon DEF Held
  <2>3. OnBlock(e) => e.block \in Held(next)
    BY <1>1, Zenon DEF Held
  <2>4. QED
    BY <2>1, <2>2, <2>3, Zenon
<1>4. OneHolder(next)
  <2> SUFFICES ASSUME NEW l \in Keys, NEW j \in Keys, OnBlock(next[l]), OnBlock(next[j]),
                      next[l].block = next[j].block
               PROVE  l = j
    BY Zenon DEF OneHolder
  <2>1. \A i \in Keys : OnBlock(table[i]) => table[i].block \in Held(table)
    BY Zenon DEF Held
  <2>2. CASE l # k /\ j # k
    BY <1>1, <2>2, Zenon DEF OneHolder
  <2>3. CASE l = k
    BY <1>1, <2>1, <2>3, Zenon
  <2>4. CASE j = k
    BY <1>1, <2>1, <2>4, Zenon
  <2>5. QED
    BY <2>2, <2>3, <2>4
<1>5. QED
  BY <1>2, <1>3, <1>4, Zenon DEF next

\* entry_free_resources of an entry that then leaves the table.
LEMMA EraseShared ==
    ASSUME NEW f \in Lists, Suited(f), NEW table \in [Keys -> EntryType], NEW k \in Keys, NEW len \in Nat,
           Sane(table[k], len), NEW X
    PROVE  LET g == FreeSlab(f, table[k])
               next == [table EXCEPT ![k] = NoEntry] IN
           /\ g \in Lists /\ Suited(g) /\ next \in [Keys -> EntryType]
           /\ Shared(f, table, X) => Shared(g, next, X)
<1> DEFINE g == FreeSlab(f, table[k])
<1> DEFINE next == [table EXCEPT ![k] = NoEntry]
<1> DEFINE b == table[k].block
<1> DEFINE c == slab_class_for(table[k].val_len)
<1>1. next \in [Keys -> EntryType]
  BY NoEntryFacts, Zenon
<1>2. OneHolder(table) => Held(next) = (IF OnBlock(table[k]) THEN Held(table) \ {b} ELSE Held(table)) /\ OneHolder(next)
  BY NoEntryFacts, HeldChange, ZenonT(30)
<1> HIDE DEF next
<1>3. CASE ~OnBlock(table[k])
  <2>1. g = f
    BY <1>3, Zenon DEF FreeSlab, OnBlock
  <2>2. QED
    BY <1>1, <1>2, <1>3, <2>1, Zenon DEF Shared, next
<1>4. CASE OnBlock(table[k])
  <2>1. c \in Classes /\ b \in ArenaBlock /\ Suits(c, b)
    BY <1>4, Zenon DEF Sane
  <2>2. g = [f EXCEPT ![c] = <<b>> \o @]
    BY <1>4, Zenon DEF FreeSlab, OnBlock
  <2>3. b \in Held(table)
    BY <1>4, Zenon DEF Held
  <2> HIDE DEF g, b, c
  <2>4. /\ g \in Lists /\ Suited(g)
        /\ Split(f, Held(table) \cup X) => Split(g, (Held(table) \cup X) \ {b})
    BY <2>1, <2>2, <2>3, PushSplit, Zenon
  <2>5. ASSUME Shared(f, table, X) PROVE Shared(g, next, X)
    <3>1. Split(f, Held(table) \cup X) /\ Held(table) \cap X = {} /\ OneHolder(table)
      BY <2>5, Zenon DEF Shared
    <3>2. Held(next) = Held(table) \ {b} /\ OneHolder(next)
      BY <1>2, <1>4, <3>1, Zenon
    <3>3. (Held(table) \cup X) \ {b} = Held(next) \cup X
      BY <2>3, <3>1, <3>2, Zenon
    <3>4. QED
      BY <2>4, <3>1, <3>2, <3>3, Zenon DEF Shared
  <2>6. QED
    BY <1>1, <2>4, <2>5, Zenon DEF g, next
<1>5. QED
  BY <1>3, <1>4

\* The block an entry has.
Own(e) == IF OnBlock(e) THEN {e.block} ELSE {}

\* An entry on a block that no list and no entry has comes into the table.
LEMMA InsertShared ==
    ASSUME NEW f, NEW table \in [Keys -> EntryType], NEW k \in Keys, ~OnBlock(table[k]),
           NEW e, NEW X, X \cap Own(e) = {}, Shared(f, table, X \cup Own(e))
    PROVE  Shared(f, [table EXCEPT ![k] = e], X)
<1> DEFINE next == [table EXCEPT ![k] = e]
<1>1. /\ Split(f, Held(table) \cup (X \cup Own(e))) /\ Held(table) \cap (X \cup Own(e)) = {}
      /\ OneHolder(table)
  BY Zenon DEF Shared
<1>2. OnBlock(e) => e.block \notin Held(table)
  BY <1>1, Zenon DEF Own
<1>3. /\ Held(next) = Held(table) \cup Own(e) /\ OneHolder(next)
  BY <1>1, <1>2, HeldChange, Zenon DEF Own
<1> HIDE DEF next
<1>4. Held(table) \cup (X \cup Own(e)) = Held(next) \cup X /\ Held(next) \cap X = {}
  BY <1>1, <1>3, Zenon
<1>5. Shared(f, next, X)
  BY <1>1, <1>3, <1>4, Zenon DEF Shared
<1>6. QED
  BY <1>5, Zenon DEF next

\* An entry leaves the table with its block, which comes back to no list.
LEMMA DropShared ==
    ASSUME NEW f, NEW table \in [Keys -> EntryType], NEW x \in Keys, NEW X, Shared(f, table, X)
    PROVE  Shared(f, [table EXCEPT ![x] = NoEntry], X \cup Own(table[x]))
<1> DEFINE next == [table EXCEPT ![x] = NoEntry]
<1>1. Split(f, Held(table) \cup X) /\ Held(table) \cap X = {} /\ OneHolder(table)
  BY Zenon DEF Shared
<1>2. Held(next) = Held(table) \ Own(table[x]) /\ OneHolder(next) /\ Own(table[x]) \subseteq Held(table)
  <2>1. OnBlock(table[x]) => table[x].block \in Held(table)
    BY Zenon DEF Held
  <2>2. QED
    BY <1>1, <2>1, NoEntryFacts, HeldChange, Zenon DEF Own
<1> HIDE DEF next
<1>3. /\ Held(next) \cup (X \cup Own(table[x])) = Held(table) \cup X
      /\ Held(next) \cap (X \cup Own(table[x])) = {}
  BY <1>1, <1>2, Zenon
<1>4. Shared(f, next, X \cup Own(table[x]))
  BY <1>1, <1>2, <1>3, Zenon DEF Shared
<1>5. QED
  BY <1>4, Zenon DEF next

-----------------------------------------------------------------------------
(* Every step keeps the invariant.                                         *)

\* What an absent entry says is true.
LEMMA NoEntrySane == Sane(NoEntry, 0)
<1>1. ~(0 > 0)
  OBVIOUS
<1>2. QED
  BY <1>1, NoEntryFacts, Zenon DEF Sane

\* An entry has no more pages to unmap than are mapped for its key.
LEMMA PagesLeft ==
    ASSUME ValuesInv, NEW k \in Keys
    PROVE  /\ mapped[k] \in Nat /\ FreePages(entry[k]) \in Nat /\ FreePages(entry[k]) <= mapped[k]
           /\ mapped[k] - FreePages(entry[k]) \in Nat
<1>1. entry[k] \in EntryType /\ mapped[k] \in Nat /\ FreePages(entry[k]) <= mapped[k]
  BY Zenon DEF ValuesInv
<1>2. entry[k].val_len \in Nat
  BY <1>1, MaxLength DEF EntryType
<1>3. FreePages(entry[k]) \in Nat
  BY <1>2, PageFacts DEF FreePages
<1>4. QED
  BY <1>1, <1>3

\* The pages mapped for key l after vc_set has placed a new value of key k.
LEMMA PagesAfter ==
    ASSUME ValuesInv, NEW k \in Keys, NEW gone, NEW more \in Nat, NEW l \in Keys
    PROVE  LET m == mapped[l] - (IF l \in gone THEN FreePages(entry[l]) ELSE 0)
                      + IF l = k THEN more ELSE 0 IN
           /\ m \in Nat
           /\ l = k => more <= m
           /\ l \notin gone => FreePages(entry[l]) <= m
  BY PagesLeft

\* The initial states satisfy the invariant.
LEMMA ValuesInitInv == ValuesInit => ValuesInv
<1> SUFFICES ASSUME ValuesInit PROVE ValuesInv
  OBVIOUS
<1>1. entry \in [Keys -> EntryType] /\ \A k \in Keys : entry[k] = NoEntry
  BY NoEntryFacts, Zenon DEF ValuesInit
<1>2. stored \in [Keys -> Nat] /\ mapped \in [Keys -> Nat] /\ \A k \in Keys : stored[k] = 0 /\ mapped[k] = 0
  BY DEF ValuesInit
<1>3. \A k \in Keys : Sane(entry[k], stored[k]) /\ FreePages(entry[k]) <= mapped[k]
  <2>1. 0 <= 0
    OBVIOUS
  <2>2. QED
    BY <1>1, <1>2, <2>1, NoEntryFacts, NoEntrySane, Zenon
<1>4. Held(entry) = {} /\ OneHolder(entry)
  BY <1>1, NoEntryFacts, Zenon DEF Held, OneHolder
<1> DEFINE List(c) == [j \in 1 .. ArenaBlocks |-> [arena |-> c, at |-> j]]
<1>5. ASSUME NEW c \in Classes
      PROVE  /\ free[c] = List(c) /\ free[c] \in Seq(ArenaBlock) /\ IsInjective(free[c])
             /\ \A b \in ArenaBlock : b \in Range(free[c]) <=> b.arena = c
             /\ \A b \in Range(free[c]) : b \in ArenaBlock
  <2>1. free[c] = List(c)
    BY Zenon DEF ValuesInit
  <2>2. List(c) \in Seq(ArenaBlock)
    <3>1. List(c) \in [1 .. ArenaBlocks -> ArenaBlock] /\ ArenaBlocks \in Nat
      BY ValuesBounds DEF ArenaBlock
    <3>2. QED
      BY <3>1
  <2>3. IsInjective(List(c))
    BY DEF IsInjective
  <2>4. ASSUME NEW b \in ArenaBlock PROVE b \in Range(List(c)) <=> b.arena = c
    <3>1. b = [arena |-> b.arena, at |-> b.at] /\ b.at \in 1 .. ArenaBlocks
      BY DEF ArenaBlock
    <3>2. QED
      BY <3>1 DEF Range
  <2>5. \A b \in Range(List(c)) : b \in ArenaBlock
    BY DEF Range, ArenaBlock
  <2>6. QED
    BY <2>1, <2>2, <2>3, <2>4, <2>5, Zenon
<1>6. free \in Lists
  BY <1>5, Zenon DEF ValuesInit, Lists
<1>7. Suited(free)
  BY <1>5, Zenon DEF Suited, Suits
<1>8. Split(free, {})
  <2>1. \A b \in ArenaBlock : b.arena \in Classes
    BY Zenon DEF ArenaBlock
  <2>2. \A b \in ArenaBlock : \E c \in Classes : b \in Range(free[c])
    BY <1>5, <2>1, Zenon
  <2>3. \A c, d \in Classes : c # d => Range(free[c]) \cap Range(free[d]) = {}
    BY <1>5, Zenon
  <2>4. QED
    BY <1>5, <2>2, <2>3, Zenon DEF Split
<1>9. Shared(free, entry, lost)
  <2>1. lost = {} /\ {} \cup {} = {} /\ {} \cap {} = {}
    BY Zenon DEF ValuesInit
  <2>2. QED
    BY <1>4, <1>8, <2>1, Zenon DEF Shared
<1>10. QED
  BY <1>1, <1>2, <1>3, <1>6, <1>7, <1>9, Zenon DEF ValuesInv

\* vc_set under the lock, once the storage of the new entry e has been taken and lists f
\* are what is left.
LEMMA PlaceStep ==
    ASSUME ValuesInv, open, NEW k \in Keys, NEW vl \in Nat \ {0}, NEW b \in ArenaBlock \cup {NoBlock},
           NEW f \in Lists, Suited(f), Place(k, vl, b, f),
           Sane(NewEntry(k, vl, b), vl),
           lost \cap Own(NewEntry(k, vl, b)) = {},
           Shared(f, entry, lost \cup Own(NewEntry(k, vl, b)))
    PROVE  ValuesInv'
<1> DEFINE e == NewEntry(k, vl, b)
<1> DEFINE more == NewPages(k, vl)
<1>1. e \in EntryType /\ more \in Nat /\ FreePages(e) \in Nat /\ FreePages(e) <= more
  BY NewEntryFacts, Zenon
<1>2. Sane(e, vl) /\ lost \cap Own(e) = {} /\ Shared(f, entry, lost \cup Own(e)) /\ vl \in Nat /\ vl # 0
  BY Zenon
<1>3. PICK v \in Victims(k) :
        /\ insert(k, v, e, vl)
        /\ free' = FreeSlab(FreeSlab(f, entry[k]), IF v = k THEN NoEntry ELSE entry[v])
        /\ mapped' = [x \in Keys |->
             mapped[x] - (IF x \in Present \cap {k, v} THEN FreePages(entry[x]) ELSE 0)
               + IF x = k THEN more ELSE 0]
        /\ open' = open
  BY Zenon DEF Place
<1> HIDE DEF e, more
<1>4. v \in Keys
  BY Zenon DEF Victims, Present
<1>5. /\ entry \in [Keys -> EntryType] /\ stored \in [Keys -> Nat]
      /\ \A l \in Keys : Sane(entry[l], stored[l])
  BY Zenon DEF ValuesInv
<1> DEFINE t1 == [entry EXCEPT ![k] = NoEntry]
<1> DEFINE t2 == [t1 EXCEPT ![v] = NoEntry]
<1> DEFINE table == [entry EXCEPT ![v] = NoEntry, ![k] = e]
<1> DEFINE lengths == [stored EXCEPT ![v] = 0, ![k] = vl]
<1> DEFINE f1 == FreeSlab(f, entry[k])
<1>6. f1 \in Lists /\ Suited(f1) /\ t1 \in [Keys -> EntryType] /\ Shared(f1, t1, lost \cup Own(e))
  <2>1. stored[k] \in Nat /\ Sane(entry[k], stored[k])
    BY <1>5, Zenon
  <2>2. QED
    BY <1>2, <1>5, <2>1, EraseShared, Zenon
<1>7. t1[v] = (IF v = k THEN NoEntry ELSE entry[v]) /\ \E len \in Nat : Sane(t1[v], len)
  <2>1. t1[v] = IF v = k THEN NoEntry ELSE entry[v]
    BY <1>4, <1>5, Zenon
  <2>2. 0 \in Nat
    OBVIOUS
  <2>3. QED
    BY <1>4, <1>5, <2>1, <2>2, NoEntrySane, Zenon
<1>8. free' = FreeSlab(f1, t1[v])
  BY <1>3, <1>7, Zenon
<1> HIDE DEF f1
<1>9. /\ free' \in Lists /\ Suited(free') /\ t2 \in [Keys -> EntryType]
      /\ Shared(free', t2, lost \cup Own(e))
  <2> HIDE DEF t1
  <2>1. PICK len \in Nat : Sane(t1[v], len)
    BY <1>7, Zenon
  <2>2. QED
    BY <1>4, <1>6, <1>8, <2>1, EraseShared, Zenon
<1>10. t2[k] = NoEntry /\ ~OnBlock(t2[k])
  BY <1>4, <1>5, NoEntryFacts, Zenon
<1>11. table = [t2 EXCEPT ![k] = e]
  <2>1. DOMAIN t2 = Keys /\ \A l \in Keys : t2[l] = IF l = v \/ l = k THEN NoEntry ELSE entry[l]
    BY <1>4, <1>5, Zenon
  <2>2. [t2 EXCEPT ![k] = e] = [l \in Keys |-> IF l = k THEN e ELSE IF l = v THEN NoEntry ELSE entry[l]]
    <3> HIDE DEF t2
    <3>1. QED
      BY <2>1, Zenon
  <2>3. table = [l \in Keys |-> IF l = k THEN e ELSE IF l = v THEN NoEntry ELSE entry[l]]
    BY <1>4, <1>5, Zenon
  <2>4. QED
    BY <2>2, <2>3, Zenon
<1>12. Shared(free', table, lost)
  <2> HIDE DEF t2, table
  <2>1. QED
    BY <1>2, <1>9, <1>10, <1>11, InsertShared, Zenon
<1>13. /\ table \in [Keys -> EntryType] /\ table[k] = e
       /\ \A l \in Keys : l # k => table[l] = IF l = v THEN NoEntry ELSE entry[l]
  BY <1>1, <1>4, <1>5, NoEntryFacts, Zenon
<1>14. /\ lengths \in [Keys -> Nat] /\ lengths[k] = vl
       /\ \A l \in Keys : l # k => lengths[l] = IF l = v THEN 0 ELSE stored[l]
  <2>1. 0 \in Nat
    OBVIOUS
  <2>2. QED
    BY <1>2, <1>4, <1>5, <2>1, Zenon
<1> DEFINE Kept(l) == entry'[l] = NoEntry \/ (l = k /\ entry'[l] = e) \/ (l # k /\ l # v /\ entry'[l] = entry[l])
<1> DEFINE Stored == /\ entry' \in [Keys -> EntryType] /\ stored' \in [Keys -> Nat]
                     /\ \A l \in Keys : Sane(entry'[l], stored'[l]) /\ Kept(l)
                     /\ Shared(free', entry', lost')
<1>15. Stored
  <2>1. \A l \in Keys : /\ Sane(table[l], lengths[l])
                        /\ \/ table[l] = NoEntry \/ (l = k /\ table[l] = e)
                           \/ (l # k /\ l # v /\ table[l] = entry[l])
    BY <1>2, <1>5, <1>13, <1>14, NoEntrySane, Zenon
  <2>2. CASE entry' = table /\ stored' = lengths /\ lost' = lost
    <3> HIDE DEF table, lengths
    <3>1. entry' \in [Keys -> EntryType] /\ stored' \in [Keys -> Nat] /\ Shared(free', entry', lost')
      BY <1>12, <1>13, <1>14, <2>2, Zenon
    <3>2. \A l \in Keys : Sane(entry'[l], stored'[l]) /\ Kept(l)
      BY <2>1, <2>2, Zenon
    <3>3. QED
      BY <3>1, <3>2, Zenon
  <2>3. ASSUME NEW x \in Keys, entry' = [table EXCEPT ![x] = NoEntry], stored' = [lengths EXCEPT ![x] = 0],
               lost' = IF "VAL_SLAB" \in table[x].flags THEN lost \cup {table[x].block} ELSE lost
        PROVE  Stored
    <3> HIDE DEF table, lengths
    <3>1. lost' = lost \cup Own(table[x])
      BY <2>3, Zenon DEF Own, OnBlock
    <3>2. Shared(free', entry', lost')
      <4>1. Shared(free', [table EXCEPT ![x] = NoEntry], lost \cup Own(table[x]))
        BY <1>12, <1>13, DropShared, Zenon
      <4>2. QED
        BY <2>3, <3>1, <4>1, Zenon
    <3>3. /\ entry' \in [Keys -> EntryType] /\ entry'[x] = NoEntry
          /\ \A l \in Keys : l # x => entry'[l] = table[l]
      BY <1>13, <2>3, NoEntryFacts, Zenon
    <3>4. /\ stored' \in [Keys -> Nat] /\ stored'[x] = 0
          /\ \A l \in Keys : l # x => stored'[l] = lengths[l]
      <4>1. 0 \in Nat
        OBVIOUS
      <4>2. QED
        BY <1>14, <2>3, <4>1, Zenon
    <3>5. \A l \in Keys : Sane(entry'[l], stored'[l]) /\ Kept(l)
      BY <2>1, <3>3, <3>4, NoEntrySane, Zenon
    <3>6. QED
      BY <3>2, <3>3, <3>4, <3>5, Zenon
  <2>4. (Present \ {k, v}) \cup {k} \subseteq Keys
    BY Zenon DEF Present
  <2>5. \/ entry' = table /\ stored' = lengths /\ lost' = lost
        \/ \E x \in (Present \ {k, v}) \cup {k} :
             /\ entry' = [table EXCEPT ![x] = NoEntry] /\ stored' = [lengths EXCEPT ![x] = 0]
             /\ lost' = IF "VAL_SLAB" \in table[x].flags THEN lost \cup {table[x].block} ELSE lost
    BY <1>3, Zenon DEF insert
  <2> HIDE DEF table, lengths, Stored
  <2>6. QED
    BY <2>2, <2>3, <2>4, <2>5, Zenon
<1>16. ASSUME NEW l \in Keys PROVE mapped'[l] \in Nat /\ FreePages(entry'[l]) <= mapped'[l]
  <2> DEFINE gone == Present \cap {k, v}
  <2> DEFINE m == mapped[l] - (IF l \in gone THEN FreePages(entry[l]) ELSE 0) + IF l = k THEN more ELSE 0
  <2>1. mapped'[l] = m
    BY <1>3, Zenon
  <2>2. m \in Nat /\ (l = k => more <= m) /\ (l \notin gone => FreePages(entry[l]) <= m)
    <3> HIDE DEF gone
    <3>1. QED
      BY <1>1, PagesAfter, ZenonT(30)
  <2> HIDE DEF m
  <2>3. CASE entry'[l] = NoEntry
    <3>1. 0 <= m
      BY <2>2
    <3>2. QED
      BY <2>1, <2>2, <2>3, <3>1, NoEntryFacts, Zenon
  <2>4. CASE l = k /\ entry'[l] = e
    <3>1. FreePages(e) <= m
      BY <1>1, <2>2, <2>4
    <3>2. QED
      BY <2>1, <2>2, <2>4, <3>1, Zenon
  <2>5. CASE l # k /\ l # v /\ entry'[l] = entry[l]
    BY <2>1, <2>2, <2>5, Zenon
  <2>6. QED
    BY <1>15, <2>3, <2>4, <2>5, Zenon
<1>17. mapped' \in [Keys -> Nat]
  BY <1>3, <1>16, Zenon
<1>18. QED
  BY <1>9, <1>15, <1>16, <1>17, Zenon DEF ValuesInv, Suited, Lists

\* vc_set of a value that goes to a block.
LEMMA SetSlabStep ==
    ASSUME ValuesInv, NEW k \in Keys, NEW vl \in Sizes, set_slab(k, vl) PROVE ValuesInv'
<1> DEFINE c == slab_class_for(vl)
<1> DEFINE b == Head(free[c])
<1> DEFINE e == NewEntry(k, vl, b)
<1> DEFINE g == [free EXCEPT ![c] = Tail(@)]
<1>1. /\ open /\ vl > 0 /\ "VAL_SLAB" \in Flags(KeyLen[k], vl) /\ free[c] # <<>>
      /\ Place(k, vl, b, g)
  BY Zenon DEF set_slab, CacheCall
<1>2. vl \in Nat \ {0} /\ vl \in Nat /\ vl # 0
  BY <1>1, SizeAssumption
<1>3. vl <= slab_class_size[VC_SLAB_CLASSES - 1]
  <2>1. slab_class_size[VC_SLAB_CLASSES - 1] \in Nat
    BY ClassSizes DEF Classes, VC_SLAB_CLASSES
  <2>2. QED
    BY <1>1, <1>2, <2>1 DEF Flags
<1>4. c \in Classes
  BY <1>2, <1>3, ClassFits, Zenon
<1>5. free \in Lists /\ Suited(free) /\ Shared(free, entry, lost)
  BY <1>1, Zenon DEF ValuesInv
<1>6. Suits(c, b) => Suits(slab_class_for(vl), b)
  BY Zenon
<1> DEFINE H == Held(entry) \cup lost
<1> HIDE DEF c
<1>7. /\ g \in Lists /\ Suited(g) /\ b \in ArenaBlock /\ Suits(c, b)
      /\ Split(free, H) => Split(g, H \cup {b}) /\ b \notin H
  BY <1>1, <1>4, <1>5, PopSplit, Zenon
<1> HIDE DEF g, b, H
<1>8. /\ vl <= slab_class_size[b.arena]
      /\ slab_class_for(ClipLen(vl)) \in Classes /\ Suits(slab_class_for(ClipLen(vl)), b)
  BY <1>2, <1>3, <1>6, <1>7, ClipSuits, Zenon
<1>9. b \in ArenaBlock \cup {NoBlock}
  BY <1>7, Zenon
<1>10. e.end <= PayloadBytes /\ e.val_len = ClipLen(vl) /\ e.block = b /\ e.flags = Flags(KeyLen[k], vl)
  BY <1>2, <1>9, NewEntryFacts, Zenon
<1> HIDE DEF e
<1>11. OnBlock(e) /\ Own(e) = {b}
  BY <1>1, <1>10, Zenon DEF OnBlock, Own
<1>12. Sane(e, vl)
  BY <1>1, <1>2, <1>7, <1>8, <1>10, Zenon DEF Sane
<1>13. Split(free, H) /\ Held(entry) \cap lost = {} /\ OneHolder(entry)
  BY <1>5, Zenon DEF Shared, H
<1>14. Split(g, H \cup {b}) /\ b \notin H
  BY <1>7, <1>13, Zenon
<1>15. lost \cap Own(e) = {} /\ Held(entry) \cap (lost \cup Own(e)) = {} /\ H \cup {b} = Held(entry) \cup (lost \cup Own(e))
  BY <1>11, <1>13, <1>14, Zenon DEF H
<1>16. Shared(g, entry, lost \cup Own(e))
  BY <1>13, <1>14, <1>15, Zenon DEF Shared
<1>17. QED
  BY <1>1, <1>2, <1>7, <1>9, <1>12, <1>15, <1>16, PlaceStep, Zenon DEF e

\* vc_set of a value that stays in the entry or is mapped.
LEMMA SetOtherStep ==
    ASSUME ValuesInv, NEW k \in Keys, NEW vl \in Sizes, set_other(k, vl) PROVE ValuesInv'
<1> DEFINE e == NewEntry(k, vl, NoBlock)
<1>1. open /\ vl > 0 /\ "VAL_SLAB" \notin Flags(KeyLen[k], vl) /\ Place(k, vl, NoBlock, free)
  BY Zenon DEF set_other, CacheCall
<1>2. vl \in Nat \ {0} /\ vl # 0 /\ vl \in Nat
  BY <1>1, SizeAssumption
<1>3. NoBlock \in ArenaBlock \cup {NoBlock}
  BY Zenon
<1> HIDE DEF NoBlock
<1>4. e.end <= PayloadBytes /\ e.flags = Flags(KeyLen[k], vl)
  BY <1>2, <1>3, NewEntryFacts, Zenon
<1> HIDE DEF e
<1>5. ~OnBlock(e) /\ Own(e) = {}
  BY <1>1, <1>4, Zenon DEF OnBlock, Own
<1>6. Sane(e, vl)
  BY <1>2, <1>4, <1>5, Zenon DEF Sane
<1>7. free \in Lists /\ Suited(free) /\ Shared(free, entry, lost)
  BY <1>1, Zenon DEF ValuesInv
<1>8. lost \cap Own(e) = {} /\ lost \cup Own(e) = lost
  BY <1>5, Zenon
<1>9. QED
  BY <1>1, <1>2, <1>3, <1>6, <1>7, <1>8, PlaceStep, Zenon DEF e

\* vc_del.
LEMMA DelStep ==
    ASSUME ValuesInv, NEW k \in Keys, vc_del(k) PROVE ValuesInv'
<1> DEFINE next == [entry EXCEPT ![k] = NoEntry]
<1>1. /\ open /\ open' = open /\ free' = FreeSlab(free, entry[k]) /\ lost' = lost
      /\ entry' = next /\ stored' = [stored EXCEPT ![k] = 0]
      /\ mapped' = [mapped EXCEPT ![k] = @ - FreePages(entry[k])]
  BY Zenon DEF vc_del, CacheCall
<1>2. /\ entry \in [Keys -> EntryType] /\ stored \in [Keys -> Nat] /\ mapped \in [Keys -> Nat] /\ free \in Lists
      /\ \A l \in Keys : Sane(entry[l], stored[l]) /\ FreePages(entry[l]) <= mapped[l]
      /\ Suited(free) /\ Shared(free, entry, lost)
  BY <1>1, Zenon DEF ValuesInv
<1>3. /\ free' \in Lists /\ Suited(free') /\ entry' \in [Keys -> EntryType]
      /\ Shared(free', entry', lost')
  <2>1. stored[k] \in Nat /\ Sane(entry[k], stored[k])
    BY <1>2, Zenon
  <2>2. /\ free' \in Lists /\ Suited(free') /\ next \in [Keys -> EntryType]
        /\ Shared(free', next, lost)
    BY <1>1, <1>2, <2>1, EraseShared, Zenon
  <2>3. QED
    BY <1>1, <2>2, Zenon
<1>4. entry'[k] = NoEntry /\ \A l \in Keys : l # k => entry'[l] = entry[l]
  BY <1>1, <1>2, Zenon
<1>5. 0 \in Nat /\ mapped[k] - FreePages(entry[k]) \in Nat /\ 0 <= mapped[k] - FreePages(entry[k])
  BY PagesLeft
<1>6. stored' \in [Keys -> Nat] /\ stored'[k] = 0 /\ \A l \in Keys : l # k => stored'[l] = stored[l]
  BY <1>1, <1>2, <1>5, Zenon
<1>7. mapped' \in [Keys -> Nat] /\ 0 <= mapped'[k] /\ \A l \in Keys : l # k => mapped'[l] = mapped[l]
  BY <1>1, <1>2, <1>5, Zenon
<1>8. \A l \in Keys : Sane(entry'[l], stored'[l]) /\ FreePages(entry'[l]) <= mapped'[l]
  BY <1>2, <1>4, <1>6, <1>7, NoEntryFacts, NoEntrySane, Zenon
<1>9. QED
  BY <1>3, <1>6, <1>7, <1>8, Zenon DEF ValuesInv, Suited, Lists

\* vc_destroy.
LEMMA DestroyStep ==
    ASSUME ValuesInv, vc_destroy PROVE ValuesInv'
<1>1. \A k \in Keys : mapped[k] - FreePages(entry[k]) \in Nat
  BY PagesLeft, Zenon
<1>2. mapped' \in [Keys -> Nat]
  BY <1>1, Zenon DEF vc_destroy
<1>3. entry' \in [Keys -> EntryType] /\ \A k \in Keys : entry'[k] = NoEntry
  BY NoEntryFacts, Zenon DEF vc_destroy
<1>4. stored' \in [Keys -> Nat] /\ \A k \in Keys : stored'[k] = 0 /\ 0 <= mapped'[k]
  BY <1>2 DEF vc_destroy
<1>5. \A k \in Keys : Sane(entry'[k], stored'[k]) /\ FreePages(entry'[k]) <= mapped'[k]
  BY <1>3, <1>4, NoEntryFacts, NoEntrySane, Zenon
<1>6. free' = free /\ open' = FALSE
  BY Zenon DEF vc_destroy
<1>7. Suited(free) /\ free \in Lists
  BY Zenon DEF ValuesInv
<1>8. QED
  BY <1>2, <1>3, <1>4, <1>5, <1>6, <1>7, Zenon DEF ValuesInv, Suited, Lists

\* Every step keeps the invariant.
LEMMA ValuesStep == ValuesInv /\ [ValuesNext]_storage => ValuesInv'
<1> SUFFICES ASSUME ValuesInv, [ValuesNext]_storage PROVE ValuesInv'
  OBVIOUS
<1>1. ASSUME UNCHANGED <<entry, stored, free, lost, mapped, open>> PROVE ValuesInv'
  <2>1. /\ entry' \in [Keys -> EntryType] /\ stored' \in [Keys -> Nat] /\ mapped' \in [Keys -> Nat]
        /\ free' \in Lists /\ Suited(free')
        /\ \A k \in Keys : Sane(entry'[k], stored'[k]) /\ FreePages(entry'[k]) <= mapped'[k]
    BY <1>1, Zenon DEF ValuesInv
  <2>2. open' => Shared(free', entry', lost')
    BY <1>1, Zenon DEF ValuesInv
  <2>3. QED
    BY <2>1, <2>2, Zenon DEF ValuesInv, Suited, Lists
<1>2. CASE UNCHANGED storage
  BY <1>1, <1>2, Zenon DEF storage
<1>3. ASSUME NEW k \in Keys, NEW vl \in Sizes, set_refused(k, vl) PROVE ValuesInv'
  BY <1>1, <1>3, Zenon DEF set_refused
<1>4. QED
  BY <1>2, <1>3, SetSlabStep, SetOtherStep, DelStep, DestroyStep, Zenon DEF ValuesNext, Destroyed

\* The invariant holds in every reachable state.
LEMMA ValuesInvariant == ValuesSpec => []ValuesInv
  BY ValuesInitInv, ValuesStep, PTL DEF ValuesSpec

\* vc_set's copy stays inside the block slab_alloc gave it, though blocks of large
\* values come back to the list of a smaller class.
THEOREM FitsCorrect == ValuesSpec => []ValueFitsBlock
<1>1. ValuesInv => ValueFitsBlock
  <2> SUFFICES ASSUME ValuesInv PROVE ValueFitsBlock
    OBVIOUS
  <2>1. \A k \in OnSlab : stored[k] <= slab_class_size[entry[k].block.arena]
    BY Zenon DEF ValuesInv, Sane, OnSlab, Present, OnBlock
  <2>2. ASSUME NEW c \in Classes, NEW b \in Range(free[c]) PROVE b.arena >= c
    <3>1. Suits(c, b)
      BY Zenon DEF ValuesInv, Suited
    <3>2. b.arena = c \/ b.arena > c
      BY <3>1, Zenon DEF Suits
    <3>3. CASE b.arena = c
      BY <3>3 DEF Classes, VC_SLAB_CLASSES
    <3>4. CASE b.arena > c
      <4>1. b \in ArenaBlock
        <5>1. free[c] \in Seq(ArenaBlock)
          BY Zenon DEF ValuesInv, Lists
        <5>2. PICK j \in DOMAIN free[c] : b = free[c][j]
          BY Zenon DEF Range
        <5>3. QED
          BY <5>1, <5>2
      <4>2. b.arena \in Nat /\ c \in Nat
        BY <4>1 DEF ArenaBlock, Classes, VC_SLAB_CLASSES
      <4>3. QED
        BY <3>4, <4>2
    <3>5. QED
      BY <3>2, <3>3, <3>4
  <2>3. QED
    BY <2>1, <2>2, Zenon DEF ValueFitsBlock
<1>2. QED
  BY <1>1, ValuesInvariant, PTL

\* Blocks come back to another list than their own arena's at one class only, the one of
\* the longest length a 16-bit field records.
THEOREM StraysCorrect == ValuesSpec => []StraysAtLimit
<1>1. ValuesInv => StraysAtLimit
  BY Zenon DEF ValuesInv, StraysAtLimit, Suited, Suits
<1>2. QED
  BY <1>1, ValuesInvariant, PTL

\* Keys, values and pointers stay inside the payload's 32 bytes.
THEOREM PayloadCorrect == ValuesSpec => []PayloadFits
<1>1. ValuesInv => PayloadFits
  BY Zenon DEF ValuesInv, PayloadFits, Sane, Present
<1>2. QED
  BY <1>1, ValuesInvariant, PTL

\* Every block of every arena is on one list, once, or in one entry, or went with an
\* entry that _shard_insert dropped, whatever the sizes, the capacity and the order.
THEOREM BlocksCorrect == ValuesSpec => []BlocksConserved
<1>1. ValuesInv => BlocksConserved
  <2> SUFFICES ASSUME ValuesInv, open PROVE BlocksConserved
    BY Zenon DEF BlocksConserved
  <2>1. Split(free, Held(entry) \cup lost) /\ Held(entry) \cap lost = {} /\ OneHolder(entry)
    BY Zenon DEF ValuesInv, Shared
  <2>2. ASSUME NEW k \in Keys PROVE k \in OnSlab <=> OnBlock(entry[k])
    BY Zenon DEF ValuesInv, Sane, OnSlab, Present, OnBlock
  <2>3. OnSlab \subseteq Keys
    BY Zenon DEF OnSlab, Present
  <2>4. ASSUME NEW b \in ArenaBlock
        PROVE  LET lists   == {c \in Classes : b \in Range(free[c])}
                   entries == {k \in OnSlab : entry[k].block = b} IN
               \/ b \notin lost /\ entries = {} /\ \E c \in Classes : lists = {c}
               \/ b \notin lost /\ lists = {} /\ \E k \in Keys : entries = {k}
               \/ b \in lost /\ lists = {} /\ entries = {}
    <3> DEFINE lists == {c \in Classes : b \in Range(free[c])}
    <3> DEFINE entries == {k \in OnSlab : entry[k].block = b}
    <3>1. b \in Held(entry) \cup lost => lists = {}
      BY <2>1, Zenon DEF Split
    <3>2. b \notin Held(entry) => entries = {}
      BY <2>2, <2>3, Zenon DEF Held
    <3>3. CASE b \in Held(entry)
      <4>1. PICK k \in Keys : OnBlock(entry[k]) /\ entry[k].block = b
        BY <3>3, Zenon DEF Held
      <4>2. entries = {k}
        BY <2>1, <2>2, <2>3, <4>1, Zenon DEF OneHolder
      <4>3. QED
        BY <2>1, <3>1, <3>3, <4>2, Zenon
    <3>4. CASE b \in lost
      BY <2>1, <3>1, <3>2, <3>4, Zenon
    <3>5. CASE b \notin Held(entry) /\ b \notin lost
      <4>1. PICK c \in Classes : b \in Range(free[c])
        BY <2>1, <3>5, Zenon DEF Split
      <4>2. lists = {c}
        BY <2>1, <4>1, Zenon DEF Split
      <4>3. QED
        BY <3>2, <3>5, <4>2, Zenon
    <3>6. QED
      BY <3>3, <3>4, <3>5, Zenon
  <2>5. QED
    BY <2>1, <2>4, Zenon DEF BlocksConserved, Split
<1>2. QED
  BY <1>1, ValuesInvariant, PTL
=============================================================================
