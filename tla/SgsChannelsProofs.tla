--------------------------- MODULE SgsChannelsProofs ---------------------------
(***************************************************************************)
(* Proofs about SgsChannels, for every set of ids and names and any number  *)
(* of channels and logins: the linked lists of linked_map.c are maps, and   *)
(* no channel that can still be looked up is freed, freed twice or lost.    *)
(* Nothing is assumed but ChannelsAssumption.                               *)
(*                                                                         *)
(* A list is described by the sequence of its elements.  The functions of   *)
(* linked_map.c walk it, so what they compute is proved by induction, which *)
(* here is the choice of the least place at which a claim fails.            *)
(***************************************************************************)
EXTENDS SgsChannels, SequenceTheorems, WellFoundedInduction, TLAPS

LEMMA LeastNumber ==
    ASSUME NEW T \in SUBSET Nat, T # {}
    PROVE  \E n \in T : \A m \in T : n <= m
<1> DEFINE R == OpToRel(<, Nat)
<1>1. IsWellFoundedOn(R, Nat)
  BY NatLessThanWellFounded, Zenon
<1> HIDE DEF R
<1>2. \E x \in T : \A y \in T : ~ (<<y, x>> \in R)
  BY <1>1, WFMin, Zenon
<1>3. ASSUME NEW x \in T, NEW y \in T, y < x PROVE <<y, x>> \in R
  <2>1. <<y, x>> \in Nat \X Nat
    OBVIOUS
  <2> QED BY <1>3, <2>1 DEF R, OpToRel
<1>4. \A x, y \in T : ~(y < x) => x <= y
  OBVIOUS
<1> QED BY <1>2, <1>3, <1>4

-----------------------------------------------------------------------------
(***************************************************************************)
(* The list of distinct elements s, where the element of a channel has the  *)
(* channel's number, as its key and its value have.                         *)
(***************************************************************************)
Lists == {s \in Seq(Nat \ {0}) : \A i, j \in 1 .. Len(s) : s[i] = s[j] => i = j}

Elements(s) == {s[i] : i \in 1 .. Len(s)}

Position(s, e) == CHOOSE i \in 1 .. Len(s) : s[i] = e

Successor(s, i) == IF i = Len(s) THEN 0 ELSE s[i + 1]

Element(e, next) == [key |-> e, value |-> e, next |-> next]

ListOf(s) ==
    [head |-> IF Len(s) = 0 THEN 0 ELSE s[1],
     elt |-> [e \in Elements(s) |-> Element(e, Successor(s, Position(s, e)))]]

LEMMA ListType ==
    ASSUME NEW s \in Lists
    PROVE  /\ s \in Seq(Nat \ {0}) /\ Len(s) \in Nat
           /\ \A i \in 1 .. Len(s) : s[i] \in Nat /\ s[i] # 0 /\ s[i] \in Elements(s)
           /\ \A i, j \in 1 .. Len(s) : s[i] = s[j] => i = j
           /\ 0 \notin Elements(s)
<1>1. s \in Seq(Nat \ {0}) /\ \A i, j \in 1 .. Len(s) : s[i] = s[j] => i = j
  BY DEF Lists
<1>2. Len(s) \in Nat /\ \A i \in 1 .. Len(s) : s[i] \in Nat \ {0}
  BY <1>1, LenProperties, ElementOfSeq
<1> QED BY <1>1, <1>2 DEF Elements

LEMMA PositionOf ==
    ASSUME NEW s \in Lists, NEW i \in 1 .. Len(s)
    PROVE  Position(s, s[i]) = i
BY ListType DEF Position

LEMMA ElementAt ==
    ASSUME NEW s \in Lists, NEW i \in 1 .. Len(s)
    PROVE  ListOf(s).elt[s[i]] = Element(s[i], Successor(s, i))
BY ListType, PositionOf DEF ListOf

LEMMA ListFields ==
    ASSUME NEW s
    PROVE  /\ ListOf(s) = [head |-> ListOf(s).head, elt |-> ListOf(s).elt]
           /\ ListOf(s).head = IF Len(s) = 0 THEN 0 ELSE s[1]
           /\ ListOf(s).elt = [e \in Elements(s) |-> ListOf(s).elt[e]]
           /\ DOMAIN ListOf(s).elt = Elements(s)
           /\ \A e \in Elements(s) : ListOf(s).elt[e].key = e /\ ListOf(s).elt[e].value = e
BY DEF ListOf, Element

(* What is left of a sequence from a place on. *)
LEMMA RestOf ==
    ASSUME NEW S, NEW s \in Seq(S)
    PROVE  /\ \A i \in 1 .. Len(s) - 1 :
                 <<s[i]>> \o SubSeq(s, i + 1, Len(s)) = SubSeq(s, i, Len(s))
           /\ Len(s) > 0 => <<s[Len(s)]>> \o <<>> = SubSeq(s, Len(s), Len(s))
           /\ SubSeq(s, 1, Len(s)) = s
<1>1. Len(s) \in Nat /\ \A i \in 1 .. Len(s) : s[i] \in S
  BY LenProperties, ElementOfSeq
<1>2. ASSUME NEW i \in 1 .. Len(s)
      PROVE  SubSeq(s, i, Len(s)) = <<s[i]>> \o SubSeq(s, i + 1, Len(s))
  <2>1. Len(s) \in i .. Len(s)
    BY <1>1
  <2> QED BY <2>1, SubSeqRecursiveFirst
<1>3. Len(s) > 0 => SubSeq(s, Len(s) + 1, Len(s)) = <<>> /\ Len(s) \in 1 .. Len(s)
  BY <1>1, SubSeqEmpty
<1> QED BY <1>1, <1>2, <1>3, SubSeqFull

(* Walking the list from its head yields its elements in their order. *)
LEMMA ChainOf == ASSUME NEW s \in Lists PROVE Chain(ListOf(s)) = s
<1> DEFINE elt == ListOf(s).elt
           Places == DOMAIN elt \cup {0}
           Walk(f) == [e \in Places |-> IF e = 0 THEN <<>> ELSE <<e>> \o f[elt[e].next]]
           from == CHOOSE f : f = Walk(f)
           Rest(i) == SubSeq(s, i, Len(s))
           F == [e \in Places |-> IF e = 0 THEN <<>> ELSE Rest(Position(s, e))]
<1>1. Chain(ListOf(s)) = from[ListOf(s).head]
  BY DEF Chain
<1>2. /\ Len(s) \in Nat /\ s \in Seq(Nat \ {0})
      /\ \A i \in 1 .. Len(s) : s[i] # 0 /\ s[i] \in Places /\ s[i] \in Elements(s)
      /\ 0 \in Places
      /\ \A e \in Places : e # 0 => \E i \in 1 .. Len(s) : e = s[i]
  <2>1. Places = Elements(s) \cup {0}
    BY ListFields
  <2> HIDE DEF Places
  <2> QED BY <2>1, ListType DEF Elements
<1>3. \A i \in 1 .. Len(s) : elt[s[i]].next = Successor(s, i)
  <2> SUFFICES ASSUME NEW i \in 1 .. Len(s) PROVE elt[s[i]].next = Successor(s, i)
    OBVIOUS
  <2>1. elt[s[i]] = Element(s[i], Successor(s, i))
    BY ElementAt
  <2> HIDE DEF elt
  <2> QED BY <2>1 DEF Element
<1>4. /\ \A i \in 1 .. Len(s) - 1 : <<s[i]>> \o Rest(i + 1) = Rest(i)
      /\ Len(s) > 0 => <<s[Len(s)]>> \o <<>> = Rest(Len(s))
      /\ Rest(1) = s
  BY <1>2, RestOf
<1> HIDE DEF elt, Places, Rest
<1>5. \A i \in 1 .. Len(s) : F[s[i]] = Rest(i)
  BY <1>2, PositionOf
<1>6. F[0] = <<>>
  BY <1>2
<1>7. F = Walk(F)
  <2>1. ASSUME NEW i \in 1 .. Len(s) PROVE F[s[i]] = <<s[i]>> \o F[elt[s[i]].next]
    <3> HIDE DEF F
    <3>1. CASE i = Len(s)
      <4>1. F[elt[s[i]].next] = <<>>
        BY <1>3, <1>6, <3>1 DEF Successor
      <4> QED BY <1>2, <1>4, <1>5, <3>1, <4>1
    <3>2. CASE i # Len(s)
      <4>1. i + 1 \in 1 .. Len(s) /\ i \in 1 .. Len(s) - 1
        BY <1>2, <3>2
      <4>2. F[elt[s[i]].next] = Rest(i + 1)
        BY <1>3, <1>5, <3>2, <4>1 DEF Successor
      <4> QED BY <1>4, <1>5, <4>1, <4>2
    <3> QED BY <3>1, <3>2
  <2>2. \A e \in Places : F[e] = IF e = 0 THEN <<>> ELSE <<e>> \o F[elt[e].next]
    BY <1>2, <1>6, <2>1
  <2> QED BY <2>2
<1>8. from = Walk(from)
  <2> HIDE DEF F, Walk
  <2> QED BY <1>7
<1> HIDE DEF F, from
<1>9. \A e \in Places : from[e] = IF e = 0 THEN <<>> ELSE <<e>> \o from[elt[e].next]
  <2> DEFINE G == from
  <2> HIDE DEF G
  <2>1. G = Walk(G)
    BY <1>8 DEF G
  <2>2. \A e \in Places : Walk(G)[e] = IF e = 0 THEN <<>> ELSE <<e>> \o G[elt[e].next]
    OBVIOUS
  <2> QED BY <2>1, <2>2 DEF G
<1> HIDE DEF Walk
<1>10. \A i \in 1 .. Len(s) : from[s[i]] = Rest(i)
  <2> DEFINE T == {j \in Nat : j < Len(s) /\ from[s[Len(s) - j]] # Rest(Len(s) - j)}
  <2> SUFFICES ASSUME T # {} PROVE FALSE
    <3>1. \A i \in 1 .. Len(s) : i = Len(s) - (Len(s) - i) /\ Len(s) - i \in Nat /\ Len(s) - i < Len(s)
      BY <1>2
    <3> QED BY <3>1
  <2>1. PICK n \in T : \A m \in T : n <= m
    BY LeastNumber
  <2>2. n \in Nat /\ n < Len(s) /\ from[s[Len(s) - n]] # Rest(Len(s) - n)
    OBVIOUS
  <2>3. CASE n = 0
    <3>1. Len(s) \in 1 .. Len(s) /\ Len(s) - n = Len(s)
      BY <1>2, <2>2, <2>3
    <3>2. from[s[Len(s)]] = <<s[Len(s)]>> \o <<>>
      BY <1>2, <1>3, <1>9, <3>1 DEF Successor
    <3>3. from[s[Len(s)]] # Rest(Len(s))
      BY <2>2, <3>1
    <3> HIDE DEF T
    <3> QED BY <1>2, <1>4, <3>1, <3>2, <3>3
  <2>4. CASE n # 0
    <3> DEFINE i == Len(s) - n
    <3>1. i \in 1 .. Len(s) - 1 /\ i \in 1 .. Len(s) /\ i # Len(s) /\ i + 1 \in 1 .. Len(s)
          /\ n - 1 \in Nat /\ n - 1 < Len(s) /\ Len(s) - (n - 1) = i + 1 /\ ~(n <= n - 1)
      BY <1>2, <2>2, <2>4
    <3>2. n - 1 \notin T
      BY <2>1, <3>1
    <3>3. from[s[i + 1]] = Rest(i + 1)
      <4>1. from[s[Len(s) - (n - 1)]] = Rest(Len(s) - (n - 1))
        BY <3>1, <3>2
      <4> QED BY <3>1, <4>1
    <3>4. from[s[i]] = <<s[i]>> \o from[s[i + 1]]
      BY <1>2, <1>3, <1>9, <3>1 DEF Successor
    <3>5. from[s[i]] # Rest(i)
      BY <2>2
    <3> HIDE DEF T, i
    <3> QED BY <1>4, <3>1, <3>3, <3>4, <3>5
  <2> QED BY <2>3, <2>4
<1>11. CASE Len(s) = 0
  BY <1>1, <1>2, <1>9, <1>11, ListFields, EmptySeq
<1>12. CASE Len(s) # 0
  <2>1. 1 \in 1 .. Len(s) /\ Len(s) > 0
    BY <1>2, <1>12
  <2> QED BY <1>1, <1>4, <1>10, <1>12, <2>1, ListFields
<1> QED BY <1>11, <1>12

-----------------------------------------------------------------------------
(***************************************************************************)
(* The operations on a list in which no two keys compare equal.             *)
(***************************************************************************)
Distinct(s, of) == \A e, f \in Elements(s) : of[e] = of[f] => e = f

LEMMA DistinctPlaces ==
    ASSUME NEW s \in Lists, NEW of, Distinct(s, of), NEW i \in 1 .. Len(s)
    PROVE  \A j \in 1 .. Len(s) : of[s[j]] = of[s[i]] => j = i
BY ListType DEF Distinct

LEMMA PlaceOf ==
    ASSUME NEW s \in Lists, NEW of, NEW k, Distinct(s, of)
    PROVE  /\ \A i \in 1 .. Len(s) : of[s[i]] = k => Place(ListOf(s), of, k) = i
           /\ (\A i \in 1 .. Len(s) : of[s[i]] # k) => Place(ListOf(s), of, k) = 0
<1> DEFINE I == {i \in 1 .. Len(s) : of[s[i]] = k}
<1>1. Place(ListOf(s), of, k) = IF I # {} THEN Min(I) ELSE 0
  <2> DEFINE J == {i \in 1 .. Len(s) : of[ListOf(s).elt[s[i]].key] = k}
  <2>1. Place(ListOf(s), of, k) = IF J # {} THEN Min(J) ELSE 0
    BY ChainOf DEF Place, SelectInSeq
  <2>2. \A i \in 1 .. Len(s) : ListOf(s).elt[s[i]].key = s[i]
    BY ListFields, ListType
  <2> QED BY <2>1, <2>2
<1>2. ASSUME NEW i \in 1 .. Len(s), of[s[i]] = k PROVE I # {} /\ Min(I) = i
  <2>1. I = {i}
    BY <1>2, DistinctPlaces
  <2>2. i \in Nat /\ i <= i
    BY ListType
  <2> HIDE DEF I
  <2> QED BY <2>1, <2>2 DEF Min
<1>3. (\A i \in 1 .. Len(s) : of[s[i]] # k) => I = {}
  OBVIOUS
<1> HIDE DEF I
<1> QED BY <1>1, <1>2, <1>3

LEMMA Lookup ==
    ASSUME NEW s \in Lists, NEW of, NEW k, Distinct(s, of)
    PROVE  /\ sgs_map_contains(ListOf(s), of, k) <=> \E e \in Elements(s) : of[e] = k
           /\ \A e \in Elements(s) : of[e] = k => sgs_map_get(ListOf(s), of, k) = e
<1> DEFINE m == ListOf(s)
<1>1. /\ \A e \in Elements(s) : \E i \in 1 .. Len(s) : e = s[i]
      /\ \A i \in 1 .. Len(s) : s[i] \in Elements(s)
  BY DEF Elements
<1>2. /\ \A i \in 1 .. Len(s) : i # 0
      /\ \A i \in 1 .. Len(s) : m.elt[s[i]].value = s[i]
  <2>1. \A i \in 1 .. Len(s) : i # 0
    BY ListType
  <2>2. \A i \in 1 .. Len(s) : m.elt[s[i]].value = s[i]
    BY <1>1, ListFields
  <2> QED BY <2>1, <2>2
<1>3. Chain(m) = s
  BY ChainOf
<1>4. /\ \A i \in 1 .. Len(s) : of[s[i]] = k => Place(m, of, k) = i
      /\ (\A i \in 1 .. Len(s) : of[s[i]] # k) => Place(m, of, k) = 0
  BY PlaceOf
<1> HIDE DEF m
<1>5. sgs_map_contains(m, of, k) <=> \E e \in Elements(s) : of[e] = k
  BY <1>1, <1>2, <1>4 DEF sgs_map_contains
<1>6. \A e \in Elements(s) : of[e] = k => sgs_map_get(m, of, k) = e
  BY <1>1, <1>2, <1>3, <1>4 DEF sgs_map_contains, sgs_map_get
<1> QED BY <1>5, <1>6 DEF m

(* A new element is linked behind the last. *)
LEMMA PutIs ==
    ASSUME NEW s \in Lists, NEW of, NEW n \in Nat \ {0}, Distinct(s, of),
           \A e \in Elements(s) : of[e] # of[n]
    PROVE  /\ Append(s, n) \in Lists
           /\ Elements(Append(s, n)) = Elements(s) \cup {n}
           /\ Distinct(Append(s, n), of)
           /\ sgs_map_put(ListOf(s), of, n, n) = ListOf(Append(s, n))
<1> DEFINE t == Append(s, n)
           m == ListOf(s)
<1>1. /\ s \in Seq(Nat \ {0}) /\ Len(s) \in Nat
      /\ n \notin Elements(s)
      /\ \A i \in 1 .. Len(s) : s[i] \in Elements(s) /\ s[i] # n
      /\ \A i, j \in 1 .. Len(s) : s[i] = s[j] => i = j
  BY ListType
<1>2. /\ t \in Seq(Nat \ {0}) /\ Len(t) = Len(s) + 1
      /\ \A i \in 1 .. Len(s) : t[i] = s[i]
      /\ t[Len(s) + 1] = n
  BY <1>1
<1> HIDE DEF t, m
<1>3. t \in Lists
  <2> SUFFICES ASSUME NEW i \in 1 .. Len(t), NEW j \in 1 .. Len(t), t[i] = t[j] PROVE i = j
    BY <1>2 DEF Lists
  <2>1. \A x \in 1 .. Len(t) : x \in 1 .. Len(s) \/ x = Len(s) + 1
    BY <1>1, <1>2
  <2> QED BY <1>1, <1>2, <2>1
<1>4. Elements(t) = Elements(s) \cup {n}
  <2>1. 1 .. Len(t) = 1 .. Len(s) \cup {Len(s) + 1}
    BY <1>1, <1>2
  <2>2. Elements(t) = {t[i] : i \in 1 .. Len(s) \cup {Len(s) + 1}}
    BY <2>1 DEF Elements
  <2> QED BY <1>2, <2>2 DEF Elements
<1>5. Distinct(t, of)
  BY <1>4 DEF Distinct
<1>6. ~sgs_map_contains(m, of, of[n])
  BY Lookup DEF m
<1>7. Chain(m) = s /\ DOMAIN m.elt = Elements(s)
  BY ChainOf, ListFields DEF m
<1>8. ASSUME NEW i \in 1 .. Len(s)
      PROVE  ListOf(t).elt[s[i]] = IF i = Len(s) THEN Element(s[i], n) ELSE m.elt[s[i]]
  <2>1. i \in 1 .. Len(t) /\ i # Len(t) /\ (i # Len(s) => i + 1 \in 1 .. Len(s)) /\ t[i] = s[i]
    BY <1>1, <1>2
  <2>2. ListOf(t).elt[t[i]] = Element(t[i], Successor(t, i))
    BY <1>3, <2>1, ElementAt
  <2>3. m.elt[s[i]] = Element(s[i], Successor(s, i))
    BY ElementAt DEF m
  <2>4. Successor(t, i) = IF i = Len(s) THEN n ELSE Successor(s, i)
    BY <1>2, <2>1 DEF Successor
  <2> QED BY <2>1, <2>2, <2>3, <2>4
<1>9. ListOf(t).elt[n] = Element(n, 0)
  <2>1. Len(t) \in 1 .. Len(t) /\ t[Len(t)] = n
    BY <1>1, <1>2
  <2> QED BY <1>3, <2>1, ElementAt DEF Successor
<1>10. CASE Len(s) = 0
  <2>1. Elements(s) = {} /\ m.head = 0
    <3>1. 1 .. Len(s) = {}
      BY <1>10
    <3> QED BY <1>10, <3>1, ListFields DEF Elements, m
  <2>2. sgs_map_put(m, of, n, n) =
           [[m EXCEPT !.head = n] EXCEPT !.elt = [e \in DOMAIN @ \cup {n} |->
               IF e = n THEN [key |-> n, value |-> n, next |-> 0] ELSE @[e]]]
    BY <1>6, <2>1 DEF sgs_map_put
  <2>3. m = [head |-> m.head, elt |-> m.elt]
    BY ListFields DEF m
  <2>4. sgs_map_put(m, of, n, n) =
           [head |-> n, elt |-> [e \in Elements(s) \cup {n} |->
               IF e = n THEN [key |-> n, value |-> n, next |-> 0] ELSE m.elt[e]]]
    <3>1. [m EXCEPT !.head = n] = [head |-> n, elt |-> m.elt]
      BY <2>3
    <3> QED BY <1>7, <2>2, <3>1
  <2>5. ListOf(t) = [head |-> n, elt |-> [e \in Elements(t) |-> ListOf(t).elt[e]]]
    <3>1. ListOf(t).head = n
      <4>1. Len(t) = 1 /\ t[1] = n
        BY <1>2, <1>10
      <4>2. ListOf(t).head = IF Len(t) = 0 THEN 0 ELSE t[1]
        BY ListFields
      <4> QED BY <4>1, <4>2
    <3> QED BY <3>1, ListFields
  <2>6. Elements(t) = {n}
    BY <1>4, <2>1
  <2> QED BY <1>3, <1>4, <1>5, <1>9, <2>1, <2>4, <2>5, <2>6 DEF t, m, Element
<1>11. CASE Len(s) # 0
  <2> DEFINE l == s[Len(s)]
  <2>1. Len(s) \in 1 .. Len(s) /\ l \in Elements(s) /\ m.head # 0 /\ m.head = s[1] /\ l # n
    <3>1. Len(s) \in 1 .. Len(s) /\ 1 \in 1 .. Len(s)
      BY <1>1, <1>11
    <3>2. m.head = s[1]
      BY <1>11, ListFields DEF m
    <3>3. s[1] # 0
      BY <3>1, ListType
    <3> QED BY <1>1, <3>1, <3>2, <3>3
  <2>2. sgs_map_put(m, of, n, n) =
           [[m EXCEPT !.elt[l].next = n] EXCEPT !.elt = [e \in DOMAIN @ \cup {n} |->
               IF e = n THEN [key |-> n, value |-> n, next |-> 0] ELSE @[e]]]
    BY <1>6, <1>7, <2>1 DEF sgs_map_put, Last
  <2> HIDE DEF l
  <2>3. m = [head |-> m.head, elt |-> m.elt] /\ m.elt = [e \in Elements(s) |-> m.elt[e]]
    BY ListFields DEF m
  <2>4. [m EXCEPT !.elt[l].next = n] =
           [head |-> m.head, elt |-> [e \in Elements(s) |-> IF e = l THEN [m.elt[l] EXCEPT !.next = n] ELSE m.elt[e]]]
    BY <2>1, <2>3
  <2>5. [m.elt[l] EXCEPT !.next = n] = Element(l, n)
    <3>1. m.elt[l] = Element(l, Successor(s, Len(s)))
      BY <2>1, ElementAt DEF m, l
    <3> QED BY <3>1 DEF Element
  <2>6. sgs_map_put(m, of, n, n) =
           [head |-> m.head, elt |-> [e \in Elements(s) \cup {n} |->
               IF e = n THEN Element(n, 0) ELSE IF e = l THEN Element(l, n) ELSE m.elt[e]]]
    <3> DEFINE a == [e \in Elements(s) |-> IF e = l THEN Element(l, n) ELSE m.elt[e]]
    <3>1. [m EXCEPT !.elt[l].next = n] = [head |-> m.head, elt |-> a]
      BY <2>4, <2>5
    <3>2. /\ DOMAIN a = Elements(s)
          /\ \A e \in Elements(s) : a[e] = IF e = l THEN Element(l, n) ELSE m.elt[e]
      OBVIOUS
    <3> DEFINE x == [m EXCEPT !.elt[l].next = n]
               b == [e \in Elements(s) \cup {n} |-> IF e = n THEN Element(n, 0) ELSE a[e]]
    <3> HIDE DEF a
    <3>3. sgs_map_put(m, of, n, n) =
             [x EXCEPT !.elt = [e \in DOMAIN x.elt \cup {n} |->
                 IF e = n THEN Element(n, 0) ELSE x.elt[e]]]
      BY <2>2 DEF Element
    <3> HIDE DEF x
    <3>4. x.elt = a /\ x = [head |-> m.head, elt |-> a]
      BY <3>1 DEF x
    <3>5. sgs_map_put(m, of, n, n) = [x EXCEPT !.elt = b]
      BY <3>2, <3>3, <3>4
    <3>6. b = [e \in Elements(s) \cup {n} |->
                  IF e = n THEN Element(n, 0) ELSE IF e = l THEN Element(l, n) ELSE m.elt[e]]
      BY <3>2
    <3> HIDE DEF b
    <3>7. sgs_map_put(m, of, n, n) = [head |-> m.head, elt |-> b]
      BY <3>4, <3>5
    <3> QED BY <3>6, <3>7
  <2>7. ListOf(t) = [head |-> m.head, elt |-> [e \in Elements(t) |-> ListOf(t).elt[e]]]
    <3>1. ListOf(t).head = m.head
      <4>1. Len(t) # 0 /\ 1 \in 1 .. Len(s)
        BY <1>1, <1>2, <1>11
      <4> QED BY <1>2, <2>1, <4>1, ListFields
    <3> QED BY <3>1, ListFields
  <2>8. \A e \in Elements(s) : ListOf(t).elt[e] = IF e = l THEN Element(l, n) ELSE m.elt[e]
    <3> SUFFICES ASSUME NEW i \in 1 .. Len(s)
                 PROVE  ListOf(t).elt[s[i]] = IF s[i] = l THEN Element(l, n) ELSE m.elt[s[i]]
      BY DEF Elements
    <3>1. s[i] = l <=> i = Len(s)
      BY <1>1, <2>1 DEF l
    <3> QED BY <1>8, <3>1
  <2> HIDE DEF Element
  <2> QED BY <1>1, <1>3, <1>4, <1>5, <1>9, <2>6, <2>7, <2>8 DEF t, m
<1> QED BY <1>10, <1>11

(* The element before the one removed is linked to the one behind it. *)
Cut(s, i) == [j \in 1 .. Len(s) - 1 |-> IF j < i THEN s[j] ELSE s[j + 1]]

LEMMA CutIs ==
    ASSUME NEW s \in Lists, NEW i \in 1 .. Len(s)
    PROVE  /\ Cut(s, i) \in Lists
           /\ Elements(Cut(s, i)) = Elements(s) \ {s[i]}
           /\ Len(Cut(s, i)) = Len(s) - 1
           /\ \A j \in 1 .. Len(s) - 1 : Cut(s, i)[j] = IF j < i THEN s[j] ELSE s[j + 1]
<1> DEFINE t == Cut(s, i)
<1>1. /\ s \in Seq(Nat \ {0}) /\ Len(s) \in Nat /\ Len(s) - 1 \in Nat
      /\ \A j \in 1 .. Len(s) : s[j] \in Nat \ {0}
      /\ \A j, k \in 1 .. Len(s) : s[j] = s[k] => j = k
  BY ListType
<1>2. \A j \in 1 .. Len(s) - 1 : j \in 1 .. Len(s) /\ j + 1 \in 1 .. Len(s)
  BY <1>1
<1>3. t \in Seq(Nat \ {0}) /\ Len(t) = Len(s) - 1
  BY <1>1, <1>2 DEF Cut
<1>4. \A j \in 1 .. Len(s) - 1 : t[j] = IF j < i THEN s[j] ELSE s[j + 1]
  BY DEF Cut
<1> HIDE DEF t
<1>5. t \in Lists
  <2> SUFFICES ASSUME NEW j \in 1 .. Len(t), NEW k \in 1 .. Len(t), t[j] = t[k] PROVE j = k
    BY <1>3 DEF Lists
  <2>1. /\ (IF j < i THEN j ELSE j + 1) \in 1 .. Len(s)
        /\ (IF k < i THEN k ELSE k + 1) \in 1 .. Len(s)
    BY <1>1, <1>2, <1>3
  <2>2. s[IF j < i THEN j ELSE j + 1] = s[IF k < i THEN k ELSE k + 1]
    BY <1>3, <1>4
  <2>3. (IF j < i THEN j ELSE j + 1) = (IF k < i THEN k ELSE k + 1)
    BY <1>1, <2>1, <2>2
  <2> QED BY <1>1, <1>2, <1>3, <2>3, SMTT(30)
<1>6. Elements(t) \subseteq Elements(s) \ {s[i]}
  <2> SUFFICES ASSUME NEW j \in 1 .. Len(s) - 1 PROVE t[j] \in Elements(s) /\ t[j] # s[i]
    BY <1>3 DEF Elements
  <2>1. (IF j < i THEN j ELSE j + 1) \in 1 .. Len(s) /\ (IF j < i THEN j ELSE j + 1) # i
    BY <1>1, <1>2
  <2>2. t[j] = s[IF j < i THEN j ELSE j + 1]
    BY <1>4
  <2> QED BY <1>1, <2>1, <2>2 DEF Elements
<1>7. Elements(s) \ {s[i]} \subseteq Elements(t)
  <2> SUFFICES ASSUME NEW j \in 1 .. Len(s), j # i PROVE s[j] \in Elements(t)
    BY DEF Elements
  <2> DEFINE k == IF j < i THEN j ELSE j - 1
  <2>1. k \in 1 .. Len(s) - 1 /\ k \in 1 .. Len(t) /\ (IF k < i THEN k ELSE k + 1) = j
    BY <1>1, <1>3
  <2>2. t[k] = s[j]
    BY <1>4, <2>1
  <2> QED BY <2>1, <2>2 DEF Elements
<1> QED BY <1>3, <1>4, <1>5, <1>6, <1>7 DEF t

LEMMA RemoveIs ==
    ASSUME NEW s \in Lists, NEW of, NEW i \in 1 .. Len(s), Distinct(s, of)
    PROVE  /\ Distinct(Cut(s, i), of)
           /\ sgs_map_remove(ListOf(s), of, of[s[i]]) = ListOf(Cut(s, i))
<1> DEFINE m == ListOf(s)
           t == Cut(s, i)
           e == s[i]
           k == of[s[i]]
           n == Successor(s, i)
           E == Elements(s)
<1>1. /\ Len(s) \in Nat /\ i \in Nat /\ i # 0
      /\ \A j \in 1 .. Len(s) : s[j] \in E
      /\ \A j, x \in 1 .. Len(s) : s[j] = s[x] => j = x
  BY ListType
<1>2. /\ t \in Lists /\ Elements(t) = E \ {e} /\ Len(t) = Len(s) - 1
      /\ \A j \in 1 .. Len(s) - 1 : t[j] = IF j < i THEN s[j] ELSE s[j + 1]
  BY CutIs
<1>3. Place(m, of, k) = i /\ Chain(m) = s
  BY PlaceOf, ChainOf
<1>4. /\ m = [head |-> m.head, elt |-> m.elt]
      /\ m.elt = [x \in E |-> m.elt[x]]
      /\ DOMAIN m.elt = E
      /\ m.head = IF Len(s) = 0 THEN 0 ELSE s[1]
  BY ListFields
<1>5. m.elt[e].next = n
  <2>1. m.elt[e] = Element(e, n)
    BY ElementAt
  <2> QED BY <2>1 DEF Element
<1>6. \A j \in 1 .. Len(s) : m.elt[s[j]] = Element(s[j], Successor(s, j))
  BY ElementAt
<1>7. /\ ListOf(t) = [head |-> ListOf(t).head, elt |-> [x \in E \ {e} |-> ListOf(t).elt[x]]]
      /\ ListOf(t).head = IF Len(t) = 0 THEN 0 ELSE t[1]
  BY <1>2, ListFields
<1>8. Distinct(t, of)
  BY <1>2 DEF Distinct
<1> HIDE DEF m, t, k, n
<1>9. ASSUME NEW j \in 1 .. Len(s), j # i
      PROVE  ListOf(t).elt[s[j]] = IF j = i - 1 THEN Element(s[j], n) ELSE m.elt[s[j]]
  <2> DEFINE x == IF j < i THEN j ELSE j - 1
  <2>1. x \in 1 .. Len(t) /\ x \in 1 .. Len(s) - 1 /\ (IF x < i THEN x ELSE x + 1) = j
    BY <1>1, <1>2, <1>9
  <2>2. t[x] = s[j]
    BY <1>2, <2>1
  <2>3. Successor(t, x) = IF j = i - 1 THEN n ELSE Successor(s, j)
    <3>1. CASE x = Len(t)
      <4>1. j = Len(s) \/ (j = i - 1 /\ i = Len(s))
        BY <1>1, <1>2, <1>9, <3>1
      <4>2. j = Len(s) => j # i - 1
        BY <1>1
      <4> QED BY <1>1, <3>1, <4>1, <4>2 DEF Successor, n
    <3>2. CASE x # Len(t)
      <4>1. /\ x + 1 \in 1 .. Len(s) - 1 /\ j # Len(s)
            /\ (IF x + 1 < i THEN x + 1 ELSE x + 1 + 1) = (IF j = i - 1 THEN i + 1 ELSE j + 1)
            /\ j = i - 1 => i # Len(s)
        BY <1>1, <1>2, <1>9, <2>1, <3>2
      <4>2. t[x + 1] = s[IF j = i - 1 THEN i + 1 ELSE j + 1]
        BY <1>2, <4>1
      <4> QED BY <3>2, <4>1, <4>2 DEF Successor, n
    <3> QED BY <3>1, <3>2
  <2>4. ListOf(t).elt[t[x]] = Element(t[x], Successor(t, x))
    BY <1>2, <2>1, ElementAt
  <2> HIDE DEF x
  <2> QED BY <1>6, <2>2, <2>3, <2>4
<1> HIDE DEF e, E
<1>10. \A x \in E \ {e} : \E j \in 1 .. Len(s) : x = s[j] /\ j # i
  BY DEF E, e, Elements
<1>11. CASE i = 1
  <2>1. sgs_map_remove(m, of, k) =
           [[m EXCEPT !.head = n] EXCEPT !.elt = [x \in DOMAIN @ \ {e} |-> @[x]]]
    BY <1>1, <1>3, <1>5, <1>11 DEF sgs_map_remove, e
  <2>2. [m EXCEPT !.head = n] = [head |-> n, elt |-> m.elt]
    BY <1>4
  <2>3. sgs_map_remove(m, of, k) = [head |-> n, elt |-> [x \in E \ {e} |-> m.elt[x]]]
    <3> DEFINE r == [m EXCEPT !.head = n]
               b == [x \in E \ {e} |-> m.elt[x]]
    <3>1. sgs_map_remove(m, of, k) = [r EXCEPT !.elt = [x \in DOMAIN r.elt \ {e} |-> r.elt[x]]]
      BY <2>1
    <3> HIDE DEF r
    <3>2. r = [head |-> n, elt |-> m.elt] /\ r.elt = m.elt
      BY <2>2 DEF r
    <3>3. sgs_map_remove(m, of, k) = [r EXCEPT !.elt = b]
      BY <1>4, <3>1, <3>2
    <3> HIDE DEF b
    <3>4. sgs_map_remove(m, of, k) = [head |-> n, elt |-> b]
      BY <3>2, <3>3
    <3> QED BY <3>4 DEF b
  <2>4. ListOf(t).head = n
    <3>1. Len(t) = 0 <=> i = Len(s)
      BY <1>1, <1>2, <1>11
    <3>2. Len(t) # 0 => t[1] = s[i + 1]
      <4>1. Len(t) # 0 => 1 \in 1 .. Len(s) - 1 /\ ~(1 < i)
        BY <1>1, <1>2, <1>11
      <4> QED BY <1>2, <1>11, <4>1
    <3> QED BY <1>7, <3>1, <3>2 DEF n, Successor
  <2>5. \A x \in E \ {e} : ListOf(t).elt[x] = m.elt[x]
    <3>1. \A j \in 1 .. Len(s) : j # i - 1
      BY <1>11
    <3> QED BY <1>9, <1>10, <3>1
  <2> QED BY <1>7, <1>8, <2>3, <2>4, <2>5 DEF m, t, k
<1>12. CASE i # 1
  <2> DEFINE l == s[i - 1]
  <2>1. /\ i - 1 \in 1 .. Len(s) /\ l \in E /\ l # e
        /\ m.elt[l] = Element(l, Successor(s, i - 1))
    <3>1. i - 1 \in 1 .. Len(s) /\ i - 1 # i
      BY <1>1, <1>12
    <3> QED BY <1>1, <1>6, <3>1 DEF e
  <2>2. sgs_map_remove(m, of, k) =
           [[m EXCEPT !.elt[l].next = n] EXCEPT !.elt = [x \in DOMAIN @ \ {e} |-> @[x]]]
    BY <1>1, <1>3, <1>5, <1>12 DEF sgs_map_remove, e
  <2> HIDE DEF l
  <2> DEFINE a == [x \in E |-> IF x = l THEN Element(l, n) ELSE m.elt[x]]
             r == [m EXCEPT !.elt[l].next = n]
  <2>3. [m.elt[l] EXCEPT !.next = n] = Element(l, n)
    BY <2>1 DEF Element
  <2>4. [m EXCEPT !.elt[l].next = n] =
           [head |-> m.head, elt |-> [x \in E |-> IF x = l THEN [m.elt[l] EXCEPT !.next = n] ELSE m.elt[x]]]
    BY <1>4, <2>1
  <2>5. r = [head |-> m.head, elt |-> a]
    BY <2>3, <2>4
  <2>6. DOMAIN a = E /\ \A x \in E : a[x] = IF x = l THEN Element(l, n) ELSE m.elt[x]
    OBVIOUS
  <2>7. sgs_map_remove(m, of, k) = [r EXCEPT !.elt = [x \in DOMAIN r.elt \ {e} |-> r.elt[x]]]
    BY <2>2
  <2> HIDE DEF a, r
  <2>8. sgs_map_remove(m, of, k) = [head |-> m.head, elt |-> [x \in E \ {e} |-> a[x]]]
    <3> DEFINE b == [x \in E \ {e} |-> a[x]]
    <3>1. sgs_map_remove(m, of, k) = [r EXCEPT !.elt = b]
      BY <2>5, <2>6, <2>7
    <3> HIDE DEF b
    <3>2. sgs_map_remove(m, of, k) = [head |-> m.head, elt |-> b]
      BY <2>5, <3>1
    <3> QED BY <3>2 DEF b
  <2>9. ListOf(t).head = m.head
    <3>1. Len(t) # 0 /\ Len(s) # 0 /\ 1 \in 1 .. Len(s) - 1 /\ 1 < i
      BY <1>1, <1>2, <1>12
    <3>2. t[1] = s[1]
      BY <1>2, <3>1
    <3> QED BY <1>4, <1>7, <3>1, <3>2
  <2>10. \A x \in E \ {e} : ListOf(t).elt[x] = a[x]
    <3> SUFFICES ASSUME NEW j \in 1 .. Len(s), j # i, s[j] \in E
                 PROVE  ListOf(t).elt[s[j]] = a[s[j]]
      BY <1>10
    <3>1. s[j] = l <=> j = i - 1
      BY <1>1, <2>1 DEF l
    <3> QED BY <1>9, <2>6, <3>1
  <2> QED BY <1>7, <1>8, <2>8, <2>9, <2>10 DEF m, t, k
<1> QED BY <1>11, <1>12

LEMMA RemoveNone ==
    ASSUME NEW s \in Lists, NEW of, NEW k, Distinct(s, of), \A e \in Elements(s) : of[e] # k
    PROVE  sgs_map_remove(ListOf(s), of, k) = ListOf(s)
<1>1. \A i \in 1 .. Len(s) : of[s[i]] # k
  BY ListType
<1> QED BY <1>1, PlaceOf DEF sgs_map_remove

LEMMA EmptyList == <<>> \in Lists /\ ListOf(<<>>) = EmptyMap /\ Elements(<<>>) = {}
<1>1. <<>> \in Seq(Nat \ {0}) /\ Len(<<>>) = 0
  BY EmptySeq
<1>2. 1 .. Len(<<>>) = {}
  BY <1>1
<1>3. <<>> \in Lists /\ Elements(<<>>) = {}
  BY <1>1, <1>2 DEF Lists, Elements
<1>4. ListOf(<<>>).elt = <<>>
  BY <1>3 DEF ListOf
<1>5. ListOf(<<>>) = [head |-> ListOf(<<>>).head, elt |-> ListOf(<<>>).elt] /\ ListOf(<<>>).head = 0
  BY <1>1 DEF ListOf
<1> QED BY <1>3, <1>4, <1>5 DEF EmptyMap

LEMMA RestIs ==
    ASSUME NEW s \in Lists, NEW of, Distinct(s, of), NEW i \in 1 .. Len(s)
    PROVE  /\ SubSeq(s, i, Len(s)) \in Lists
           /\ Distinct(SubSeq(s, i, Len(s)), of)
           /\ Len(SubSeq(s, i, Len(s))) # 0
           /\ 1 \in 1 .. Len(SubSeq(s, i, Len(s)))
           /\ Cut(SubSeq(s, i, Len(s)), 1) = SubSeq(s, i + 1, Len(s))
<1> DEFINE n == Len(s)
           t == SubSeq(s, i, n)
           u == SubSeq(s, i + 1, n)
           c == Cut(t, 1)
<1>1. /\ s \in Seq(Nat \ {0}) /\ n \in Nat /\ i \in Nat
      /\ \A j \in 1 .. n : s[j] \in Nat \ {0} /\ s[j] \in Elements(s)
      /\ \A j, k \in 1 .. n : s[j] = s[k] => j = k
  BY ListType
<1>2. /\ t \in Seq(Nat \ {0}) /\ Len(t) = n - i + 1
      /\ \A j \in 1 .. n - i + 1 : t[j] = s[i + j - 1]
  BY <1>1, SubSeqProperties
<1>3. /\ u \in Seq(Nat \ {0}) /\ Len(u) = n - i
      /\ \A j \in 1 .. n - i : u[j] = s[i + 1 + j - 1]
  BY <1>1, SubSeqProperties
<1> HIDE DEF n, t, u
<1>4. \A j \in 1 .. n - i + 1 : i + j - 1 \in 1 .. n
  BY <1>1 DEF n
<1>5. t \in Lists
  <2> SUFFICES ASSUME NEW j \in 1 .. Len(t), NEW k \in 1 .. Len(t), t[j] = t[k] PROVE j = k
    BY <1>2 DEF Lists
  <2>1. i + j - 1 = i + k - 1
    BY <1>1, <1>2, <1>4
  <2>2. j \in Int /\ k \in Int
    OBVIOUS
  <2> QED BY <1>1, <2>1, <2>2
<1>6. Distinct(t, of)
  <2>1. \A j \in 1 .. Len(t) : t[j] \in Elements(s)
    BY <1>1, <1>2, <1>4
  <2> QED BY <2>1 DEF Distinct, Elements
<1>7. Len(t) \in Nat \ {0} /\ 1 \in 1 .. Len(t)
  BY <1>1, <1>2 DEF n
<1>8. c \in Seq(Nat \ {0}) /\ Len(c) = Len(t) - 1 /\ \A j \in 1 .. Len(t) - 1 : c[j] = IF j < 1 THEN t[j] ELSE t[j + 1]
  BY <1>5, <1>7, CutIs, ListType
<1> HIDE DEF c
<1>9. Len(c) = Len(u)
  BY <1>1, <1>2, <1>3, <1>8
<1>10. \A j \in 1 .. Len(c) : c[j] = u[j]
  <2> SUFFICES ASSUME NEW j \in 1 .. Len(c) PROVE c[j] = u[j]
    OBVIOUS
  <2>1. /\ j \in 1 .. n - i /\ j \in 1 .. Len(t) - 1 /\ ~(j < 1) /\ j + 1 \in 1 .. n - i + 1
        /\ i + (j + 1) - 1 = i + 1 + j - 1
    BY <1>1, <1>2, <1>3, <1>8, <1>9
  <2> QED BY <1>2, <1>3, <1>8, <2>1
<1>11. c = u
  BY <1>3, <1>8, <1>9, <1>10, SeqEqual
<1> QED BY <1>5, <1>6, <1>7, <1>11 DEF n, t, u, c

LEMMA ClearIs ==
    ASSUME NEW s \in Lists, NEW of, Distinct(s, of)
    PROVE  sgs_map_clear(ListOf(s), of) = EmptyMap
<1> DEFINE n == Len(s)
           Removed(r) == sgs_map_remove(r, of, of[r.elt[r.head].key])
           Step(f) == [i \in 0 .. n |-> IF i = 0 THEN ListOf(s) ELSE Removed(f[i - 1])]
           after == CHOOSE f : f = Step(f)
           R(i) == ListOf(SubSeq(s, i + 1, n))
           F == [i \in 0 .. n |-> R(i)]
<1>1. n \in Nat /\ s \in Seq(Nat \ {0})
  BY ListType
<1>2. sgs_map_clear(ListOf(s), of) = after[n]
  BY ChainOf DEF sgs_map_clear
<1>3. R(0) = ListOf(s)
  <2>1. SubSeq(s, 0 + 1, n) = s
    BY <1>1, SubSeqFull
  <2> QED BY <2>1
<1>4. R(n) = EmptyMap
  <2>1. SubSeq(s, n + 1, n) = <<>>
    BY <1>1, SubSeqEmpty
  <2> QED BY <2>1, EmptyList
<1>5. \A i \in 1 .. n : Removed(R(i - 1)) = R(i)
  <2> SUFFICES ASSUME NEW i \in 1 .. n PROVE Removed(R(i - 1)) = R(i)
    OBVIOUS
  <2> DEFINE t == SubSeq(s, i, n)
             r == ListOf(t)
  <2>1. i - 1 + 1 = i
    BY <1>1
  <2>2. R(i - 1) = r
    BY <2>1
  <2>3. t \in Lists /\ Distinct(t, of) /\ Len(t) # 0 /\ 1 \in 1 .. Len(t) /\ Cut(t, 1) = SubSeq(s, i + 1, n)
    BY RestIs
  <2> HIDE DEF t
  <2>4. r.head = t[1] /\ t[1] \in Elements(t)
    BY <2>3, ListFields DEF Elements
  <2>5. r.elt[t[1]].key = t[1]
    BY <2>4, ListFields
  <2>6. sgs_map_remove(r, of, of[t[1]]) = ListOf(Cut(t, 1))
    BY <2>3, RemoveIs
  <2> HIDE DEF r
  <2>7. Removed(r) = ListOf(Cut(t, 1))
    BY <2>4, <2>5, <2>6
  <2> QED BY <2>2, <2>3, <2>7
<1> HIDE DEF R, Removed
<1>6. F = Step(F)
  <2>1. \A i \in 1 .. n : i - 1 \in 0 .. n /\ F[i - 1] = R(i - 1)
    BY <1>1
  <2>2. \A i \in 0 .. n : F[i] = IF i = 0 THEN ListOf(s) ELSE Removed(F[i - 1])
    BY <1>1, <1>3, <1>5, <2>1
  <2> QED BY <2>2
<1>7. after = Step(after)
  <2> HIDE DEF F, Step
  <2> QED BY <1>6
<1> HIDE DEF after
<1>8. \A i \in 0 .. n : after[i] = IF i = 0 THEN ListOf(s) ELSE Removed(after[i - 1])
  <2> DEFINE G == after
  <2> HIDE DEF G
  <2>1. G = Step(G)
    BY <1>7 DEF G
  <2>2. \A i \in 0 .. n : Step(G)[i] = IF i = 0 THEN ListOf(s) ELSE Removed(G[i - 1])
    OBVIOUS
  <2> QED BY <2>1, <2>2 DEF G
<1> HIDE DEF Step
<1>9. \A i \in 0 .. n : after[i] = R(i)
  <2> DEFINE T == {i \in 0 .. n : after[i] # R(i)}
  <2> SUFFICES ASSUME T # {} PROVE FALSE
    OBVIOUS
  <2>1. T \in SUBSET Nat
    BY <1>1
  <2>2. PICK i \in T : \A j \in T : i <= j
    BY <2>1, LeastNumber
  <2>3. i \in 0 .. n /\ after[i] # R(i)
    OBVIOUS
  <2>4. i # 0
    BY <1>1, <1>3, <1>8, <2>3
  <2>5. i \in 1 .. n /\ i - 1 \in 0 .. n /\ ~(i <= i - 1)
    BY <1>1, <2>3, <2>4
  <2>6. after[i - 1] = R(i - 1)
    BY <2>2, <2>5
  <2> HIDE DEF T
  <2> QED BY <1>5, <1>8, <2>3, <2>4, <2>5, <2>6
<1> QED BY <1>1, <1>2, <1>4, <1>9

-----------------------------------------------------------------------------
(***************************************************************************)
(* A well-formed map, whatever the order of its elements: In is the set of  *)
(* them, which are numbers of channels.                                     *)
(***************************************************************************)
IsList(m) == Chain(m) \in Lists /\ m = ListOf(Chain(m))

In(m) == DOMAIN m.elt

Differ(m, of) == \A e, f \in In(m) : of[e] = of[f] => e = f

LEMMA ListOfIsList ==
    ASSUME NEW s \in Lists
    PROVE  IsList(ListOf(s)) /\ In(ListOf(s)) = Elements(s) /\ Chain(ListOf(s)) = s
BY ChainOf, ListFields DEF IsList, In

LEMMA MapElements ==
    ASSUME NEW m, IsList(m)
    PROVE  /\ In(m) = Elements(Chain(m))
           /\ \A of : Differ(m, of) <=> Distinct(Chain(m), of)
           /\ \A e \in In(m) : e \in Nat \ {0} /\ m.elt[e].key = e /\ m.elt[e].value = e
<1> DEFINE s == Chain(m)
<1>1. s \in Lists /\ m = ListOf(s)
  BY DEF IsList
<1> HIDE DEF s
<1>2. In(m) = Elements(s)
  BY <1>1, ListFields DEF In
<1>3. \A e \in Elements(s) : e \in Nat \ {0} /\ m.elt[e].key = e /\ m.elt[e].value = e
  <2>1. \A e \in Elements(s) : e \in Nat \ {0}
    BY <1>1, ListType DEF Elements
  <2> QED BY <1>1, <2>1, ListFields
<1> QED BY <1>2, <1>3 DEF s, Differ, Distinct

LEMMA MapLookup ==
    ASSUME NEW m, NEW of, NEW k, IsList(m), Differ(m, of)
    PROVE  /\ sgs_map_contains(m, of, k) <=> \E e \in In(m) : of[e] = k
           /\ \A e \in In(m) : of[e] = k => sgs_map_get(m, of, k) = e
<1> DEFINE s == Chain(m)
<1>1. s \in Lists /\ m = ListOf(s) /\ In(m) = Elements(s) /\ Distinct(s, of)
  BY MapElements DEF IsList
<1> HIDE DEF s
<1> QED BY <1>1, Lookup

LEMMA MapPut ==
    ASSUME NEW m, NEW of, NEW n \in Nat \ {0}, IsList(m), Differ(m, of),
           \A e \in In(m) : of[e] # of[n]
    PROVE  /\ IsList(sgs_map_put(m, of, n, n))
           /\ In(sgs_map_put(m, of, n, n)) = In(m) \cup {n}
<1> DEFINE s == Chain(m)
<1>1. s \in Lists /\ m = ListOf(s) /\ In(m) = Elements(s) /\ Distinct(s, of)
  BY MapElements DEF IsList
<1> HIDE DEF s
<1>2. /\ Append(s, n) \in Lists
      /\ Elements(Append(s, n)) = In(m) \cup {n}
      /\ sgs_map_put(m, of, n, n) = ListOf(Append(s, n))
  BY <1>1, PutIs
<1> QED BY <1>2, ListOfIsList

LEMMA MapRemove ==
    ASSUME NEW m, NEW of, NEW e \in In(m), IsList(m), Differ(m, of)
    PROVE  /\ IsList(sgs_map_remove(m, of, of[e]))
           /\ In(sgs_map_remove(m, of, of[e])) = In(m) \ {e}
<1> DEFINE s == Chain(m)
<1>1. s \in Lists /\ m = ListOf(s) /\ In(m) = Elements(s) /\ Distinct(s, of)
  BY MapElements DEF IsList
<1> HIDE DEF s
<1>2. PICK i \in 1 .. Len(s) : e = s[i]
  BY <1>1 DEF Elements
<1>3. Cut(s, i) \in Lists /\ Elements(Cut(s, i)) = In(m) \ {e}
  BY <1>1, <1>2, CutIs
<1>4. sgs_map_remove(m, of, of[e]) = ListOf(Cut(s, i))
  BY <1>1, <1>2, RemoveIs
<1> QED BY <1>3, <1>4, ListOfIsList

LEMMA MapRemoveNone ==
    ASSUME NEW m, NEW of, NEW k, IsList(m), Differ(m, of), \A e \in In(m) : of[e] # k
    PROVE  sgs_map_remove(m, of, k) = m
<1> DEFINE s == Chain(m)
<1>1. s \in Lists /\ m = ListOf(s) /\ In(m) = Elements(s) /\ Distinct(s, of)
  BY MapElements DEF IsList
<1> HIDE DEF s
<1> QED BY <1>1, RemoveNone

LEMMA MapClear ==
    ASSUME NEW m, NEW of, IsList(m), Differ(m, of)
    PROVE  sgs_map_clear(m, of) = EmptyMap
<1> DEFINE s == Chain(m)
<1>1. s \in Lists /\ m = ListOf(s) /\ In(m) = Elements(s) /\ Distinct(s, of)
  BY MapElements DEF IsList
<1> HIDE DEF s
<1> QED BY <1>1, ClearIs

LEMMA MapEmpty == IsList(EmptyMap) /\ In(EmptyMap) = {}
BY EmptyList, ListOfIsList

LEMMA MapType ==
    ASSUME NEW m, IsList(m), In(m) \subseteq Numbers
    PROVE  ListOK(m)
<1> DEFINE s == Chain(m)
<1>1. s \in Lists /\ m = ListOf(s) /\ In(m) = Elements(s)
  BY MapElements DEF IsList
<1> HIDE DEF s
<1>2. /\ Len(s) \in Nat /\ s \in Seq(Nat \ {0})
      /\ \A i, j \in 1 .. Len(s) : s[i] = s[j] => i = j
      /\ \A i \in 1 .. Len(s) : s[i] \in In(m)
  BY <1>1, ListType
<1>3. DOMAIN s = 1 .. Len(s)
  BY <1>2
<1>4. m.head \in {0} \cup DOMAIN m.elt
  <2>1. m.head = IF Len(s) = 0 THEN 0 ELSE s[1]
    BY <1>1, ListFields
  <2>2. Len(s) # 0 => 1 \in 1 .. Len(s)
    BY <1>2
  <2> QED BY <1>2, <2>1, <2>2 DEF In
<1>5. ASSUME NEW i \in 1 .. Len(s)
      PROVE  m.elt[s[i]] \in [key : Numbers, value : Numbers, next : {0} \cup DOMAIN m.elt]
  <2>1. m.elt[s[i]] = Element(s[i], Successor(s, i))
    BY <1>1, ElementAt
  <2>2. i # Len(s) => i + 1 \in 1 .. Len(s)
    BY <1>2
  <2>3. Successor(s, i) \in {0} \cup DOMAIN m.elt
    BY <1>2, <2>2 DEF Successor, In
  <2>4. s[i] \in Numbers
    BY <1>2
  <2> QED BY <2>1, <2>3, <2>4 DEF Element
<1>6. \A e \in DOMAIN m.elt : m.elt[e] \in [key : Numbers, value : Numbers, next : {0} \cup DOMAIN m.elt]
  <2>1. \A e \in DOMAIN m.elt : \E i \in 1 .. Len(s) : e = s[i]
    BY <1>1 DEF In, Elements
  <2> QED BY <1>5, <2>1
<1>7. IsInjective(Chain(m)) /\ ToSet(Chain(m)) = DOMAIN m.elt
  <2>1. ToSet(s) = Elements(s)
    BY <1>3 DEF ToSet, Elements
  <2>2. IsInjective(s)
    BY <1>2, <1>3 DEF IsInjective
  <2> QED BY <1>1, <2>1, <2>2 DEF In, s
<1> QED BY <1>4, <1>6, <1>7 DEF ListOK, In

-----------------------------------------------------------------------------
(* What a list is as a map, and what each operation makes of it. *)
LEMMA AsMapIs ==
    ASSUME NEW m, NEW of, IsList(m), Differ(m, of)
    PROVE  /\ DOMAIN AsMap(m, of) = {of[e] : e \in In(m)}
           /\ \A e \in In(m) : AsMap(m, of)[of[e]] = e
           /\ AsMap(m, of) = [k \in {of[e] : e \in In(m)} |-> AsMap(m, of)[k]]
<1>1. \A e \in In(m) : of[m.elt[e].key] = of[e]
  BY MapElements
<1>2. {of[m.elt[e].key] : e \in DOMAIN m.elt} = {of[e] : e \in In(m)}
  BY <1>1 DEF In
<1>3. AsMap(m, of) = [k \in {of[e] : e \in In(m)} |-> sgs_map_get(m, of, k)]
  BY <1>2 DEF AsMap
<1>4. \A e \in In(m) : sgs_map_get(m, of, of[e]) = e
  BY MapLookup
<1> QED BY <1>3, <1>4

LEMMA SameMap ==
    ASSUME NEW m, NEW of, NEW oft, IsList(m), Differ(m, of),
           \A e \in In(m) : of[e] = oft[e]
    PROVE  Differ(m, oft) /\ AsMap(m, of) = AsMap(m, oft)
<1>1. Differ(m, oft)
  BY DEF Differ
<1>2. {of[e] : e \in In(m)} = {oft[e] : e \in In(m)}
  OBVIOUS
<1>3. \A k \in {of[e] : e \in In(m)} : AsMap(m, of)[k] = AsMap(m, oft)[k]
  <2>1. \A e \in In(m) : AsMap(m, of)[of[e]] = e
    BY AsMapIs
  <2>2. \A e \in In(m) : AsMap(m, oft)[oft[e]] = e
    BY <1>1, AsMapIs
  <2> QED BY <2>1, <2>2
<1> DEFINE f == AsMap(m, of)
           g == AsMap(m, oft)
           D == {of[e] : e \in In(m)}
<1>4. f = [k \in D |-> f[k]] /\ g = [k \in D |-> g[k]] /\ \A k \in D : f[k] = g[k]
  BY <1>1, <1>2, <1>3, AsMapIs
<1> HIDE DEF f, g, D
<1>5. f = g
  BY <1>4
<1> QED BY <1>1, <1>5 DEF f, g

With(f, k, v) == [x \in DOMAIN f \cup {k} |-> IF x = k THEN v ELSE f[x]]

Without(f, k) == [x \in DOMAIN f \ {k} |-> f[x]]

LEMMA PutMaps ==
    ASSUME NEW m, NEW of, NEW n \in Nat \ {0}, IsList(m), Differ(m, of),
           \A e \in In(m) : of[e] # of[n]
    PROVE  /\ Differ(sgs_map_put(m, of, n, n), of)
           /\ AsMap(sgs_map_put(m, of, n, n), of) = With(AsMap(m, of), of[n], n)
<1> DEFINE p == sgs_map_put(m, of, n, n)
           f == AsMap(m, of)
           g == AsMap(p, of)
           D == {of[e] : e \in In(m)}
<1>1. IsList(p) /\ In(p) = In(m) \cup {n}
  BY MapPut
<1> HIDE DEF p
<1>2. Differ(p, of)
  BY <1>1 DEF Differ
<1>3. f = [k \in D |-> f[k]] /\ DOMAIN f = D /\ \A e \in In(m) : f[of[e]] = e
  BY AsMapIs
<1>4. {of[e] : e \in In(p)} = {of[n]} \cup D
  BY <1>1
<1>5. g = [k \in {of[n]} \cup D |-> g[k]] /\ \A e \in In(p) : g[of[e]] = e
  <2>1. \A e \in In(p) : g[of[e]] = e
    BY <1>1, <1>2, AsMapIs
  <2>2. g = [k \in {of[e] : e \in In(p)} |-> g[k]]
    BY <1>1, <1>2, AsMapIs
  <2> HIDE DEF g, D
  <2> QED BY <1>4, <2>1, <2>2
<1> HIDE DEF f, g
<1>6. \A k \in {of[n]} \cup D : g[k] = IF k = of[n] THEN n ELSE f[k]
  <2>1. g[of[n]] = n
    BY <1>1, <1>5
  <2>2. \A e \in In(m) : of[e] # of[n] /\ g[of[e]] = f[of[e]]
    BY <1>1, <1>3, <1>5
  <2> QED BY <2>1, <2>2
<1>7. g = With(f, of[n], n)
  <2> HIDE DEF D
  <2>1. DOMAIN f \cup {of[n]} = {of[n]} \cup D
    BY <1>3
  <2> QED BY <1>5, <1>6, <2>1 DEF With
<1> QED BY <1>2, <1>7 DEF p, f, g

LEMMA RemoveMaps ==
    ASSUME NEW m, NEW of, NEW e \in In(m), IsList(m), Differ(m, of)
    PROVE  /\ Differ(sgs_map_remove(m, of, of[e]), of)
           /\ of[e] \in DOMAIN AsMap(m, of)
           /\ AsMap(sgs_map_remove(m, of, of[e]), of) = Without(AsMap(m, of), of[e])
<1> DEFINE p == sgs_map_remove(m, of, of[e])
           f == AsMap(m, of)
           g == AsMap(p, of)
           D == {of[x] : x \in In(m)}
<1>1. IsList(p) /\ In(p) = In(m) \ {e}
  BY MapRemove
<1> HIDE DEF p
<1>2. Differ(p, of)
  BY <1>1 DEF Differ
<1>3. DOMAIN f = D /\ \A x \in In(m) : f[of[x]] = x
  BY AsMapIs
<1>4. {of[x] : x \in In(p)} = D \ {of[e]}
  BY <1>1 DEF Differ
<1>5. g = [k \in D \ {of[e]} |-> g[k]] /\ \A x \in In(p) : g[of[x]] = x
  <2>1. \A x \in In(p) : g[of[x]] = x
    BY <1>1, <1>2, AsMapIs
  <2>2. g = [k \in {of[x] : x \in In(p)} |-> g[k]]
    BY <1>1, <1>2, AsMapIs
  <2> HIDE DEF g, D
  <2> QED BY <1>4, <2>1, <2>2
<1> HIDE DEF f, g
<1>6. \A k \in D \ {of[e]} : g[k] = f[k]
  BY <1>1, <1>3, <1>4, <1>5
<1>7. g = Without(f, of[e])
  BY <1>3, <1>5, <1>6 DEF Without
<1> QED BY <1>2, <1>3, <1>7 DEF p, f, g

LEMMA EmptyMaps == ASSUME NEW of PROVE Differ(EmptyMap, of) /\ AsMap(EmptyMap, of) = <<>>
<1>1. Differ(EmptyMap, of)
  BY MapEmpty DEF Differ
<1>2. AsMap(EmptyMap, of) = [k \in {} |-> AsMap(EmptyMap, of)[k]]
  <2>1. {of[e] : e \in In(EmptyMap)} = {}
    BY MapEmpty
  <2> QED BY <1>1, <2>1, MapEmpty, AsMapIs
<1> QED BY <1>1, <1>2

-----------------------------------------------------------------------------
(***************************************************************************)
(* The inductive invariant.  Beside the lists being lists and their keys    *)
(* differing, it says when the session's map is empty, that its channels    *)
(* are of the session and in memory, that the one being left is no longer   *)
(* among the application's, what the session's login and password point to, *)
(* and what memory and refreed can hold.                                    *)
(***************************************************************************)
Joined == 1 .. Len(joins)

Channel == [id : Ids, name : Names, session : 1 .. MaxLogins, got : {"all", "no name", "no element"}]

JoinsOK ==
    /\ joins \in Seq(Channel) /\ Len(joins) <= MaxJoins
    /\ \A n \in Joined : joins[n].session <= logins

ListsOK ==
    /\ IsList(channels) /\ In(channels) \subseteq Joined /\ Differ(channels, IdOf)
    /\ IsList(g_channel_map) /\ In(g_channel_map) \subseteq Joined /\ Differ(g_channel_map, NameOf)

PhaseOK ==
    /\ connected \in BOOLEAN /\ g_session \in BOOLEAN /\ logins \in 0 .. MaxLogins
    /\ pc \in {"app", "left", "exited", "undefined"}
    /\ misread \subseteq Joined
    /\ connected => logins >= 1
    /\ ~connected => In(channels) = {}

CurrentOK ==
    /\ pc = "left" => /\ current \in Joined /\ Usable(current)
                      /\ current \notin In(g_channel_map)
                      /\ connected => current \in In(channels)
    /\ pc \in {"app", "exited"} => current = 0
    /\ current \in {0} \cup Joined

LoginOK ==
    /\ login \in Uninitialised .. MaxLogins /\ password \in Uninitialised .. MaxLogins
    /\ pc # "exited" =>
          /\ login > 0 /\ password # NULL => <<"login", login>> \in memory
          /\ password > 0 => <<"password", password>> \in memory

Logins == {"login", "password"} \X (1 .. MaxLogins)

MemoryOK ==
    /\ memory \subseteq Program \cup Logins \cup ({"id", "channel", "name"} \X Joined)
    /\ \A e \in In(channels) : Usable(e) /\ joins[e].session = logins
    /\ \A e \in In(g_channel_map) : Usable(e)

IdFreed(p) == \E n \in Joined : p = <<"id", n>> /\ (joins[n].got = "no name" \/ n \in misread)

ExitFrees(p) ==
    \/ p = <<"context", 0>>
    \/ p = <<"login", login>> /\ (login = Uninitialised \/ password = NULL)
    \/ p = <<"password", password>> /\ password = Uninitialised

FreedOK == \A p \in refreed : IdFreed(p) \/ (pc = "exited" /\ ExitFrees(p))

LeaksOK ==
    connected /\ pc # "exited" =>
        \A n \in Joined :
            <<"channel", n>> \in memory =>
                joins[n].session < logins \/ joins[n].got = "no element" \/ n \in In(channels)

StaleOK ==
    connected => \A e \in In(g_channel_map) : joins[e].session < logins \/ e \in In(channels)

IInv ==
    /\ JoinsOK /\ ListsOK /\ PhaseOK /\ CurrentOK /\ LoginOK
    /\ MemoryOK /\ FreedOK /\ LeaksOK /\ StaleOK

(* What every step is to be: it keeps IInv and is a step, or none, of each map. *)
Step ==
    /\ IInv'
    /\ \/ AsMap(channels', IdOf') = AsMap(channels, IdOf)
       \/ ChannelsById!Next
    /\ \/ AsMap(g_channel_map', NameOf') = AsMap(g_channel_map, NameOf)
       \/ ChannelsByName!Next

LEMMA Contents ==
    ASSUME IInv
    PROVE  /\ Len(joins) \in Nat
           /\ DOMAIN joins = Joined
           /\ \A n \in Joined : joins[n] \in Channel /\ IdOf[n] = joins[n].id /\ NameOf[n] = joins[n].name
           /\ \A n \in Joined : n \in Nat \ {0} /\ IdOf[n] \in Ids /\ NameOf[n] \in Names /\ n \in Numbers
           /\ logins \in Nat /\ logins <= MaxLogins
           /\ \A n \in Joined : joins[n].session \in Nat /\ joins[n].session <= logins
<1>1. joins \in Seq(Channel) /\ Len(joins) <= MaxJoins
  BY DEF IInv, JoinsOK
<1>2. Len(joins) \in Nat /\ DOMAIN joins = Joined
  BY <1>1, LenProperties DEF Joined
<1>3. \A n \in Joined : joins[n] \in Channel
  BY <1>1, ElementOfSeq DEF Joined
<1>4. \A n \in Joined : IdOf[n] = joins[n].id /\ NameOf[n] = joins[n].name
  BY <1>2 DEF IdOf, NameOf
<1>5. \A n \in Joined : joins[n].id \in Ids /\ joins[n].name \in Names
  BY <1>3 DEF Channel
<1>6. \A n \in Joined : n \in Nat \ {0} /\ n \in Numbers
  BY <1>1, <1>2, ChannelsAssumption DEF Joined, Numbers
<1>7. logins \in Nat /\ logins <= MaxLogins
  BY ChannelsAssumption DEF IInv, PhaseOK
<1>8. \A n \in Joined : joins[n].session \in Nat /\ joins[n].session <= logins
  <2>1. \A n \in Joined : joins[n].session \in 1 .. MaxLogins
    BY <1>3 DEF Channel
  <2> QED BY <2>1, ChannelsAssumption DEF IInv, JoinsOK
<1> QED BY <1>2, <1>3, <1>4, <1>5, <1>6, <1>7, <1>8

LEMMA Bounds ==
    ASSUME IInv
    PROVE  logins \in Nat /\ logins <= MaxLogins /\ logins <= logins /\ Len(joins) \in Nat
<1>1. logins \in Nat /\ logins <= MaxLogins /\ Len(joins) \in Nat
  BY Contents
<1> QED BY <1>1

LEMMA InitIInv == Init => IInv /\ ChannelsById!Init /\ ChannelsByName!Init
<1> SUFFICES ASSUME Init PROVE IInv /\ ChannelsById!Init /\ ChannelsByName!Init
  OBVIOUS
<1>1. /\ joins = <<>> /\ channels = EmptyMap /\ g_channel_map = EmptyMap /\ logins = 0
      /\ memory = Program /\ refreed = {} /\ connected = FALSE /\ g_session = FALSE
      /\ pc = "app" /\ current = 0 /\ login = Uninitialised /\ password = Uninitialised
      /\ misread = {}
  BY DEF Init
<1>2. joins \in Seq(Channel) /\ Len(joins) = 0 /\ Joined = {}
  BY <1>1, EmptySeq DEF Joined
<1>3. IsList(channels) /\ IsList(g_channel_map) /\ In(channels) = {} /\ In(g_channel_map) = {}
  BY <1>1, MapEmpty
<1>4. 0 \in 0 .. MaxLogins /\ 0 <= MaxJoins /\ -1 \in -1 .. MaxLogins
  BY ChannelsAssumption
<1>5. JoinsOK /\ ListsOK /\ PhaseOK /\ CurrentOK /\ LoginOK
  <2>1. JoinsOK /\ ListsOK
    BY <1>1, <1>2, <1>3, <1>4 DEF JoinsOK, ListsOK, Differ
  <2>2. PhaseOK /\ CurrentOK
    BY <1>1, <1>2, <1>3, <1>4 DEF PhaseOK, CurrentOK
  <2>3. LoginOK
    BY <1>1, <1>4 DEF LoginOK, Uninitialised
  <2> QED BY <2>1, <2>2, <2>3
<1>6. MemoryOK /\ FreedOK /\ LeaksOK /\ StaleOK
  BY <1>1, <1>2, <1>3 DEF MemoryOK, FreedOK, LeaksOK, StaleOK
<1>7. AsMap(channels, IdOf) = <<>> /\ AsMap(g_channel_map, NameOf) = <<>>
  BY <1>1, EmptyMaps
<1> QED BY <1>5, <1>6, <1>7 DEF IInv, ChannelsById!Init, ChannelsByName!Init

(***************************************************************************)
(* A login of any outcome.  Only one that stores both its strings connects, *)
(* and one that does not store the login forgets it.                        *)
(***************************************************************************)
LEMMA NewLoginStep ==
    ASSUME IInv, LoginNotStored \/ PasswordNotStored \/ Login
    PROVE  Step
<1> DEFINE k == logins + 1
<1>1. /\ pc = "app" /\ ~connected /\ logins < MaxLogins /\ logins' = k
      /\ UNCHANGED <<refreed, joins, channels, g_channel_map, misread, pc, current>>
  BY DEF LoginNotStored, PasswordNotStored, Login, NewLogin, maps
<1>2. In(channels) = {} /\ logins \in 0 .. MaxLogins
  BY <1>1 DEF IInv, PhaseOK
<1>3. /\ logins' \in 0 .. MaxLogins /\ k \in 1 .. MaxLogins /\ k >= 1 /\ k > 0
      /\ \A n \in Joined : joins[n].session < logins' /\ joins[n].session <= logins'
  BY <1>1, Contents, ChannelsAssumption
<1>4. IdOf' = IdOf /\ NameOf' = NameOf /\ Joined' = Joined
  BY <1>1 DEF IdOf, NameOf, Joined
<1>5. /\ memory \subseteq memory'
      /\ memory' \subseteq memory \cup {<<"login", k>>, <<"password", k>>}
      /\ connected' \in BOOLEAN /\ g_session' \in BOOLEAN
  BY <1>1 DEF LoginNotStored, PasswordNotStored, Login, IInv, PhaseOK
<1>6. \/ login' = 0 /\ password' = password
      \/ login' = k /\ password' = 0
      \/ login' = k /\ password' = k /\ {<<"login", k>>, <<"password", k>>} \subseteq memory'
  BY <1>1 DEF LoginNotStored, PasswordNotStored, Login, NULL
<1> HIDE DEF k
<1>7. JoinsOK'
  BY <1>1, <1>3, <1>4 DEF IInv, JoinsOK
<1>8. LoginOK'
  <2>1. 0 \in -1 .. MaxLogins /\ k \in -1 .. MaxLogins
    BY <1>3, ChannelsAssumption
  <2> QED BY <1>1, <1>3, <1>5, <1>6, <2>1 DEF IInv, LoginOK, Uninitialised, NULL
<1>9. ListsOK' /\ PhaseOK' /\ CurrentOK' /\ MemoryOK'
  <2>1. ListsOK'
    BY <1>1, <1>4 DEF IInv, ListsOK
  <2>2. PhaseOK'
    BY <1>1, <1>2, <1>3, <1>4, <1>5 DEF IInv, PhaseOK
  <2>3. CurrentOK'
    BY <1>1, <1>4 DEF IInv, CurrentOK
  <2>4. memory' \subseteq Program \cup Logins \cup ({"id", "channel", "name"} \X Joined')
    <3>1. <<"login", k>> \in Logins /\ <<"password", k>> \in Logins
      BY <1>3 DEF Logins
    <3> QED BY <1>4, <1>5, <3>1 DEF IInv, MemoryOK
  <2>5. MemoryOK'
    BY <1>1, <1>2, <1>5, <2>4 DEF IInv, MemoryOK, Usable, Misread
  <2> QED BY <2>1, <2>2, <2>3, <2>5
<1>10. FreedOK'
  BY <1>1, <1>4 DEF IInv, FreedOK, IdFreed
<1>11. LeaksOK' /\ StaleOK'
  BY <1>1, <1>2, <1>3, <1>4, <1>5 DEF IInv, ListsOK, MemoryOK, LeaksOK, StaleOK
<1> QED BY <1>1, <1>4, <1>7, <1>8, <1>9, <1>10, <1>11 DEF Step, IInv

LEMMA RoomForOne ==
    ASSUME IInv, connected, Len(joins) < MaxJoins
    PROVE  LET n == Len(joins) + 1 IN
           /\ logins \in 1 .. MaxLogins
           /\ n \in Nat \ {0} /\ n \notin Joined /\ n <= MaxJoins
           /\ 1 .. n = Joined \cup {n} /\ n \in 1 .. n
<1>1. logins >= 1
  BY DEF IInv, PhaseOK
<1> QED BY <1>1, Bounds, ChannelsAssumption DEF Joined

LEMMA JoinsAppended ==
    ASSUME IInv, NEW c \in Channel, joins' = Append(joins, c)
    PROVE  /\ joins' \in Seq(Channel) /\ Len(joins') = Len(joins) + 1
           /\ \A i \in 1 .. Len(joins) : joins'[i] = joins[i]
           /\ joins'[Len(joins) + 1] = c
           /\ DOMAIN joins' = 1 .. Len(joins) + 1
<1>1. joins \in Seq(Channel)
  BY DEF IInv, JoinsOK
<1> DEFINE t == Append(joins, c)
<1>2. /\ t \in Seq(Channel) /\ Len(t) = Len(joins) + 1
      /\ \A i \in 1 .. Len(joins) : t[i] = joins[i]
      /\ t[Len(joins) + 1] = c
  BY <1>1, AppendProperties
<1>3. DOMAIN t = 1 .. Len(t)
  BY <1>2, LenProperties
<1> HIDE DEF t
<1>4. joins' = t
  BY DEF t
<1> QED BY <1>2, <1>3, <1>4

(* A channel made gets a number of its own; nothing else has it. *)
LEMMA NewChannelIs ==
    ASSUME IInv, NEW id \in Ids, NEW name \in Names, NEW got \in {"all", "no name", "no element"},
           NewChannel(id, name, got)
    PROVE  LET n == Len(joins) + 1 IN
           /\ Len(joins') = n /\ n \in Nat \ {0} /\ n \notin Joined
           /\ Joined' = Joined \cup {n}
           /\ JoinsOK'
           /\ \A i \in Joined : joins'[i] = joins[i] /\ IdOf'[i] = IdOf[i] /\ NameOf'[i] = NameOf[i]
           /\ joins'[n].got = got /\ joins'[n].session = logins
           /\ IdOf'[n] = id /\ NameOf'[n] = name
           /\ pc = "app" /\ connected /\ ~sgs_map_contains(channels, IdOf, id)
           /\ UNCHANGED <<phase, connected, g_session, logins, login, password, misread, pc, current>>
           /\ Differ(channels, IdOf') /\ AsMap(channels, IdOf') = AsMap(channels, IdOf)
           /\ Differ(g_channel_map, NameOf')
           /\ AsMap(g_channel_map, NameOf') = AsMap(g_channel_map, NameOf)
<1> DEFINE n == Len(joins) + 1
           c == [id |-> id, name |-> name, session |-> logins, got |-> got]
<1>1. /\ pc = "app" /\ connected /\ ~sgs_map_contains(channels, IdOf, id)
      /\ joins' = Append(joins, c) /\ Len(joins) < MaxJoins
      /\ UNCHANGED <<phase, connected, g_session, logins, login, password, misread, pc, current>>
  BY DEF NewChannel, phase
<1>2. /\ joins \in Seq(Channel) /\ logins \in 1 .. MaxLogins
      /\ Len(joins) \in Nat /\ DOMAIN joins = 1 .. Len(joins)
  <2>1. joins \in Seq(Channel) /\ Len(joins) \in Nat /\ DOMAIN joins = 1 .. Len(joins)
    BY Contents DEF IInv, JoinsOK, Joined
  <2>2. logins \in 1 .. MaxLogins
    BY <1>1, RoomForOne, Zenon
  <2> QED BY <2>1, <2>2, Zenon
<1>3. c \in Channel
  BY <1>2 DEF Channel
<1>4. c.id = id /\ c.name = name /\ c.got = got /\ c.session = logins
  OBVIOUS
<1> HIDE DEF c
<1>5. /\ joins' \in Seq(Channel) /\ Len(joins') = n
      /\ \A i \in 1 .. Len(joins) : joins'[i] = joins[i]
      /\ joins'[n] = c
      /\ DOMAIN joins' = 1 .. n
  BY <1>1, <1>3, JoinsAppended, Zenon
<1>6. /\ n \in Nat \ {0} /\ n \notin Joined /\ Joined' = Joined \cup {n} /\ n <= MaxJoins
      /\ n \in DOMAIN joins' /\ DOMAIN joins' = Joined'
  <2>1. /\ n \in Nat \ {0} /\ n \notin Joined /\ n <= MaxJoins
        /\ 1 .. n = Joined \cup {n} /\ n \in 1 .. n
    BY <1>1, RoomForOne, Zenon
  <2>2. Joined' = 1 .. n
    BY <1>5 DEF Joined
  <2> QED BY <1>5, <2>1, <2>2
<1>7. \A i \in Joined' : IdOf'[i] = joins'[i].id /\ NameOf'[i] = joins'[i].name
  <2>1. IdOf' = [i \in DOMAIN joins' |-> joins'[i].id] /\ NameOf' = [i \in DOMAIN joins' |-> joins'[i].name]
    BY DEF IdOf, NameOf
  <2> QED BY <1>6, <2>1
<1>8. \A i \in Joined : joins'[i] = joins[i] /\ IdOf'[i] = IdOf[i] /\ NameOf'[i] = NameOf[i]
  <2>1. \A i \in Joined : joins'[i] = joins[i]
    BY <1>5 DEF Joined
  <2> QED BY <1>6, <1>7, <2>1, Contents
<1>9. JoinsOK'
  <2>1. \A i \in Joined' : joins'[i].session <= logins'
    <3>1. logins <= logins
      BY Bounds
    <3> QED BY <1>1, <1>4, <1>5, <1>6, <1>8, <3>1 DEF IInv, JoinsOK
  <2> QED BY <1>5, <1>6, <2>1 DEF JoinsOK
<1>10. Differ(channels, IdOf') /\ AsMap(channels, IdOf') = AsMap(channels, IdOf)
  <2> DEFINE m == channels
             of == IdOf
             oft == IdOf'
  <2>1. IsList(m) /\ Differ(m, of) /\ \A e \in In(m) : of[e] = oft[e]
    BY <1>8 DEF IInv, ListsOK
  <2> HIDE DEF m, of, oft
  <2>2. Differ(m, oft) /\ AsMap(m, of) = AsMap(m, oft)
    BY <2>1, SameMap
  <2> QED BY <2>2 DEF m, of, oft
<1>11. Differ(g_channel_map, NameOf') /\ AsMap(g_channel_map, NameOf') = AsMap(g_channel_map, NameOf)
  <2> DEFINE m == g_channel_map
             of == NameOf
             oft == NameOf'
  <2>1. IsList(m) /\ Differ(m, of) /\ \A e \in In(m) : of[e] = oft[e]
    BY <1>8 DEF IInv, ListsOK
  <2> HIDE DEF m, of, oft
  <2>2. Differ(m, oft) /\ AsMap(m, of) = AsMap(m, oft)
    BY <2>1, SameMap
  <2> QED BY <2>2 DEF m, of, oft
<1> HIDE DEF n
<1>12. /\ Len(joins') = n /\ n \in Nat \ {0} /\ n \notin Joined
       /\ Joined' = Joined \cup {n}
       /\ joins'[n].got = got /\ joins'[n].session = logins
       /\ IdOf'[n] = id /\ NameOf'[n] = name
  BY <1>4, <1>5, <1>6, <1>7
<1> QED BY <1>1, <1>8, <1>9, <1>10, <1>11, <1>12 DEF n

(* Joins that fail keep both maps; the invariant loses nothing. *)
LEMMA FailedJoinStep ==
    ASSUME IInv, NEW id \in Ids, NEW name \in Names,
           JoinWithoutName(id, name) \/ JoinUnlisted(id, name)
    PROVE  Step
<1> DEFINE n == Len(joins) + 1
<1>1. PICK got \in {"no name", "no element"} :
         /\ NewChannel(id, name, got)
         /\ got = "no name" => memory' = memory /\ refreed' = refreed \cup {<<"id", Len(joins')>>}
         /\ got = "no element" =>
               /\ refreed' = refreed
               /\ memory' = memory \cup {<<"channel", Len(joins')>>, <<"name", Len(joins')>>}
         /\ UNCHANGED <<channels, g_channel_map>>
  BY DEF JoinWithoutName, JoinUnlisted, maps
<1>2. /\ Len(joins') = n /\ n \in Nat \ {0} /\ n \notin Joined
      /\ Joined' = Joined \cup {n}
      /\ JoinsOK'
      /\ \A i \in Joined : joins'[i] = joins[i]
      /\ joins'[n].got = got
      /\ pc = "app" /\ connected
      /\ UNCHANGED <<phase, connected, g_session, logins, login, password, misread, pc, current>>
      /\ Differ(channels, IdOf') /\ AsMap(channels, IdOf') = AsMap(channels, IdOf)
      /\ Differ(g_channel_map, NameOf')
      /\ AsMap(g_channel_map, NameOf') = AsMap(g_channel_map, NameOf)
  BY <1>1, NewChannelIs
<1> HIDE DEF n
<1>3. In(channels) \subseteq Joined /\ In(g_channel_map) \subseteq Joined
  BY DEF IInv, ListsOK
<1>4. ListsOK'
  BY <1>1, <1>2, <1>3 DEF IInv, ListsOK
<1>5. PhaseOK' /\ CurrentOK' /\ LoginOK'
  BY <1>1, <1>2 DEF IInv, PhaseOK, CurrentOK, LoginOK
<1>6. memory \subseteq memory' /\ memory' \subseteq memory \cup {<<"channel", n>>, <<"name", n>>}
  BY <1>1, <1>2
<1>7. MemoryOK'
  <2>1. memory' \subseteq Program \cup Logins \cup ({"id", "channel", "name"} \X Joined')
    <3>1. memory \subseteq Program \cup Logins \cup ({"id", "channel", "name"} \X Joined)
      BY DEF IInv, MemoryOK
    <3>2. {"id", "channel", "name"} \X Joined \subseteq {"id", "channel", "name"} \X Joined'
      BY <1>2
    <3>3. <<"channel", n>> \in {"id", "channel", "name"} \X Joined' /\ <<"name", n>> \in {"id", "channel", "name"} \X Joined'
      BY <1>2
    <3> QED BY <1>6, <3>1, <3>2, <3>3
  <2>2. \A e \in In(channels') : Usable(e)' /\ joins'[e].session = logins'
    BY <1>1, <1>2, <1>3, <1>6 DEF IInv, MemoryOK, Usable, Misread
  <2>3. \A e \in In(g_channel_map') : Usable(e)'
    BY <1>1, <1>2, <1>6 DEF IInv, MemoryOK, Usable, Misread
  <2> QED BY <2>1, <2>2, <2>3 DEF MemoryOK
<1>8. FreedOK'
  <2>1. \A p \in refreed : IdFreed(p)'
    BY <1>2 DEF IInv, FreedOK, IdFreed
  <2>2. \A p \in refreed' \ refreed : p = <<"id", n>> /\ joins'[n].got = "no name"
    BY <1>1, <1>2
  <2> QED BY <1>2, <2>1, <2>2 DEF FreedOK, IdFreed
<1>9. LeaksOK'
  <2> SUFFICES ASSUME NEW i \in Joined', <<"channel", i>> \in memory'
               PROVE  joins'[i].session < logins' \/ joins'[i].got = "no element" \/ i \in In(channels')
    BY DEF LeaksOK
  <2>1. CASE i = n
    <3>1. <<"channel", n>> \notin memory
      BY <1>2 DEF IInv, MemoryOK, Program, Logins
    <3>2. got # "no name"
      BY <1>1, <2>1, <3>1
    <3> QED BY <1>2, <2>1, <3>2
  <2>2. CASE i \in Joined
    <3>1. <<"channel", i>> \in memory
      BY <1>2, <1>6, <2>2
    <3> QED BY <1>1, <1>2, <2>2, <3>1 DEF IInv, LeaksOK
  <2> QED BY <1>2, <2>1, <2>2
<1>10. StaleOK'
  BY <1>1, <1>2, <1>3 DEF IInv, StaleOK
<1> QED BY <1>1, <1>2, <1>4, <1>5, <1>7, <1>8, <1>9, <1>10 DEF Step, IInv

(* The steps of the two maps, in terms of their elements. *)
LEMMA PutIsStep ==
    ASSUME IInv, NEW n \in Numbers, IdOf'[n] \in Ids,
           AsMap(channels, IdOf)' = With(AsMap(channels, IdOf), IdOf'[n], n)
    PROVE  ChannelsById!Next
BY DEF ChannelsById!Next, ChannelsById!Put, With

LEMMA PutByNameIsStep ==
    ASSUME IInv, NEW n \in Numbers, NameOf'[n] \in Names,
           AsMap(g_channel_map, NameOf)' = With(AsMap(g_channel_map, NameOf), NameOf'[n], n)
    PROVE  ChannelsByName!Next
BY DEF ChannelsByName!Next, ChannelsByName!Put, With

LEMMA ChannelJoinStep ==
    ASSUME IInv, NEW id \in Ids, NEW name \in Names, ChannelJoin(id, name)
    PROVE  Step
<1> DEFINE n == Len(joins) + 1
           g == g_channel_map
<1>1. /\ NewChannel(id, name, "all")
      /\ memory' = memory \cup ChannelMemory(Len(joins'))
      /\ channels' = sgs_map_put(channels, IdOf', Len(joins'), Len(joins'))
      /\ channel_joined_cb(Len(joins'))
      /\ refreed' = refreed
  BY DEF ChannelJoin
<1>2. /\ Len(joins') = n /\ n \in Nat \ {0} /\ n \notin Joined
      /\ Joined' = Joined \cup {n}
      /\ JoinsOK'
      /\ \A i \in Joined : joins'[i] = joins[i] /\ IdOf'[i] = IdOf[i] /\ NameOf'[i] = NameOf[i]
      /\ joins'[n].session = logins
      /\ IdOf'[n] = id /\ NameOf'[n] = name
      /\ pc = "app" /\ connected /\ ~sgs_map_contains(channels, IdOf, id)
      /\ UNCHANGED <<phase, connected, g_session, logins, login, password, misread, pc, current>>
  BY <1>1, NewChannelIs
<1>3. /\ Differ(channels, IdOf') /\ AsMap(channels, IdOf') = AsMap(channels, IdOf)
      /\ Differ(g, NameOf') /\ AsMap(g, NameOf') = AsMap(g, NameOf)
  BY <1>1, NewChannelIs
<1>4. /\ In(channels) \subseteq Joined /\ In(g) \subseteq Joined
      /\ IsList(channels) /\ IsList(g) /\ Differ(channels, IdOf)
  BY DEF IInv, ListsOK
<1>5. n \in Numbers
  <2>1. Len(joins') <= MaxJoins
    BY <1>2 DEF JoinsOK
  <2> QED BY <1>2, <2>1, ChannelsAssumption DEF Numbers
<1> HIDE DEF n
<1>6. /\ IsList(channels') /\ In(channels') = In(channels) \cup {n} /\ Differ(channels', IdOf')
      /\ ChannelsById!Next
  <2> DEFINE of == IdOf'
             m == channels
  <2>1. \A e \in In(m) : of[e] # of[n]
    <3>1. \A e \in In(m) : IdOf[e] # id
      BY <1>2, <1>4, MapLookup
    <3> QED BY <1>2, <1>4, <3>1
  <2>2. Differ(m, of) /\ IsList(m)
    BY <1>3, <1>4
  <2>3. channels' = sgs_map_put(m, of, n, n)
    BY <1>1, <1>2
  <2> HIDE DEF of
  <2>4. IsList(channels') /\ In(channels') = In(m) \cup {n}
    BY <1>2, <2>1, <2>2, <2>3, MapPut
  <2>5. /\ Differ(channels', of)
        /\ AsMap(channels', of) = With(AsMap(m, of), of[n], n)
    BY <1>2, <2>1, <2>2, <2>3, PutMaps
  <2>6. AsMap(m, of) = AsMap(channels, IdOf) /\ of[n] = IdOf'[n] /\ IdOf'[n] \in Ids
    BY <1>2, <1>3 DEF of
  <2>7. AsMap(channels, IdOf)' = AsMap(channels', of)
    BY DEF of
  <2>8. ChannelsById!Next
    BY <1>5, <2>5, <2>6, <2>7, PutIsStep
  <2> QED BY <2>4, <2>5, <2>8 DEF of
<1>7. /\ IsList(g') /\ In(g') \subseteq In(g) \cup {n} /\ Differ(g', NameOf')
      /\ AsMap(g', NameOf') = AsMap(g, NameOf) \/ ChannelsByName!Next
  <2>1. CASE UNCHANGED g_channel_map
    BY <1>3, <1>4, <2>1
  <2>2. CASE /\ ~sgs_map_contains(g, NameOf', NameOf'[n])
             /\ g' = sgs_map_put(g, NameOf', n, n)
    <3> DEFINE of == NameOf'
               m == g
    <3>1. Differ(m, of) /\ IsList(m)
      BY <1>3, <1>4
    <3>2. g' = sgs_map_put(m, of, n, n) /\ ~sgs_map_contains(m, of, of[n])
      BY <2>2
    <3> HIDE DEF of, m
    <3>3. \A e \in In(m) : of[e] # of[n]
      BY <3>1, <3>2, MapLookup
    <3>4. IsList(g') /\ In(g') = In(m) \cup {n}
      BY <1>2, <3>1, <3>2, <3>3, MapPut
    <3>5. /\ Differ(g', of)
          /\ AsMap(g', of) = With(AsMap(m, of), of[n], n)
      BY <1>2, <3>1, <3>2, <3>3, PutMaps
    <3>6. AsMap(m, of) = AsMap(g_channel_map, NameOf) /\ of[n] = NameOf'[n] /\ NameOf'[n] \in Names
      BY <1>2, <1>3 DEF of, m
    <3>7. AsMap(g_channel_map, NameOf)' = AsMap(g', of)
      BY DEF of
    <3>8. ChannelsByName!Next
      BY <1>5, <3>5, <3>6, <3>7, PutByNameIsStep
    <3> QED BY <3>4, <3>5, <3>8 DEF of, m
  <2> QED BY <1>1, <1>2, <2>1, <2>2 DEF channel_joined_cb
<1>8. ListsOK'
  BY <1>2, <1>4, <1>6, <1>7 DEF ListsOK
<1>9. PhaseOK' /\ CurrentOK' /\ LoginOK'
  BY <1>1, <1>2, <1>6 DEF IInv, PhaseOK, CurrentOK, LoginOK
<1>10. memory' = memory \cup ChannelMemory(n)
  BY <1>1, <1>2
<1>11. MemoryOK'
  <2>1. memory' \subseteq Program \cup Logins \cup ({"id", "channel", "name"} \X Joined')
    <3>1. memory \subseteq Program \cup Logins \cup ({"id", "channel", "name"} \X Joined)
      BY DEF IInv, MemoryOK
    <3>2. {"id", "channel", "name"} \X Joined \subseteq {"id", "channel", "name"} \X Joined'
      BY <1>2
    <3>3. ChannelMemory(n) \subseteq {"id", "channel", "name"} \X Joined'
      BY <1>2 DEF ChannelMemory
    <3> QED BY <1>10, <3>1, <3>2, <3>3
  <2>2. \A e : Usable(e) => ChannelMemory(e) \subseteq memory' \cup Misread'
    BY <1>2, <1>10 DEF Usable, Misread
  <2>3. ChannelMemory(n) \subseteq memory' \cup Misread'
    BY <1>10
  <2>4. ASSUME NEW e \in In(channels')
        PROVE  ChannelMemory(e) \subseteq memory' \cup Misread' /\ joins'[e].session = logins'
    <3>1. CASE e = n
      BY <1>2, <2>3, <3>1
    <3>2. CASE e \in In(channels)
      <4>1. Usable(e) /\ joins[e].session = logins
        BY <3>2 DEF IInv, MemoryOK
      <4> QED BY <1>2, <1>4, <2>2, <3>2, <4>1
    <3> QED BY <1>6, <3>1, <3>2
  <2>5. \A e \in In(g') : ChannelMemory(e) \subseteq memory' \cup Misread'
    <3>1. \A e \in In(g) : Usable(e)
      BY DEF IInv, MemoryOK
    <3> QED BY <1>7, <2>2, <2>3, <3>1
  <2> QED BY <2>1, <2>4, <2>5 DEF MemoryOK, Usable
<1>12. FreedOK'
  <2>1. \A p \in refreed : IdFreed(p)'
    BY <1>2 DEF IInv, FreedOK, IdFreed
  <2> QED BY <1>1, <2>1 DEF FreedOK
<1>13. LeaksOK'
  <2> SUFFICES ASSUME NEW i \in Joined', <<"channel", i>> \in memory'
               PROVE  joins'[i].session < logins' \/ joins'[i].got = "no element" \/ i \in In(channels')
    BY DEF LeaksOK
  <2>1. CASE i = n
    BY <1>6, <2>1
  <2>2. CASE i \in Joined
    <3>1. <<"channel", i>> \in memory
      BY <1>2, <1>10, <2>2 DEF ChannelMemory
    <3> QED BY <1>2, <1>6, <2>2, <3>1 DEF IInv, LeaksOK
  <2> QED BY <1>2, <2>1, <2>2
<1>14. StaleOK'
  BY <1>2, <1>4, <1>6, <1>7 DEF IInv, StaleOK
<1> QED BY <1>2, <1>6, <1>7, <1>8, <1>9, <1>11, <1>12, <1>13, <1>14 DEF Step, IInv

(* Most steps make no channel. *)
LEMMA SameJoins ==
    ASSUME IInv, UNCHANGED <<joins, logins>>
    PROVE  /\ JoinsOK' /\ Joined' = Joined /\ IdOf' = IdOf /\ NameOf' = NameOf
           /\ AsMap(channels, IdOf)' = AsMap(channels', IdOf)
           /\ AsMap(g_channel_map, NameOf)' = AsMap(g_channel_map', NameOf)
<1>1. Joined' = Joined
  BY DEF Joined
<1>2. IdOf' = IdOf /\ NameOf' = NameOf
  BY DEF IdOf, NameOf
<1>3. JoinsOK'
  BY <1>1 DEF IInv, JoinsOK
<1>4. /\ AsMap(channels, IdOf)' = AsMap(channels', IdOf')
      /\ AsMap(g_channel_map, NameOf)' = AsMap(g_channel_map', NameOf')
  OBVIOUS
<1> QED BY <1>1, <1>2, <1>3, <1>4

LEMMA RemoveIsStep ==
    ASSUME IInv, NEW k \in DOMAIN AsMap(channels, IdOf), k \in Ids,
           AsMap(channels, IdOf)' = Without(AsMap(channels, IdOf), k)
    PROVE  ChannelsById!Next
BY DEF ChannelsById!Next, ChannelsById!Remove, Without

LEMMA RemoveByNameIsStep ==
    ASSUME IInv, NEW k \in DOMAIN AsMap(g_channel_map, NameOf), k \in Names,
           AsMap(g_channel_map, NameOf)' = Without(AsMap(g_channel_map, NameOf), k)
    PROVE  ChannelsByName!Next
BY DEF ChannelsByName!Next, ChannelsByName!Remove, Without

(* channel_left_cb takes out what the application has under the name, if anything. *)
LEMMA ForgotByName ==
    ASSUME IInv, NEW n \in Joined, channel_left_cb(n), UNCHANGED <<joins, logins>>
    PROVE  /\ IsList(g_channel_map') /\ Differ(g_channel_map', NameOf)
           /\ In(g_channel_map') \subseteq In(g_channel_map) /\ n \notin In(g_channel_map')
           /\ AsMap(g_channel_map', NameOf) = AsMap(g_channel_map, NameOf) \/ ChannelsByName!Next
<1> DEFINE g == g_channel_map
           of == NameOf
<1>1. IsList(g) /\ Differ(g, of) /\ In(g) \subseteq Joined
  BY DEF IInv, ListsOK
<1>2. g' = sgs_map_remove(g, of, of[n])
  BY DEF channel_left_cb
<1>3. AsMap(g_channel_map, NameOf)' = AsMap(g', of)
  BY SameJoins
<1>4. \A e \in Joined : of[e] \in Names
  BY Contents
<1> HIDE DEF of
<1>5. CASE \E e \in In(g) : of[e] = of[n]
  <2> PICK e \in In(g) : of[e] = of[n]
    BY <1>5
  <2>1. g' = sgs_map_remove(g, of, of[e])
    BY <1>2
  <2>2. IsList(g') /\ In(g') = In(g) \ {e}
    BY <1>1, <2>1, MapRemove
  <2>3. /\ Differ(g', of) /\ of[e] \in DOMAIN AsMap(g, of)
        /\ AsMap(g', of) = Without(AsMap(g, of), of[e])
    BY <1>1, <2>1, RemoveMaps
  <2>4. ChannelsByName!Next
    <3>1. of[e] \in Names
      BY <1>1, <1>4
    <3> QED BY <1>3, <2>3, <3>1, RemoveByNameIsStep DEF of
  <2>5. n \notin In(g')
    BY <1>1, <2>2 DEF Differ
  <2> QED BY <2>2, <2>3, <2>4, <2>5 DEF of
<1>6. CASE \A e \in In(g) : of[e] # of[n]
  <2>1. g' = g
    BY <1>1, <1>2, <1>6, MapRemoveNone
  <2>2. n \notin In(g')
    BY <1>6, <2>1
  <2> QED BY <1>1, <2>1, <2>2 DEF of
<1> QED BY <1>5, <1>6

(* A CHANNEL_LEAVE that finds its channel; freed is the id that it may free. *)
LEMMA LeaveFoundStep ==
    ASSUME IInv, NEW id, NEW freed, freed \subseteq Misread',
           pc = "app", connected, sgs_map_contains(channels, IdOf, id), LeaveFound(id),
           misread \subseteq misread', misread' \subseteq Joined,
           memory' = memory \ freed, refreed' \subseteq refreed \cup freed,
           UNCHANGED <<joins, channels, connected, g_session, logins, login, password>>
    PROVE  Step
<1>1. /\ current' = sgs_map_get(channels, IdOf, id)
      /\ channel_left_cb(current') /\ pc' = "left"
  BY DEF LeaveFound
<1>2. /\ JoinsOK' /\ Joined' = Joined /\ IdOf' = IdOf /\ NameOf' = NameOf
      /\ AsMap(channels, IdOf)' = AsMap(channels', IdOf)
      /\ AsMap(g_channel_map, NameOf)' = AsMap(g_channel_map', NameOf)
  BY SameJoins
<1>3. IsList(channels) /\ Differ(channels, IdOf) /\ In(channels) \subseteq Joined
  BY DEF IInv, ListsOK
<1>4. current' \in In(channels)
  BY <1>1, <1>3, MapLookup
<1>5. /\ IsList(g_channel_map') /\ Differ(g_channel_map', NameOf)
      /\ In(g_channel_map') \subseteq In(g_channel_map) /\ current' \notin In(g_channel_map')
      /\ AsMap(g_channel_map', NameOf) = AsMap(g_channel_map, NameOf) \/ ChannelsByName!Next
  <2>1. current' \in Joined
    BY <1>3, <1>4
  <2> DEFINE n == current'
  <2>2. n \in Joined /\ channel_left_cb(n)
    BY <1>1, <2>1
  <2> HIDE DEF n
  <2>3. /\ IsList(g_channel_map') /\ Differ(g_channel_map', NameOf)
        /\ In(g_channel_map') \subseteq In(g_channel_map) /\ n \notin In(g_channel_map')
        /\ AsMap(g_channel_map', NameOf) = AsMap(g_channel_map, NameOf) \/ ChannelsByName!Next
    BY <1>1, <2>2, ForgotByName
  <2> QED BY <2>3 DEF n
<1>6. In(channels') = In(channels)
  OBVIOUS
<1>7. \A e : Usable(e) => Usable(e)'
  BY DEF Usable, Misread
<1>8. \A p \in freed : \E n \in misread' : p = <<"id", n>>
  BY DEF Misread
<1>9. ListsOK'
  BY <1>1, <1>2, <1>5 DEF IInv, ListsOK
<1>10. PhaseOK'
  BY <1>1, <1>2 DEF IInv, PhaseOK
<1>11. CurrentOK'
  <2>1. ChannelMemory(current') \subseteq memory' \cup Misread'
    BY <1>4, <1>7 DEF IInv, MemoryOK, Usable
  <2>2. current' \in Joined'
    BY <1>2, <1>3, <1>4
  <2> QED BY <1>1, <1>4, <1>5, <1>6, <2>1, <2>2 DEF CurrentOK, Usable
<1>12. LoginOK'
  BY <1>8 DEF IInv, LoginOK
<1>13. MemoryOK'
  BY <1>1, <1>2, <1>5, <1>6, <1>7 DEF IInv, MemoryOK
<1>14. FreedOK'
  <2>1. \A p \in refreed : IdFreed(p)'
    BY <1>2 DEF IInv, FreedOK, IdFreed
  <2>2. \A p \in freed : IdFreed(p)'
    BY <1>2, <1>8 DEF IdFreed
  <2> QED BY <2>1, <2>2 DEF FreedOK
<1>15. LeaksOK' /\ StaleOK'
  BY <1>1, <1>2, <1>5, <1>6 DEF IInv, LeaksOK, StaleOK
<1> QED BY <1>1, <1>2, <1>5, <1>9, <1>10, <1>11, <1>12, <1>13, <1>14, <1>15 DEF Step, IInv

LEMMA ChannelLeaveStep ==
    ASSUME IInv, NEW id \in Ids, ChannelLeave(id)
    PROVE  Step
<1>1. /\ pc = "app" /\ connected /\ sgs_map_contains(channels, IdOf, id) /\ LeaveFound(id)
      /\ UNCHANGED <<memory, refreed, joins, channels, connected, g_session, logins, login,
                     password, misread>>
  BY DEF ChannelLeave, mem, phase
<1> DEFINE freed == {}
<1>2. /\ freed \subseteq Misread' /\ misread \subseteq misread' /\ misread' \subseteq Joined
      /\ memory' = memory \ freed /\ refreed' \subseteq refreed \cup freed
  BY <1>1 DEF IInv, PhaseOK
<1> HIDE DEF freed
<1> QED BY <1>1, <1>2, LeaveFoundStep

LEMMA LeaveUnreadStep ==
    ASSUME IInv, NEW n \in DOMAIN joins, LeaveUnread(n)
    PROVE  Step
<1>1. /\ pc = "app" /\ connected /\ misread' = misread \cup {n}
      /\ memory' = memory \ {<<"id", n>>}
      /\ refreed' \subseteq refreed \cup {<<"id", n>>}
      /\ UNCHANGED <<joins, channels, connected, g_session, logins, login, password>>
  BY DEF LeaveUnread, Frees, phase
<1>2. misread' \subseteq Joined /\ {<<"id", n>>} \subseteq Misread'
  BY <1>1, Contents DEF IInv, PhaseOK, Misread
<1>3. CASE sgs_map_contains(channels, IdOf, IdOf[n])
  <2>1. LeaveFound(IdOf[n])
    BY <1>3 DEF LeaveUnread
  <2> QED BY <1>1, <1>2, <1>3, <2>1, LeaveFoundStep
<1>4. CASE ~sgs_map_contains(channels, IdOf, IdOf[n])
  <2>1. UNCHANGED <<g_channel_map, pc, current>>
    BY <1>4 DEF LeaveUnread
  <2>2. /\ JoinsOK' /\ Joined' = Joined /\ IdOf' = IdOf /\ NameOf' = NameOf
        /\ AsMap(channels, IdOf)' = AsMap(channels', IdOf)
        /\ AsMap(g_channel_map, NameOf)' = AsMap(g_channel_map', NameOf)
    BY <1>1, SameJoins
  <2>3. \A e : Usable(e) => Usable(e)'
    BY <1>1 DEF Usable, Misread
  <2>4. ListsOK' /\ PhaseOK' /\ CurrentOK' /\ LoginOK'
    <3>1. ListsOK'
      BY <1>1, <2>1, <2>2 DEF IInv, ListsOK
    <3>2. PhaseOK'
      BY <1>1, <1>2, <2>1, <2>2 DEF IInv, PhaseOK
    <3>3. CurrentOK'
      BY <1>1, <2>1, <2>2 DEF IInv, CurrentOK
    <3>4. LoginOK'
      BY <1>1, <2>1 DEF IInv, LoginOK
    <3> QED BY <3>1, <3>2, <3>3, <3>4
  <2>5. MemoryOK'
    BY <1>1, <2>1, <2>2, <2>3 DEF IInv, MemoryOK
  <2>6. FreedOK'
    <3>1. \A p \in refreed : IdFreed(p)'
      BY <1>1, <2>2 DEF IInv, FreedOK, IdFreed
    <3>2. IdFreed(<<"id", n>>)'
      BY <1>1, <1>2, <2>2 DEF IdFreed
    <3> QED BY <1>1, <3>1, <3>2 DEF FreedOK
  <2>7. LeaksOK' /\ StaleOK'
    BY <1>1, <2>1, <2>2 DEF IInv, LeaksOK, StaleOK
  <2> QED BY <1>1, <2>1, <2>2, <2>4, <2>5, <2>6, <2>7 DEF Step, IInv
<1> QED BY <1>3, <1>4

LEMMA UndefinedStep == ASSUME IInv, Undefined PROVE Step
<1>1. /\ pc \in {"app", "left"} /\ pc' = "undefined"
      /\ UNCHANGED <<memory, refreed, joins, channels, g_channel_map, connected, g_session, logins,
                     login, password, misread, current>>
  BY DEF Undefined, mem, maps, phase
<1>2. /\ JoinsOK' /\ Joined' = Joined /\ IdOf' = IdOf /\ NameOf' = NameOf
      /\ AsMap(channels, IdOf)' = AsMap(channels', IdOf)
      /\ AsMap(g_channel_map, NameOf)' = AsMap(g_channel_map', NameOf)
  BY <1>1, SameJoins
<1>3. ListsOK' /\ PhaseOK' /\ CurrentOK' /\ LoginOK'
  <2>1. ListsOK'
    BY <1>1, <1>2 DEF IInv, ListsOK
  <2>2. PhaseOK'
    BY <1>1, <1>2 DEF IInv, PhaseOK
  <2>3. CurrentOK' /\ LoginOK'
    BY <1>1, <1>2 DEF IInv, CurrentOK, LoginOK
  <2> QED BY <2>1, <2>2, <2>3
<1>4. MemoryOK'
  BY <1>1, <1>2 DEF IInv, MemoryOK, Usable, Misread
<1>5. FreedOK'
  BY <1>1, <1>2 DEF IInv, FreedOK, IdFreed
<1>6. LeaksOK' /\ StaleOK'
  BY <1>1, <1>2 DEF IInv, LeaksOK, StaleOK
<1> QED BY <1>1, <1>2, <1>3, <1>4, <1>5, <1>6 DEF Step, IInv

(***************************************************************************)
(* A logout forced in the callback has cleared the map when the library     *)
(* comes back to take the channel out of it; the channel is freed anyway.   *)
(***************************************************************************)
LEMMA ChannelLeftStep == ASSUME IInv, ChannelLeft PROVE Step
<1>1. /\ pc = "left" /\ channels' = sgs_map_remove(channels, IdOf, IdOf[current])
      /\ memory' = memory \ ChannelMemory(current)
      /\ refreed' = refreed \cup (ChannelMemory(current) \ memory)
      /\ pc' = "app" /\ current' = 0
      /\ UNCHANGED <<joins, g_channel_map, connected, g_session, logins, login, password, misread>>
  BY DEF ChannelLeft, phase, sgs_channel_impl_destroy, Frees
<1>2. /\ JoinsOK' /\ Joined' = Joined /\ IdOf' = IdOf /\ NameOf' = NameOf
      /\ AsMap(channels, IdOf)' = AsMap(channels', IdOf)
      /\ AsMap(g_channel_map, NameOf)' = AsMap(g_channel_map', NameOf)
  BY <1>1, SameJoins
<1>3. /\ IsList(channels) /\ Differ(channels, IdOf) /\ In(channels) \subseteq Joined
      /\ In(g_channel_map) \subseteq Joined
  BY DEF IInv, ListsOK
<1>4. /\ current \in Joined /\ ChannelMemory(current) \subseteq memory \cup Misread
      /\ current \notin In(g_channel_map) /\ (connected => current \in In(channels))
  BY <1>1 DEF IInv, CurrentOK, Usable
<1>5. /\ IsList(channels') /\ Differ(channels', IdOf) /\ In(channels') = In(channels) \ {current}
      /\ AsMap(channels', IdOf) = AsMap(channels, IdOf) \/ ChannelsById!Next
  <2>1. CASE current \in In(channels)
    <3>1. /\ IsList(channels') /\ In(channels') = In(channels) \ {current}
          /\ Differ(channels', IdOf) /\ IdOf[current] \in DOMAIN AsMap(channels, IdOf)
          /\ AsMap(channels', IdOf) = Without(AsMap(channels, IdOf), IdOf[current])
      BY <1>1, <1>3, <2>1, MapRemove, RemoveMaps
    <3>2. ChannelsById!Next
      BY <1>2, <1>4, <3>1, Contents, RemoveIsStep
    <3> QED BY <3>1, <3>2
  <2>2. CASE current \notin In(channels)
    <3>1. In(channels) = {}
      BY <1>4, <2>2 DEF IInv, PhaseOK
    <3>2. channels' = channels
      BY <1>1, <1>3, <3>1, MapRemoveNone
    <3> QED BY <1>3, <3>1, <3>2
  <2> QED BY <2>1, <2>2
<1>6. refreed' \subseteq refreed \cup Misread
  BY <1>1, <1>4
<1>7. \A e : e # current /\ Usable(e) => Usable(e)'
  BY <1>1 DEF Usable, ChannelMemory, Misread
<1>8. ListsOK'
  BY <1>1, <1>2, <1>5 DEF IInv, ListsOK
<1>9. PhaseOK' /\ CurrentOK' /\ LoginOK'
  <2>1. PhaseOK' /\ CurrentOK'
    BY <1>1, <1>2, <1>5 DEF IInv, PhaseOK, CurrentOK
  <2>2. LoginOK'
    BY <1>1 DEF IInv, LoginOK, ChannelMemory
  <2> QED BY <2>1, <2>2
<1>10. MemoryOK'
  <2>1. memory' \subseteq Program \cup Logins \cup ({"id", "channel", "name"} \X Joined')
    BY <1>1, <1>2 DEF IInv, MemoryOK
  <2>2. \A e \in In(channels') : Usable(e)' /\ joins'[e].session = logins'
    BY <1>1, <1>5, <1>7 DEF IInv, MemoryOK
  <2>3. \A e \in In(g_channel_map') : Usable(e)'
    BY <1>1, <1>4, <1>7 DEF IInv, MemoryOK
  <2> QED BY <2>1, <2>2, <2>3 DEF MemoryOK
<1>11. FreedOK'
  <2>1. \A p \in refreed : IdFreed(p)'
    BY <1>1, <1>2 DEF IInv, FreedOK, IdFreed
  <2>2. \A p \in Misread : IdFreed(p)'
    BY <1>1, <1>2 DEF IInv, PhaseOK, IdFreed, Misread
  <2> QED BY <1>6, <2>1, <2>2 DEF FreedOK
<1>12. LeaksOK'
  <2> SUFFICES ASSUME connected', NEW i \in Joined', <<"channel", i>> \in memory'
               PROVE  joins'[i].session < logins' \/ joins'[i].got = "no element" \/ i \in In(channels')
    BY DEF LeaksOK
  <2>1. <<"channel", i>> \in memory /\ i # current
    BY <1>1 DEF ChannelMemory
  <2> QED BY <1>1, <1>2, <1>5, <2>1 DEF IInv, LeaksOK
<1>13. StaleOK'
  BY <1>1, <1>4, <1>5 DEF IInv, StaleOK
<1> QED BY <1>1, <1>2, <1>5, <1>8, <1>9, <1>10, <1>11, <1>12, <1>13 DEF Step, IInv

(* What a clear leaves. *)
LEMMA SessionCleared ==
    ASSUME IInv, channels' = sgs_map_clear(channels, IdOf), UNCHANGED <<joins, logins>>
    PROVE  /\ IsList(channels') /\ Differ(channels', IdOf) /\ In(channels') = {}
           /\ ChannelsById!Next
<1>1. channels' = EmptyMap
  BY MapClear DEF IInv, ListsOK
<1>2. AsMap(channels, IdOf)' = <<>>
  BY <1>1, EmptyMaps, SameJoins
<1> QED BY <1>1, <1>2, MapEmpty, EmptyMaps DEF ChannelsById!Next, ChannelsById!Clear

LEMMA NamesCleared ==
    ASSUME IInv, g_channel_map' = sgs_map_clear(g_channel_map, NameOf), UNCHANGED <<joins, logins>>
    PROVE  /\ IsList(g_channel_map') /\ Differ(g_channel_map', NameOf) /\ In(g_channel_map') = {}
           /\ ChannelsByName!Next
<1>1. g_channel_map' = EmptyMap
  BY MapClear DEF IInv, ListsOK
<1>2. AsMap(g_channel_map, NameOf)' = <<>>
  BY <1>1, EmptyMaps, SameJoins
<1> QED BY <1>1, <1>2, MapEmpty, EmptyMaps DEF ChannelsByName!Next, ChannelsByName!Clear

LEMMA DisconnectedStep == ASSUME IInv, Disconnected PROVE Step
<1>1. /\ pc = "app" /\ connected
      /\ channels' = sgs_map_clear(channels, IdOf)
      /\ connected' = FALSE /\ g_session' \in {FALSE, g_session}
      /\ UNCHANGED <<memory, refreed, joins, g_channel_map, logins, login, password, misread, pc,
                     current>>
  BY DEF Disconnected, sgs_session_channel_clear, mem
<1>2. /\ JoinsOK' /\ Joined' = Joined /\ IdOf' = IdOf /\ NameOf' = NameOf
      /\ AsMap(g_channel_map, NameOf)' = AsMap(g_channel_map', NameOf)
  BY <1>1, SameJoins
<1>3. /\ IsList(channels') /\ Differ(channels', IdOf) /\ In(channels') = {}
      /\ ChannelsById!Next
  BY <1>1, SessionCleared
<1>4. ListsOK' /\ PhaseOK' /\ CurrentOK' /\ LoginOK'
  <2>1. ListsOK'
    BY <1>1, <1>2, <1>3 DEF IInv, ListsOK
  <2>2. PhaseOK'
    BY <1>1, <1>2, <1>3 DEF IInv, PhaseOK
  <2>3. CurrentOK' /\ LoginOK'
    BY <1>1, <1>2 DEF IInv, CurrentOK, LoginOK
  <2> QED BY <2>1, <2>2, <2>3
<1>5. MemoryOK'
  BY <1>1, <1>2, <1>3 DEF IInv, MemoryOK, Usable, Misread
<1>6. FreedOK' /\ LeaksOK' /\ StaleOK'
  <2>1. FreedOK'
    BY <1>1, <1>2 DEF IInv, FreedOK, IdFreed
  <2>2. LeaksOK' /\ StaleOK'
    BY <1>1, <1>2 DEF IInv, LeaksOK, StaleOK
  <2> QED BY <2>1, <2>2
<1> QED BY <1>1, <1>2, <1>3, <1>4, <1>5, <1>6 DEF Step, IInv

LEMMA doLogoutStep ==
    ASSUME IInv, NEW force \in BOOLEAN, doLogout(force)
    PROVE  Step
<1>1. /\ pc = "app" \/ (pc = "left" /\ force)
      /\ g_session' = FALSE
      /\ g_channel_map' = sgs_map_clear(g_channel_map, NameOf)
      /\ UNCHANGED <<memory, refreed, joins, logins, login, password, misread, pc, current>>
  BY DEF doLogout, sgs_session_channel_clear, mem
<1>2. /\ JoinsOK' /\ Joined' = Joined /\ IdOf' = IdOf /\ NameOf' = NameOf
      /\ AsMap(channels, IdOf)' = AsMap(channels', IdOf)
  BY <1>1, SameJoins
<1>3. /\ IsList(g_channel_map') /\ Differ(g_channel_map', NameOf) /\ In(g_channel_map') = {}
      /\ ChannelsByName!Next
  BY <1>1, NamesCleared
<1>4. /\ IsList(channels') /\ Differ(channels', IdOf) /\ In(channels') \subseteq In(channels)
      /\ \/ channels' = channels /\ connected' = connected
         \/ In(channels') = {} /\ connected' = FALSE
      /\ AsMap(channels', IdOf) = AsMap(channels, IdOf) \/ ChannelsById!Next
  <2>1. CASE force
    <3>1. channels' = sgs_map_clear(channels, IdOf) /\ connected' = FALSE
      BY <2>1 DEF doLogout, sgs_session_channel_clear
    <3>2. /\ IsList(channels') /\ Differ(channels', IdOf) /\ In(channels') = {}
          /\ ChannelsById!Next
      BY <1>1, <3>1, SessionCleared
    <3> QED BY <3>1, <3>2
  <2>2. CASE ~force
    <3>1. channels' = channels /\ connected' = connected
      BY <2>2 DEF doLogout
    <3> QED BY <3>1 DEF IInv, ListsOK
  <2> QED BY <2>1, <2>2
<1>5. ListsOK'
  BY <1>1, <1>2, <1>3, <1>4 DEF IInv, ListsOK
<1>6. PhaseOK'
  <2>1. connected' \in BOOLEAN /\ g_session' \in BOOLEAN
    BY <1>1, <1>4 DEF IInv, PhaseOK
  <2>2. connected' => connected
    BY <1>4
  <2>3. ~connected' => In(channels') = {}
    BY <1>4 DEF IInv, PhaseOK
  <2> QED BY <1>1, <1>2, <2>1, <2>2, <2>3 DEF IInv, PhaseOK
<1>7. CurrentOK' /\ LoginOK'
  <2>1. CurrentOK'
    BY <1>1, <1>2, <1>3, <1>4 DEF IInv, CurrentOK, Usable, Misread
  <2>2. LoginOK'
    BY <1>1 DEF IInv, LoginOK
  <2> QED BY <2>1, <2>2
<1>8. MemoryOK'
  BY <1>1, <1>2, <1>3, <1>4 DEF IInv, MemoryOK, Usable, Misread
<1>9. FreedOK' /\ LeaksOK' /\ StaleOK'
  <2>1. FreedOK'
    BY <1>1, <1>2 DEF IInv, FreedOK, IdFreed
  <2>2. LeaksOK'
    BY <1>1, <1>2, <1>4 DEF IInv, LeaksOK
  <2>3. StaleOK'
    BY <1>3 DEF StaleOK
  <2> QED BY <2>1, <2>2, <2>3
<1> QED BY <1>1, <1>2, <1>3, <1>4, <1>5, <1>6, <1>7, <1>8, <1>9 DEF Step, IInv

LEMMA byeStep == ASSUME IInv, bye PROVE Step
<1>1. /\ pc = "app" /\ pc' = "exited"
      /\ channels' = sgs_map_clear(channels, IdOf)
      /\ g_channel_map' = sgs_map_clear(g_channel_map, NameOf)
      /\ UNCHANGED <<joins, connected, g_session, logins, login, password, misread, current>>
  BY DEF bye, phase
<1>2. PICK freed \in SUBSET Stored :
         /\ \A p \in freed : p[2] # NULL
         /\ memory' = memory \ (Program \cup freed)
         /\ refreed' = refreed \cup {<<"context", 0>>} \cup (freed \ memory)
  BY DEF bye
<1>3. /\ JoinsOK' /\ Joined' = Joined /\ IdOf' = IdOf /\ NameOf' = NameOf
  BY <1>1, SameJoins
<1>4. /\ IsList(channels') /\ Differ(channels', IdOf) /\ In(channels') = {}
      /\ ChannelsById!Next
  BY <1>1, SessionCleared
<1>5. /\ IsList(g_channel_map') /\ Differ(g_channel_map', NameOf) /\ In(g_channel_map') = {}
      /\ ChannelsByName!Next
  BY <1>1, NamesCleared
<1>6. ListsOK'
  BY <1>3, <1>4, <1>5 DEF ListsOK
<1>7. PhaseOK' /\ CurrentOK' /\ LoginOK'
  BY <1>1, <1>3, <1>4 DEF IInv, PhaseOK, CurrentOK, LoginOK
<1>8. MemoryOK'
  BY <1>2, <1>3, <1>4, <1>5 DEF IInv, MemoryOK
<1>9. FreedOK'
  <2>1. \A p \in refreed : IdFreed(p)'
    BY <1>1, <1>3 DEF IInv, FreedOK, IdFreed
  <2>2. ASSUME NEW p \in freed \ memory PROVE ExitFrees(p)
    <3>1. p \in Stored /\ p \notin memory /\ p[2] # NULL
      BY <1>2
    <3>2. /\ login \in -1 .. MaxLogins /\ password \in -1 .. MaxLogins
          /\ login > 0 /\ password # NULL => <<"login", login>> \in memory
          /\ password > 0 => <<"password", password>> \in memory
      BY <1>1 DEF IInv, LoginOK, Uninitialised
    <3>3. MaxLogins \in Nat
      BY ChannelsAssumption
    <3>4. CASE p = <<"login", login>>
      <4>1. login # 0 /\ (login > 0 => password = NULL)
        BY <3>1, <3>2, <3>4 DEF NULL
      <4>2. login = -1 \/ login > 0
        BY <3>2, <3>3, <4>1
      <4> QED BY <3>4, <4>1, <4>2 DEF ExitFrees, Uninitialised
    <3>5. CASE p = <<"password", password>>
      <4>1. password # 0 /\ ~(password > 0)
        BY <3>1, <3>2, <3>5 DEF NULL
      <4>2. password = -1
        BY <3>2, <3>3, <4>1
      <4> QED BY <3>5, <4>2 DEF ExitFrees, Uninitialised
    <3> QED BY <3>1, <3>4, <3>5 DEF Stored
  <2>3. \A p \in refreed' \ refreed : ExitFrees(p)
    BY <1>2, <2>2 DEF ExitFrees
  <2>4. \A p : ExitFrees(p) => ExitFrees(p)'
    BY <1>1 DEF ExitFrees
  <2> QED BY <1>1, <2>1, <2>3, <2>4 DEF FreedOK
<1>10. LeaksOK' /\ StaleOK'
  BY <1>1, <1>5 DEF LeaksOK, StaleOK
<1> QED BY <1>3, <1>4, <1>5, <1>6, <1>7, <1>8, <1>9, <1>10 DEF Step, IInv

LEMMA NextStep == ASSUME IInv, [Next]_vars PROVE Step
<1>1. CASE Next
  BY <1>1, NewLoginStep, FailedJoinStep, ChannelJoinStep, ChannelLeaveStep, LeaveUnreadStep,
     ChannelLeftStep, UndefinedStep, DisconnectedStep, doLogoutStep, byeStep DEF Next
<1>2. CASE UNCHANGED vars
  <2>1. UNCHANGED <<memory, refreed, joins, channels, g_channel_map, connected, g_session,
                    logins, login, password, misread, pc, current>>
    BY <1>2 DEF vars, mem, maps, phase
  <2>2. /\ JoinsOK' /\ Joined' = Joined /\ IdOf' = IdOf /\ NameOf' = NameOf
    BY <2>1, SameJoins
  <2>3. ListsOK' /\ PhaseOK' /\ CurrentOK' /\ LoginOK' /\ MemoryOK'
    BY <2>1, <2>2 DEF IInv, ListsOK, PhaseOK, CurrentOK, LoginOK, MemoryOK, Usable, Misread
  <2>4. FreedOK' /\ LeaksOK' /\ StaleOK'
    BY <2>1, <2>2 DEF IInv, FreedOK, IdFreed, ExitFrees, LeaksOK, StaleOK
  <2> QED BY <2>1, <2>2, <2>3, <2>4 DEF Step, IInv
<1> QED BY <1>1, <1>2

LEMMA Invariance == Spec => []IInv
<1>1. IInv /\ [Next]_vars => IInv'
  BY NextStep DEF Step
<1> QED BY InitIInv, <1>1, PTL DEF Spec

-----------------------------------------------------------------------------
(***************************************************************************)
(* What the state can hold; above all that the elements of either list that *)
(* are allocated are those that can be reached from its head, each once.    *)
(***************************************************************************)
THEOREM TypeCorrect == Spec => []TypeOK
<1>1. IInv => TypeOK
  <2> SUFFICES ASSUME IInv PROVE TypeOK
    OBVIOUS
  <2>1. Joined \subseteq Numbers
    BY Contents
  <2>2. ListOK(channels) /\ ListOK(g_channel_map)
    BY <2>1, MapType DEF IInv, ListsOK
  <2>3. joins \in Seq([id : Ids, name : Names, session : 1 .. MaxLogins,
                       got : {"all", "no name", "no element"}]) /\ Len(joins) <= MaxJoins
    BY DEF IInv, JoinsOK, Channel
  <2>4. memory \subseteq Pointers \cup Logins
    BY <2>1 DEF IInv, MemoryOK, Pointers
  <2>5. refreed \subseteq Pointers \cup ({"login", "password"} \X (Uninitialised .. MaxLogins))
    <3>1. \A n \in Joined : <<"id", n>> \in Pointers
      BY <2>1 DEF Pointers
    <3>2. <<"context", 0>> \in Pointers
      BY DEF Pointers, Program
    <3>3. /\ <<"login", login>> \in {"login", "password"} \X (Uninitialised .. MaxLogins)
          /\ <<"password", password>> \in {"login", "password"} \X (Uninitialised .. MaxLogins)
      BY DEF IInv, LoginOK
    <3>4. \A p : IdFreed(p) => p \in Pointers
      BY <3>1 DEF IdFreed
    <3>5. \A p : ExitFrees(p) => p \in Pointers \cup ({"login", "password"} \X (Uninitialised .. MaxLogins))
      BY <3>2, <3>3 DEF ExitFrees
    <3> QED BY <3>4, <3>5 DEF IInv, FreedOK
  <2>6. current \in {0} \cup Numbers
    BY <2>1 DEF IInv, CurrentOK
  <2>7. misread \subseteq DOMAIN joins
    BY Contents DEF IInv, PhaseOK
  <2> QED BY <2>2, <2>3, <2>4, <2>5, <2>6, <2>7 DEF TypeOK, IInv, PhaseOK, LoginOK, Logins
<1> QED BY Invariance, <1>1, PTL

(***************************************************************************)
(* No element of the session's list or of the application's points to freed *)
(* memory, over any number of disconnects and new sessions, and             *)
(* channel_left_cb never outlives the channel it was called for.            *)
(***************************************************************************)
THEOREM NothingDangles == Spec => []NoDanglingChannel
<1>1. IInv => NoDanglingChannel
  <2> SUFFICES ASSUME IInv PROVE NoDanglingChannel
    OBVIOUS
  <2>1. /\ \A e \in In(channels) : channels.elt[e].key = e /\ channels.elt[e].value = e /\ Usable(e)
        /\ \A e \in In(g_channel_map) :
              g_channel_map.elt[e].key = e /\ g_channel_map.elt[e].value = e /\ Usable(e)
    BY MapElements DEF IInv, ListsOK, MemoryOK
  <2>2. pc = "left" => Usable(current)
    BY DEF IInv, CurrentOK
  <2> QED BY <2>1, <2>2 DEF NoDanglingChannel, In
<1> QED BY Invariance, <1>1, PTL

(* What is freed twice is only what the comment on FreedOnce names. *)
THEOREM FreedOnlyOnce == Spec => []FreedOnce
<1>1. IInv => FreedOnce
  <2> SUFFICES ASSUME IInv, NEW p \in refreed
               PROVE  \/ p[1] = "id" /\ (joins[p[2]].got = "no name" \/ p[2] \in misread)
                      \/ /\ pc = "exited"
                         /\ \/ p[1] = "context"
                            \/ p \in Stored /\ p[2] = Uninitialised
                            \/ p = <<"login", login>> /\ password = NULL
    BY DEF FreedOnce
  <2>1. CASE IdFreed(p)
    <3>1. PICK n \in Joined : p = <<"id", n>> /\ (joins[n].got = "no name" \/ n \in misread)
      BY <2>1 DEF IdFreed
    <3>2. p[1] = "id" /\ p[2] = n
      BY <3>1
    <3> QED BY <3>1, <3>2
  <2>2. CASE pc = "exited" /\ ExitFrees(p)
    <3>1. CASE p = <<"context", 0>>
      BY <2>2, <3>1
    <3>2. CASE p = <<"login", login>> /\ (login = Uninitialised \/ password = NULL)
      BY <2>2, <3>2 DEF Stored
    <3>3. CASE p = <<"password", password>> /\ password = Uninitialised
      BY <2>2, <3>3 DEF Stored
    <3> QED BY <2>2, <3>1, <3>2, <3>3 DEF ExitFrees
  <2> QED BY <2>1, <2>2 DEF IInv, FreedOK
<1> QED BY Invariance, <1>1, PTL

(***************************************************************************)
(* A channel whose memory is kept while the connection lasts is one of an   *)
(* earlier session, one the list had no element for, or in the list.        *)
(***************************************************************************)
THEOREM LeakOnlyWithSession == Spec => []OnlyEndedSessionsLeak
<1>1. IInv => OnlyEndedSessionsLeak
  <2> SUFFICES ASSUME IInv, connected, pc # "exited", NEW n \in Numbers, <<"channel", n>> \in memory
               PROVE  \/ joins[n].session < logins
                      \/ joins[n].got = "no element"
                      \/ \E e \in DOMAIN channels.elt : channels.elt[e].value = n
    BY DEF OnlyEndedSessionsLeak
  <2>1. n \in Joined
    BY DEF IInv, MemoryOK, Program, Logins
  <2>2. joins[n].session < logins \/ joins[n].got = "no element" \/ n \in In(channels)
    BY <2>1 DEF IInv, LeaksOK
  <2>3. \A e \in In(channels) : channels.elt[e].value = e
    BY MapElements DEF IInv, ListsOK
  <2> QED BY <2>2, <2>3 DEF In
<1> QED BY Invariance, <1>1, PTL

(* The application never looks up a channel that left in this very session. *)
THEOREM StaleOnlyAcrossSessions == Spec => []StaleOnlyFromEndedSession
<1>1. IInv => StaleOnlyFromEndedSession
  <2> SUFFICES ASSUME IInv PROVE StaleOnlyFromEndedSession
    OBVIOUS
  <2>1. \A e \in In(g_channel_map) : g_channel_map.elt[e].value = e
    BY MapElements DEF IInv, ListsOK
  <2>2. \A e \in In(channels) : channels.elt[e].value = e
    BY MapElements DEF IInv, ListsOK
  <2> QED BY <2>1, <2>2 DEF StaleOnlyFromEndedSession, In, IInv, StaleOK
<1> QED BY Invariance, <1>1, PTL

(***************************************************************************)
(* linked_map.c keeps what map.h promises: read through AsMap, every step   *)
(* of the program puts, removes or clears what SgsMap does, or leaves the   *)
(* map alone; the session's by id and the application's by name.            *)
(***************************************************************************)
THEOREM MapsImplemented == Spec => ImplementsMaps
<1>1. Init => ChannelsById!Init /\ ChannelsByName!Init
  BY InitIInv
<1>2. IInv /\ [Next]_vars => [ChannelsById!Next]_(AsMap(channels, IdOf))
  BY NextStep DEF Step
<1>3. IInv /\ [Next]_vars => [ChannelsByName!Next]_(AsMap(g_channel_map, NameOf))
  BY NextStep DEF Step
<1> QED BY Invariance, <1>1, <1>2, <1>3, PTL DEF Spec, ImplementsMaps, ChannelsById!Spec, ChannelsByName!Spec

=============================================================================
