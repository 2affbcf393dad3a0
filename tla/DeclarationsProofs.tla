------------------------- MODULE DeclarationsProofs -------------------------
(***************************************************************************)
(* Theorems about declarations and the types that are made for them, for   *)
(* any names, any sizes of arrays, any tokens and any number of            *)
(* specifiers, types, parameters and members.                              *)
(*                                                                         *)
(* The argument has three invariants, each resting on the one before.      *)
(* Typed: the context is Sound, which is that its maps and its types agree *)
(* (Kept, Leads) and that a type is made of types made before it           *)
(* (WellFounded), and everything that refers to a type refers to one that  *)
(* was made.  Listed: what the counts of the specifiers say of their list. *)
(* Meant: the types that declarations, parameters and members have are     *)
(* those that C gives them.                                                *)
(*                                                                         *)
(* What a constructor does to a context is stated first, without the state *)
(* machine (Interned, CreateStruct, SetName), then what the actions do.    *)
(* Structure and Contained are recursive functions: what they compute is   *)
(* established with the least number for which it might fail.              *)
(***************************************************************************)
EXTENDS Declarations, FiniteSetTheorems, SequenceTheorems, WellFoundedInduction, TLAPS

Fields == {"tys", "functionTypes", "arrayTypes", "pointerTypes", "namedStructTypes"}
Sequence(s) == Len(s) \in Nat /\ s = [i \in 1..Len(s) |-> s[i]]
Shape(c) ==
    /\ c = [k \in Fields |-> c[k]]
    /\ Sequence(c.tys)
    /\ Len(Primitives) <= Len(c.tys)

Made(c) == (Len(Primitives) + 1)..Newest(c)

\* The map of names and the structures, as NamesMatch has it, and that the map
\* leads to types that were made.
Named(c) ==
    /\ \A name \in DOMAIN c.namedStructTypes :
          /\ c.namedStructTypes[name] \in Made(c)
          /\ c.tys[c.namedStructTypes[name]].name = name
    /\ \A t \in Made(c) :
          c.tys[t].name # Unnamed =>
              /\ c.tys[t].name \in DOMAIN c.namedStructTypes
              /\ c.namedStructTypes[c.tys[t].name] = t

\* Every type is found under the key its parts make.
Found(c, map, key, t) == key \in DOMAIN c[map] /\ c[map][key] = t
Keyed(c, t) ==
    LET r == c.tys[t]
    IN  \/ r.kind = "pointer"  /\ Found(c, "pointerTypes", r.subs, t)
        \/ r.kind = "array"    /\ Found(c, "arrayTypes", <<r.subs[1], r.num>>, t)
        \/ r.kind = "function" /\ Found(c, "functionTypes",
                                        <<Head(r.subs), Tail(r.subs)>>, t)
        \/ r.kind = "struct"

\* The serial numbers of structures differ.
Structs(c) == {t \in 1..Newest(c) : Kind(c, t) = "struct"}
Numbered(c) ==
    /\ \A t \in Structs(c) : c.tys[t].num \in 1..Cardinality(Structs(c))
    /\ \A t, u \in Structs(c) : c.tys[t].num = c.tys[u].num => t = u

Kept(c) ==
    /\ Shape(c)
    /\ Named(c)
    /\ \A t \in Made(c) : Keyed(c, t)
    /\ Numbered(c)

-----------------------------------------------------------------------------
(* Allocation.                                                             *)

LEMMA SequenceOf ==
    ASSUME NEW s, Sequence(s), NEW e
    PROVE  /\ Sequence(Append(s, e))
           /\ Len(Append(s, e)) = Len(s) + 1
           /\ \A i \in 1..Len(s) : Append(s, e)[i] = s[i]
           /\ Append(s, e)[Len(s) + 1] = e
<1> DEFINE S == {s[i] : i \in 1..Len(s)} \cup {e}
<1>1. s \in Seq(S) /\ Len(s) \in Nat
  BY DEF Sequence
<1>2. e \in S
  OBVIOUS
<1>3. /\ Append(s, e) \in Seq(S)
      /\ Len(Append(s, e)) = Len(s) + 1
      /\ \A i \in 1..Len(s) : Append(s, e)[i] = s[i]
      /\ Append(s, e)[Len(s) + 1] = e
  BY <1>1, <1>2, AppendProperties
<1>4. Append(s, e) = [i \in 1..Len(Append(s, e)) |-> Append(s, e)[i]]
  BY <1>3, LenProperties
<1> QED BY <1>1, <1>3, <1>4 DEF Sequence

\* Alloc leaves the maps and the types there are, and adds one.
LEMMA Allocated ==
    ASSUME NEW c, NEW rec, Shape(c)
    PROVE  /\ Shape(Alloc(c, rec))
           /\ Newest(Alloc(c, rec)) = Newest(c) + 1
           /\ \A t \in 1..Newest(c) : Alloc(c, rec).tys[t] = c.tys[t]
           /\ Alloc(c, rec).tys[Newest(c) + 1] = rec
           /\ \A k \in Fields \ {"tys"} : Alloc(c, rec)[k] = c[k]
<1>1. Alloc(c, rec) = [k \in Fields |-> IF k = "tys" THEN Append(c.tys, rec) ELSE c[k]]
  BY DEF Alloc, Shape, Fields
<1>2. Alloc(c, rec).tys = Append(c.tys, rec)
  BY <1>1 DEF Fields
<1>3. \A k \in Fields \ {"tys"} : Alloc(c, rec)[k] = c[k]
  BY <1>1
<1>4. /\ Sequence(Append(c.tys, rec))
      /\ Len(Append(c.tys, rec)) = Len(c.tys) + 1
      /\ \A i \in 1..Len(c.tys) : Append(c.tys, rec)[i] = c.tys[i]
      /\ Append(c.tys, rec)[Len(c.tys) + 1] = rec
  BY SequenceOf DEF Shape
<1>5. Len(Primitives) \in Nat /\ Len(c.tys) \in Nat
  BY DEF Primitives, Shape, Sequence
<1>6. Alloc(c, rec) = [k \in Fields |-> Alloc(c, rec)[k]]
  BY <1>1
<1>7. Shape(Alloc(c, rec))
  <2>1. Sequence(Alloc(c, rec).tys)
    BY <1>2, <1>4
  <2>2. Len(Primitives) <= Len(c.tys)
    BY DEF Shape
  <2>3. Len(Primitives) <= Len(Alloc(c, rec).tys)
    BY <1>2, <1>4, <1>5, <2>2
  <2> QED BY <1>6, <2>1, <2>3 DEF Shape
<1> QED BY <1>2, <1>3, <1>4, <1>7 DEF Newest

-----------------------------------------------------------------------------
(* The constructors that look a type up first.                             *)

\* What get does when the key is not in the map.
Entered(c, map, key, rec) ==
    [Alloc(c, rec) EXCEPT ![map] = Insert(@, key, Newest(c) + 1)]

LEMMA EnteredShape ==
    ASSUME NEW c, Shape(c), NEW map \in Fields \ {"tys", "namedStructTypes"},
           NEW key, key \notin DOMAIN c[map], NEW rec
    PROVE  LET d == Entered(c, map, key, rec)
           IN  /\ Shape(d)
               /\ Newest(d) = Newest(c) + 1
               /\ Newest(c) \in Nat
               /\ \A t \in 1..Newest(c) : d.tys[t] = c.tys[t]
               /\ d.tys[Newest(c) + 1] = rec
               /\ Found(d, map, key, Newest(c) + 1)
               /\ \A k, t : Found(c, map, k, t) => Found(d, map, k, t)
               /\ \A other \in Fields \ {"tys", map} : d[other] = c[other]
<1> DEFINE a == Alloc(c, rec)
           m == Insert(c[map], key, Newest(c) + 1)
           d == Entered(c, map, key, rec)
<1>1. /\ Shape(a)
      /\ Newest(a) = Newest(c) + 1
      /\ \A t \in 1..Newest(c) : a.tys[t] = c.tys[t]
      /\ a.tys[Newest(c) + 1] = rec
      /\ \A k \in Fields \ {"tys"} : a[k] = c[k]
  BY Allocated
<1>2. a = [k \in Fields |-> a[k]]
  BY <1>1 DEF Shape
<1>3. d = [k \in Fields |-> IF k = map THEN m ELSE a[k]]
  <2>1. d = [a EXCEPT ![map] = Insert(a[map], key, Newest(c) + 1)]
    BY DEF Entered
  <2>2. a[map] = c[map]
    BY <1>1
  <2> HIDE DEF a, d
  <2>3. d = [a EXCEPT ![map] = m]
    BY <2>1, <2>2
  <2> QED BY <1>2, <2>3
<1>4. "tys" \in Fields /\ map # "tys"
  BY DEF Fields
<1> HIDE DEF a, d
<1>5. d.tys = a.tys /\ d[map] = m
  BY <1>3, <1>4
<1>6. Shape(d)
  <2>1. d = [k \in Fields |-> d[k]]
    BY <1>3
  <2> QED BY <1>1, <1>5, <2>1 DEF Shape
<1>7. \A other \in Fields \ {"tys", map} : d[other] = c[other]
  BY <1>1, <1>3
<1>8. /\ DOMAIN m = DOMAIN c[map] \cup {key}
      /\ m[key] = Newest(c) + 1
      /\ \A k \in DOMAIN c[map] : m[k] = c[map][k]
  BY DEF Insert
<1>9. /\ Found(d, map, key, Newest(c) + 1)
      /\ \A k, t : Found(c, map, k, t) => Found(d, map, k, t)
  <2> HIDE DEF m
  <2> QED BY <1>5, <1>8 DEF Found
<1>10. Newest(c) \in Nat
  BY DEF Shape, Sequence, Newest
<1> QED BY <1>1, <1>5, <1>6, <1>7, <1>9, <1>10 DEF Newest, d

Maps == {"functionTypes", "arrayTypes", "pointerTypes"}

\* The key of a type is made of its parts.
KeyOf(map, key, rec) ==
    \/ rec.kind = "pointer"  /\ map = "pointerTypes"  /\ key = rec.subs
    \/ rec.kind = "array"    /\ map = "arrayTypes"    /\ key = <<rec.subs[1], rec.num>>
    \/ rec.kind = "function" /\ map = "functionTypes"
                             /\ key = <<Head(rec.subs), Tail(rec.subs)>>

\* Types that were there stay under their keys when the maps only grow.
LEMMA KeyedStays ==
    ASSUME NEW c, NEW d, NEW t, d.tys[t] = c.tys[t], Keyed(c, t),
           \A map \in Maps : \A k : Found(c, map, k, t) => Found(d, map, k, t)
    PROVE  Keyed(d, t)
<1>1. "pointerTypes" \in Maps /\ "arrayTypes" \in Maps /\ "functionTypes" \in Maps
  BY DEF Maps
<1> QED BY <1>1 DEF Keyed

\* Names stay right when the new type has none.
LEMMA NamedStays ==
    ASSUME NEW c, NEW d, Named(c), Shape(c), Newest(d) = Newest(c) + 1,
           \A t \in 1..Newest(c) : d.tys[t] = c.tys[t],
           d.tys[Newest(c) + 1].name = Unnamed,
           d.namedStructTypes = c.namedStructTypes
    PROVE  Named(d)
<1>1. Newest(c) \in Nat /\ Len(Primitives) \in Nat
  BY DEF Shape, Sequence, Newest, Primitives
<1>2. Made(d) = Made(c) \cup {Newest(c) + 1}
  BY <1>1 DEF Made, Shape, Newest
<1>3. \A t \in Made(c) : t \in 1..Newest(c)
  BY <1>1 DEF Made
<1> HIDE DEF Newest, Made
<1> QED BY <1>2, <1>3 DEF Named

\* Structures are numbered as before when the new type is none.
LEMMA NumberedStays ==
    ASSUME NEW c, NEW d, Numbered(c), Newest(c) \in Nat,
           Newest(d) = Newest(c) + 1,
           \A t \in 1..Newest(c) : d.tys[t] = c.tys[t],
           d.tys[Newest(c) + 1].kind # "struct"
    PROVE  Numbered(d)
<1>1. 1..Newest(d) = (1..Newest(c)) \cup {Newest(c) + 1}
  OBVIOUS
<1>2. Structs(d) = Structs(c)
  BY <1>1 DEF Structs, Kind
<1>3. \A t \in Structs(c) : d.tys[t] = c.tys[t]
  BY DEF Structs
<1> QED BY <1>2, <1>3 DEF Numbered

\* A constructor that looks its type up first keeps the context in order.
LEMMA InternedKeeps ==
    ASSUME NEW c, Kept(c), NEW map \in Maps, NEW key, NEW rec,
           rec.name = Unnamed, rec.kind # "struct", KeyOf(map, key, rec)
    PROVE  Kept(Interned(c, map, key, rec).c)
<1>1. CASE key \in DOMAIN c[map]
  BY <1>1 DEF Interned, Result
<1>2. CASE key \notin DOMAIN c[map]
  <2> DEFINE d == Entered(c, map, key, rec)
  <2>1. Interned(c, map, key, rec).c = d
    BY <1>2 DEF Interned, Result, Entered
  <2>2. map \in Fields \ {"tys", "namedStructTypes"}
    BY DEF Maps, Fields
  <2>3. Shape(c) /\ Named(c) /\ Numbered(c)
    BY DEF Kept
  <2>4. /\ Shape(d)
        /\ Newest(d) = Newest(c) + 1
        /\ Newest(c) \in Nat
        /\ \A t \in 1..Newest(c) : d.tys[t] = c.tys[t]
        /\ d.tys[Newest(c) + 1] = rec
        /\ Found(d, map, key, Newest(c) + 1)
        /\ \A k, t : Found(c, map, k, t) => Found(d, map, k, t)
        /\ \A other \in Fields \ {"tys", map} : d[other] = c[other]
    BY <1>2, <2>2, <2>3, EnteredShape
  <2> HIDE DEF d
  <2>5. d.namedStructTypes = c.namedStructTypes
    BY <2>2, <2>4 DEF Fields
  <2>6. Named(d)
    BY <2>3, <2>4, <2>5, NamedStays
  <2>7. Numbered(d)
    BY <2>3, <2>4, NumberedStays
  <2>8. \A other \in Maps : \A k, t : Found(c, other, k, t) => Found(d, other, k, t)
    <3> TAKE other \in Maps
    <3>1. CASE other = map
      BY <2>4, <3>1
    <3>2. CASE other # map
      BY <2>4, <3>2 DEF Found, Maps, Fields
    <3> QED BY <3>1, <3>2
  <2>9. \A t \in Made(d) : Keyed(d, t)
    <3> TAKE t \in Made(d)
    <3>1. CASE t \in Made(c)
      <4>1. t \in 1..Newest(c)
        BY <2>4, <3>1 DEF Made, Primitives
      <4>2. d.tys[t] = c.tys[t] /\ Keyed(c, t)
        BY <2>4, <3>1, <4>1 DEF Kept
      <4> QED BY <2>8, <4>2, KeyedStays
    <3>2. CASE t = Newest(c) + 1
      <4>1. d.tys[t] = rec /\ Found(d, map, key, t)
        BY <2>4, <3>2
      <4> QED BY <4>1 DEF KeyOf, Keyed
    <3> QED BY <2>4, <3>1, <3>2 DEF Made, Primitives
  <2> QED BY <2>1, <2>4, <2>6, <2>7, <2>9 DEF Kept
<1> QED BY <1>1, <1>2

-----------------------------------------------------------------------------
(* Structures.                                                             *)

\* A structure gets a number no other has.
LEMMA NumberedGrows ==
    ASSUME NEW c, NEW d, Numbered(c), Newest(c) \in Nat,
           Newest(d) = Newest(c) + 1,
           \A t \in 1..Newest(c) : d.tys[t] = c.tys[t],
           d.tys[Newest(c) + 1].kind = "struct",
           d.tys[Newest(c) + 1].num = Cardinality(Structs(c)) + 1
    PROVE  Numbered(d)
<1> DEFINE n == Newest(c) + 1
           k == Cardinality(Structs(c))
<1>1. 1..Newest(d) = (1..Newest(c)) \cup {n}
  OBVIOUS
<1>2. Structs(d) = Structs(c) \cup {n}
  BY <1>1 DEF Structs, Kind
<1>3. n \notin Structs(c)
  BY DEF Structs
<1>4. /\ k \in Nat
      /\ Cardinality(Structs(d)) = k + 1
  <2>1. IsFiniteSet(1..Newest(c)) /\ Structs(c) \in SUBSET (1..Newest(c))
    BY FS_Interval DEF Structs
  <2>2. IsFiniteSet(Structs(c))
    BY <2>1, FS_Subset
  <2> QED BY <1>2, <1>3, <2>2, FS_CardinalityType, FS_AddElement
<1>5. \A t \in Structs(c) : d.tys[t].num = c.tys[t].num /\ c.tys[t].num \in 1..k
  BY DEF Structs, Numbered
<1>6. d.tys[n].num = k + 1
  OBVIOUS
<1> HIDE DEF n, k
<1>7. \A t \in Structs(d) : d.tys[t].num \in 1..k + 1
  BY <1>2, <1>4, <1>5, <1>6
<1>8. \A t, u \in Structs(d) : d.tys[t].num = d.tys[u].num => t = u
  BY <1>2, <1>4, <1>5, <1>6 DEF Numbered
<1> QED BY <1>4, <1>7, <1>8 DEF Numbered

\* A structure that is made, and named by a name no other has, keeps the
\* context in order.
LEMMA CreateStructKeeps ==
    ASSUME NEW c, Kept(c), NEW elems
    PROVE  LET made == CreateStruct(c, elems)
           IN  /\ Kept(made.c)
               /\ made.ty = Newest(c) + 1
               /\ made.ty \in Made(made.c)
               /\ made.c.namedStructTypes = c.namedStructTypes
               /\ \E num : made.c.tys[made.ty] = TypeOf("struct", elems, num)
<1> DEFINE rec == TypeOf("struct", elems, Cardinality(Structs(c)) + 1)
           d   == Alloc(c, rec)
<1>1. CreateStruct(c, elems) = [c |-> d, ty |-> Newest(c) + 1]
  BY DEF CreateStruct, Result, Structs
<1>2. Shape(c) /\ Named(c) /\ Numbered(c)
  BY DEF Kept
<1>3. /\ Shape(d)
      /\ Newest(d) = Newest(c) + 1
      /\ \A t \in 1..Newest(c) : d.tys[t] = c.tys[t]
      /\ d.tys[Newest(c) + 1] = rec
      /\ \A k \in Fields \ {"tys"} : d[k] = c[k]
  BY <1>2, Allocated
<1>4. rec.name = Unnamed /\ rec.kind = "struct" /\ rec.num = Cardinality(Structs(c)) + 1
  BY DEF TypeOf
<1>5. /\ Newest(c) \in Nat
      /\ Len(Primitives) \in Nat
      /\ Len(Primitives) <= Newest(c)
  BY <1>2 DEF Shape, Sequence, Newest, Primitives
<1>6. \E num : rec = TypeOf("struct", elems, num)
  OBVIOUS
<1> HIDE DEF rec, d
<1>7. d.namedStructTypes = c.namedStructTypes
  BY <1>3 DEF Fields
<1>8. Named(d)
  BY <1>2, <1>3, <1>4, <1>7, NamedStays
<1>9. Numbered(d)
  BY <1>2, <1>3, <1>4, <1>5, NumberedGrows
<1>10. \A map \in Maps : \A k, t : Found(c, map, k, t) => Found(d, map, k, t)
  BY <1>3 DEF Found, Maps, Fields
<1>11. \A t \in Made(d) : Keyed(d, t)
  <2> TAKE t \in Made(d)
  <2>1. CASE t \in Made(c)
    <3>1. t \in 1..Newest(c)
      BY <1>5, <2>1 DEF Made
    <3>2. d.tys[t] = c.tys[t] /\ Keyed(c, t)
      BY <1>3, <2>1, <3>1 DEF Kept
    <3> QED BY <1>10, <3>2, KeyedStays
  <2>2. CASE t = Newest(c) + 1
    BY <1>3, <1>4, <2>2 DEF Keyed
  <2> QED BY <1>3, <1>5, <2>1, <2>2 DEF Made
<1>12. Kept(d)
  BY <1>3, <1>8, <1>9, <1>11 DEF Kept
<1>13. Newest(c) + 1 \in Made(d)
  BY <1>3, <1>5 DEF Made
<1> QED BY <1>1, <1>3, <1>6, <1>7, <1>12, <1>13

\* A sequence stays one when an element is replaced.
LEMMA Replaced ==
    ASSUME NEW s, Sequence(s), NEW t \in 1..Len(s), NEW e
    PROVE  LET r == [s EXCEPT ![t] = e]
           IN  /\ Sequence(r)
               /\ Len(r) = Len(s)
               /\ r[t] = e
               /\ \A i \in 1..Len(s) : i # t => r[i] = s[i]
<1> DEFINE r == [s EXCEPT ![t] = e]
           S == {s[i] : i \in 1..Len(s)} \cup {e}
<1>1. /\ Len(s) \in Nat
      /\ s = [i \in 1..Len(s) |-> s[i]]
  BY DEF Sequence
<1>2. s \in Seq(S) /\ e \in S
  BY <1>1
<1>3. /\ r \in Seq(S)
      /\ Len(r) = Len(s)
      /\ \A i \in 1..Len(s) : r[i] = IF i = t THEN e ELSE s[i]
  BY <1>2, ExceptSeq
<1> HIDE DEF r
<1>4. r = [i \in 1..Len(r) |-> r[i]]
  BY <1>3, LenProperties
<1> QED BY <1>1, <1>3, <1>4 DEF Sequence

LEMMA SetNameKeeps ==
    ASSUME NEW c, Kept(c), NEW t \in Made(c), NEW name,
           \E elems, num : c.tys[t] = TypeOf("struct", elems, num),
           name # Unnamed => name \notin DOMAIN c.namedStructTypes
    PROVE  Kept(SetName(c, t, name))
<1>1. PICK elems, num : c.tys[t] = TypeOf("struct", elems, num)
  OBVIOUS
<1>2. c.tys[t].name = Unnamed /\ c.tys[t].kind = "struct"
  BY <1>1 DEF TypeOf
<1>3. CASE name = Unnamed
  BY <1>2, <1>3 DEF SetName
<1>4. CASE name # Unnamed
  <2> DEFINE rec  == [c.tys[t] EXCEPT !.name = name]
             free == [n \in DOMAIN c.namedStructTypes \ {Unnamed} |-> c.namedStructTypes[n]]
             map  == Insert(free, name, t)
             tys  == [c.tys EXCEPT ![t] = rec]
             d    == SetName(c, t, name)
  <2>1. Shape(c) /\ Named(c) /\ Numbered(c)
    BY DEF Kept
  <2>2. /\ Sequence(c.tys) /\ Len(c.tys) \in Nat /\ Len(Primitives) \in Nat
        /\ t \in 1..Len(c.tys)
        /\ Made(c) \subseteq 1..Len(c.tys)
    BY <2>1 DEF Shape, Sequence, Made, Newest, Primitives
  <2>3. /\ rec.name = name /\ rec.kind = "struct" /\ rec.num = c.tys[t].num
    BY <1>1 DEF TypeOf
  <2>4. d = [c EXCEPT !.tys[t].name = name, !.namedStructTypes = map]
    BY <1>2, <1>4 DEF SetName
  <2>5. d = [k \in Fields |-> IF k = "tys" THEN tys
                              ELSE IF k = "namedStructTypes" THEN map ELSE c[k]]
    BY <2>1, <2>4 DEF Shape, Fields
  <2>6. /\ Sequence(tys)
        /\ Len(tys) = Len(c.tys)
        /\ tys[t] = rec
        /\ \A i \in 1..Len(c.tys) : i # t => tys[i] = c.tys[i]
    BY <2>2, Replaced
  <2>7. /\ DOMAIN map = (DOMAIN c.namedStructTypes \ {Unnamed}) \cup {name}
        /\ map[name] = t
        /\ \A n \in DOMAIN c.namedStructTypes \ {Unnamed} :
               map[n] = IF n = name THEN t ELSE c.namedStructTypes[n]
    BY DEF Insert
  <2> HIDE DEF rec, free, map, tys, d
  <2>8. d.tys = tys /\ d.namedStructTypes = map /\ \A k \in Maps : d[k] = c[k]
    BY <2>5 DEF Fields, Maps
  <2>9. Shape(d) /\ Newest(d) = Newest(c) /\ Made(d) = Made(c)
    <3>1. d = [k \in Fields |-> d[k]]
      BY <2>5
    <3> QED BY <2>1, <2>6, <2>8, <3>1 DEF Shape, Newest, Made
  <2>10. Named(d)
    BY <1>2, <1>4, <2>1, <2>2, <2>3, <2>6, <2>7, <2>8, <2>9 DEF Named
  <2>11. \A u \in Made(d) : Keyed(d, u)
    <3> TAKE u \in Made(d)
    <3>1. CASE u = t
      BY <2>3, <2>6, <2>8, <3>1 DEF Keyed
    <3>2. CASE u # t
      <4>1. d.tys[u] = c.tys[u] /\ Keyed(c, u)
        BY <2>2, <2>6, <2>8, <2>9, <3>2 DEF Kept
      <4>2. \A m \in Maps : \A k : Found(c, m, k, u) => Found(d, m, k, u)
        BY <2>8 DEF Found
      <4> QED BY <4>1, <4>2, KeyedStays
    <3> QED BY <3>1, <3>2
  <2>12. Numbered(d)
    <3>1. \A u \in 1..Newest(c) : /\ d.tys[u].kind = c.tys[u].kind
                                  /\ d.tys[u].num = c.tys[u].num
      BY <1>2, <2>3, <2>6, <2>8 DEF Newest
    <3>2. Structs(d) = Structs(c) /\ Structs(c) \subseteq 1..Newest(c)
      BY <2>9, <3>1 DEF Structs, Kind
    <3>3. \A u \in Structs(c) : d.tys[u].num = c.tys[u].num
      BY <3>1, <3>2 DEF Structs, Kind
    <3> QED BY <2>1, <3>2, <3>3 DEF Numbered
  <2> QED BY <2>9, <2>10, <2>11, <2>12 DEF Kept, d
<1> QED BY <1>3, <1>4

-----------------------------------------------------------------------------
(* Sequences, and the context there is at the start.                       *)

LEMMA HeadAndTail ==
    ASSUME NEW S, NEW e \in S, NEW s \in Seq(S)
    PROVE  Head(<<e>> \o s) = e /\ Tail(<<e>> \o s) = s
<1> DEFINE w == <<e>> \o s
<1>1. /\ w \in Seq(S)
      /\ Len(w) = 1 + Len(s)
      /\ \A i \in 1..1 + Len(s) : w[i] = IF i <= 1 THEN e ELSE s[i - 1]
  BY ConcatProperties
<1>2. Len(s) \in Nat
  BY LenProperties
<1> HIDE DEF w
<1>3. w # << >> /\ w[1] = e
  BY <1>1, <1>2
<1>4. /\ Tail(w) \in Seq(S)
      /\ Len(Tail(w)) = Len(w) - 1
      /\ \A i \in 1..Len(Tail(w)) : Tail(w)[i] = w[i + 1]
  BY <1>1, <1>3, HeadTailProperties
<1>5. Head(w) = e
  BY <1>1, <1>3
<1>6. \A i \in 1..Len(s) : Tail(w)[i] = s[i]
  BY <1>1, <1>2, <1>4
<1>7. Tail(w) = s
  BY <1>1, <1>2, <1>4, <1>6, SeqEqual
<1> QED BY <1>5, <1>7 DEF w

LEMMA EmptyContextKept == Kept(EmptyContext)
<1> DEFINE c == EmptyContext
<1>1. Len(Primitives) = 14
  BY DEF Primitives
<1>2. /\ c = [k \in Fields |-> c[k]]
      /\ c.tys = [i \in 1..14 |-> TypeOf(Primitives[i], << >>, 0)]
      /\ DOMAIN c.namedStructTypes = {}
  BY <1>1 DEF EmptyContext, Fields, NoMap
<1> HIDE DEF c
<1>3. Sequence(c.tys) /\ Len(c.tys) = 14
  <2> DEFINE S == {TypeOf(Primitives[i], << >>, 0) : i \in 1..14}
  <2>1. c.tys \in [1..14 -> S]
    BY <1>2
  <2>2. c.tys \in Seq(S)
    BY <2>1, SeqDef
  <2>3. /\ Len(c.tys) \in Nat
        /\ 1..Len(c.tys) = 1..14
    BY <2>1, <2>2, LenProperties
  <2>4. Len(c.tys) = 14
    <3> DEFINE n == Len(c.tys)
    <3>1. n \in Nat /\ \A i : i \in 1..n <=> i \in 1..14
      BY <2>3
    <3> HIDE DEF n
    <3>2. 14 \in 1..n
      BY <3>1
    <3>3. n \in 1..n
      BY <3>1, <3>2
    <3>4. n \in 1..14
      BY <3>1, <3>3
    <3>5. n = 14
      BY <3>1, <3>2, <3>4
    <3> QED BY <3>5 DEF n
  <2>5. c.tys = [i \in 1..14 |-> c.tys[i]]
    BY <2>1
  <2> QED BY <2>4, <2>5 DEF Sequence
<1>4. Shape(c)
  <2>1. Len(Primitives) <= Len(c.tys)
    BY <1>1, <1>3
  <2> QED BY <1>2, <1>3, <2>1 DEF Shape
<1>5. Made(c) = {}
  BY <1>1, <1>3 DEF Made, Newest
<1>6. Structs(c) = {}
  <2>1. \A i \in 1..14 : Primitives[i] # "struct"
    BY DEF Primitives
  <2>2. \A i \in 1..14 : c.tys[i].kind = Primitives[i]
    BY <1>2 DEF TypeOf
  <2> QED BY <1>3, <2>1, <2>2 DEF Structs, Kind, Newest
<1>7. Named(c) /\ Numbered(c)
  BY <1>2, <1>5, <1>6 DEF Named, Numbered
<1> QED BY <1>4, <1>5, <1>7 DEF Kept, c

LEMMA EmptySequence == Sequence(<< >>)
  BY DEF Sequence

-----------------------------------------------------------------------------
(* What a context with its types is, beyond its maps.                      *)

\* The type that a key of a map stands for.
RecOf(map, key) ==
    IF map = "pointerTypes" THEN TypeOf("pointer", key, 0)
    ELSE IF map = "arrayTypes" THEN TypeOf("array", <<key[1]>>, key[2])
    ELSE TypeOf("function", <<key[1]>> \o key[2], 0)

Leads(c) ==
    \A map \in Maps : \A key \in DOMAIN c[map] :
        c[map][key] \in Made(c) /\ c.tys[c[map][key]] = RecOf(map, key)

\* A type is made of types that were made before it.
WellFounded(c) ==
    \A t \in 1..Newest(c) :
        /\ Sequence(c.tys[t].subs)
        /\ \A i \in 1..Len(c.tys[t].subs) : c.tys[t].subs[i] \in 1..(t - 1)

Began(c) == \A t \in 1..Len(Primitives) : c.tys[t] = TypeOf(Primitives[t], << >>, 0)

NamesIn(c) == \A t \in Made(c) : c.tys[t].name \in StructNames \cup {Unnamed}

Sound(c) == Kept(c) /\ Leads(c) /\ WellFounded(c) /\ Began(c) /\ NamesIn(c)

\* The types there are keep their parts.
Extended(c, d) ==
    /\ Newest(c) <= Newest(d)
    /\ \A t \in 1..Newest(c) :
           /\ d.tys[t].kind = c.tys[t].kind
           /\ d.tys[t].subs = c.tys[t].subs
           /\ d.tys[t].num = c.tys[t].num

\* What a constructor does: it returns a type of these parts.
Makes(c, r, kind, subs, num) ==
    /\ Sound(r.c)
    /\ Extended(c, r.c)
    /\ r.ty \in 1..Newest(r.c)
    /\ r.c.tys[r.ty].kind = kind
    /\ r.c.tys[r.ty].subs = subs
    /\ r.c.tys[r.ty].num = num

LEMMA SizesOf ==
    ASSUME NEW c, Kept(c)
    PROVE  /\ Newest(c) \in Nat /\ Len(Primitives) = 14
           /\ 14 <= Newest(c) /\ Made(c) = 15..Newest(c)
<1>1. Len(Primitives) = 14
  BY DEF Primitives
<1> QED BY <1>1 DEF Kept, Shape, Sequence, Newest, Made

\* One more type, of types there are.
LEMMA WellFoundedGrows ==
    ASSUME NEW c, NEW d, WellFounded(c), Newest(c) \in Nat,
           Newest(d) = Newest(c) + 1,
           \A t \in 1..Newest(c) : d.tys[t].subs = c.tys[t].subs,
           Sequence(d.tys[Newest(c) + 1].subs),
           \A i \in 1..Len(d.tys[Newest(c) + 1].subs) :
               d.tys[Newest(c) + 1].subs[i] \in 1..Newest(c)
    PROVE  WellFounded(d)
<1> SUFFICES ASSUME NEW t \in 1..Newest(d)
             PROVE  /\ Sequence(d.tys[t].subs)
                    /\ \A i \in 1..Len(d.tys[t].subs) : d.tys[t].subs[i] \in 1..(t - 1)
  BY DEF WellFounded
<1>1. CASE t \in 1..Newest(c)
  BY <1>1 DEF WellFounded
<1>2. CASE t = Newest(c) + 1
  BY <1>2
<1> QED BY <1>1, <1>2

\* The lookup finds the type of the key, or makes it.
LEMMA InternedMakes ==
    ASSUME NEW c, Sound(c), NEW map \in Maps, NEW key, NEW rec,
           rec = RecOf(map, key), KeyOf(map, key, rec),
           Sequence(rec.subs), \A i \in 1..Len(rec.subs) : rec.subs[i] \in 1..Newest(c)
    PROVE  Makes(c, Interned(c, map, key, rec), rec.kind, rec.subs, rec.num)
<1> DEFINE r == Interned(c, map, key, rec)
<1>1. /\ Kept(c) /\ Leads(c) /\ WellFounded(c) /\ Began(c) /\ NamesIn(c)
      /\ Newest(c) \in Nat /\ Len(Primitives) = 14
      /\ 14 <= Newest(c) /\ Made(c) = 15..Newest(c)
  BY SizesOf DEF Sound
<1>2. rec.name = Unnamed /\ rec.kind # "struct"
  BY DEF RecOf, TypeOf
<1>3. Kept(r.c)
  BY <1>1, <1>2, InternedKeeps
<1>4. CASE key \in DOMAIN c[map]
  <2>1. r.c = c /\ r.ty = c[map][key]
    BY <1>4 DEF Interned, Result
  <2>2. r.ty \in Made(c) /\ c.tys[r.ty] = rec
    BY <1>1, <1>4, <2>1 DEF Leads
  <2> HIDE DEF r
  <2>3. r.ty \in 1..Newest(c)
    BY <1>1, <2>2
  <2>4. Extended(c, c)
    BY <1>1 DEF Extended
  <2> QED BY <2>1, <2>2, <2>3, <2>4 DEF Makes, r
<1>5. CASE key \notin DOMAIN c[map]
  <2> DEFINE d == Entered(c, map, key, rec)
  <2>1. r.c = d /\ r.ty = Newest(c) + 1
    BY <1>5 DEF Interned, Result, Entered
  <2>2. map \in Fields \ {"tys", "namedStructTypes"}
    BY DEF Maps, Fields
  <2>3. Shape(c)
    BY <1>1 DEF Kept
  <2>4. /\ Shape(d)
        /\ Newest(d) = Newest(c) + 1
        /\ \A t \in 1..Newest(c) : d.tys[t] = c.tys[t]
        /\ d.tys[Newest(c) + 1] = rec
        /\ \A other \in Fields \ {"tys", map} : d[other] = c[other]
    BY <1>5, <2>2, <2>3, EnteredShape
  <2>5. /\ DOMAIN d[map] = DOMAIN c[map] \cup {key}
        /\ d[map][key] = Newest(c) + 1
        /\ \A k \in DOMAIN c[map] : d[map][k] = c[map][k]
    <3> DEFINE a == Alloc(c, rec)
    <3>1. a = [k \in Fields |-> a[k]] /\ a[map] = c[map]
      BY <2>2, <2>3, Allocated DEF Shape
    <3>2. d = [a EXCEPT ![map] = Insert(a[map], key, Newest(c) + 1)]
      BY DEF Entered
    <3> HIDE DEF a, d
    <3>3. d[map] = Insert(c[map], key, Newest(c) + 1)
      BY <2>2, <3>1, <3>2
    <3> QED BY <1>5, <3>3 DEF Insert
  <2>6. Kept(d)
    BY <1>3, <2>1
  <2> HIDE DEF d, r
  <2>7. Made(d) = Made(c) \cup {Newest(c) + 1} /\ Made(c) \subseteq 1..Newest(c)
    BY <1>1, <2>4, <2>6, SizesOf
  <2>8. Leads(d)
    <3> SUFFICES ASSUME NEW m \in Maps, NEW k \in DOMAIN d[m]
                 PROVE  d[m][k] \in Made(d) /\ d.tys[d[m][k]] = RecOf(m, k)
      BY DEF Leads
    <3>1. CASE m = map /\ k = key
      BY <2>4, <2>5, <2>7, <3>1
    <3>2. CASE ~(m = map /\ k = key)
      <4>1. k \in DOMAIN c[m] /\ d[m][k] = c[m][k]
        <5>1. CASE m = map
          BY <2>5, <3>2, <5>1
        <5>2. CASE m # map
          BY <2>4, <5>2 DEF Maps, Fields
        <5> QED BY <5>1, <5>2
      <4>2. c[m][k] \in Made(c) /\ c.tys[c[m][k]] = RecOf(m, k)
        BY <1>1, <4>1 DEF Leads
      <4> QED BY <2>4, <2>7, <4>1, <4>2
    <3> QED BY <3>1, <3>2
  <2>9. WellFounded(d)
    BY <1>1, <2>4, WellFoundedGrows
  <2>10. Began(d)
    <3>1. \A t \in 1..Len(Primitives) : t \in 1..Newest(c)
      BY <1>1
    <3> QED BY <1>1, <2>4, <3>1 DEF Began
  <2>11. NamesIn(d)
    BY <1>1, <1>2, <2>4, <2>7 DEF NamesIn
  <2>12. Extended(c, d)
    BY <1>1, <2>4 DEF Extended
  <2>13. r.ty \in 1..Newest(d) /\ d.tys[r.ty] = rec
    BY <1>1, <2>1, <2>4
  <2> QED BY <2>1, <2>6, <2>8, <2>9, <2>10, <2>11, <2>12, <2>13 DEF Makes, Sound, r
<1> QED BY <1>4, <1>5

LEMMA PointerMade ==
    ASSUME NEW c, Sound(c), NEW t \in 1..Newest(c)
    PROVE  Makes(c, GetPointer(c, t), "pointer", <<t>>, 0)
<1> DEFINE rec == TypeOf("pointer", <<t>>, 0)
<1>1. /\ rec.kind = "pointer" /\ rec.subs = <<t>> /\ rec.num = 0
      /\ KeyOf("pointerTypes", <<t>>, rec)
      /\ rec = RecOf("pointerTypes", <<t>>)
  BY DEF TypeOf, KeyOf, RecOf
<1> HIDE DEF rec
<1>2. "pointerTypes" \in Maps
  BY DEF Maps
<1>3. Sequence(rec.subs) /\ \A i \in 1..Len(rec.subs) : rec.subs[i] \in 1..Newest(c)
  BY <1>1 DEF Sequence
<1>4. Makes(c, Interned(c, "pointerTypes", <<t>>, rec), rec.kind, rec.subs, rec.num)
  BY <1>1, <1>2, <1>3, InternedMakes
<1> QED BY <1>1, <1>4 DEF GetPointer, rec

LEMMA ArrayMade ==
    ASSUME NEW c, Sound(c), NEW t \in 1..Newest(c), NEW n
    PROVE  Makes(c, GetArray(c, t, n), "array", <<t>>, n)
<1> DEFINE rec == TypeOf("array", <<t>>, n)
<1>1. /\ rec.kind = "array" /\ rec.subs = <<t>> /\ rec.num = n
      /\ KeyOf("arrayTypes", <<t, n>>, rec)
      /\ rec = RecOf("arrayTypes", <<t, n>>)
  BY DEF TypeOf, KeyOf, RecOf
<1> HIDE DEF rec
<1>2. "arrayTypes" \in Maps
  BY DEF Maps
<1>3. Sequence(rec.subs) /\ \A i \in 1..Len(rec.subs) : rec.subs[i] \in 1..Newest(c)
  BY <1>1 DEF Sequence
<1>4. Makes(c, Interned(c, "arrayTypes", <<t, n>>, rec), rec.kind, rec.subs, rec.num)
  BY <1>1, <1>2, <1>3, InternedMakes
<1> QED BY <1>1, <1>4 DEF GetArray, rec

\* A function type is made of its result and its parameters.
LEMMA FunctionMade ==
    ASSUME NEW c, Sound(c), NEW ret \in 1..Newest(c), NEW ps \in Seq(1..Newest(c))
    PROVE  Makes(c, GetFunction(c, ret, ps), "function", <<ret>> \o ps, 0)
<1> DEFINE rec == TypeOf("function", <<ret>> \o ps, 0)
<1>1. Head(<<ret>> \o ps) = ret /\ Tail(<<ret>> \o ps) = ps
  BY HeadAndTail
<1>2. /\ rec.kind = "function" /\ rec.subs = <<ret>> \o ps /\ rec.num = 0
      /\ rec = RecOf("functionTypes", <<ret, ps>>)
  BY DEF TypeOf, RecOf
<1>3. <<ret>> \o ps \in Seq(1..Newest(c))
  OBVIOUS
<1> HIDE DEF rec
<1>4. "functionTypes" \in Maps /\ KeyOf("functionTypes", <<ret, ps>>, rec)
  BY <1>1, <1>2 DEF Maps, KeyOf
<1>5. Sequence(rec.subs) /\ \A i \in 1..Len(rec.subs) : rec.subs[i] \in 1..Newest(c)
  BY <1>2, <1>3, LenProperties DEF Sequence
<1>6. Makes(c, Interned(c, "functionTypes", <<ret, ps>>, rec), rec.kind, rec.subs, rec.num)
  BY <1>2, <1>4, <1>5, InternedMakes
<1> QED BY <1>2, <1>6 DEF GetFunction, rec

\* A structure is made of its members; its name changes none of its parts.
LEMMA StructMade ==
    ASSUME NEW c, Sound(c), NEW elems \in Seq(1..Newest(c)),
           NEW name \in StructNames \cup {Unnamed},
           name # Unnamed => name \notin DOMAIN c.namedStructTypes
    PROVE  LET made == CreateStruct(c, elems)
               r    == Result(SetName(made.c, made.ty, name), made.ty)
           IN  Makes(c, r, "struct", elems, made.c.tys[made.ty].num)
<1> DEFINE rec == TypeOf("struct", elems, Cardinality(Structs(c)) + 1)
           made == CreateStruct(c, elems)
           b == Alloc(c, rec)
           n == Newest(c) + 1
           d == SetName(b, n, name)
<1>1. /\ Kept(c) /\ Leads(c) /\ WellFounded(c) /\ Began(c) /\ NamesIn(c)
      /\ Newest(c) \in Nat /\ Len(Primitives) = 14
      /\ 14 <= Newest(c) /\ Made(c) = 15..Newest(c)
  BY SizesOf DEF Sound
<1>2. made.c = b /\ made.ty = n
  BY DEF CreateStruct, Result, Structs
<1>3. /\ Kept(b)
      /\ n \in Made(b)
      /\ b.namedStructTypes = c.namedStructTypes
      /\ \E num : b.tys[n] = TypeOf("struct", elems, num)
  <2>1. /\ Kept(made.c)
        /\ made.ty \in Made(made.c)
        /\ made.c.namedStructTypes = c.namedStructTypes
        /\ \E num : made.c.tys[made.ty] = TypeOf("struct", elems, num)
    BY <1>1, CreateStructKeeps
  <2> HIDE DEF made, b, n
  <2> QED BY <1>2, <2>1
<1>4. Shape(c)
  BY <1>1 DEF Kept
<1>5. /\ Shape(b)
      /\ Newest(b) = n
      /\ \A t \in 1..Newest(c) : b.tys[t] = c.tys[t]
      /\ b.tys[n] = rec
      /\ \A k \in Fields \ {"tys"} : b[k] = c[k]
  BY <1>4, Allocated
<1>6. Kept(d)
  BY <1>3, SetNameKeeps
<1>7. /\ rec = [kind |-> "struct", subs |-> elems, num |-> rec.num, name |-> Unnamed]
      /\ rec.kind = "struct" /\ rec.subs = elems /\ rec.name = Unnamed
  BY DEF TypeOf
<1> HIDE DEF rec, b, made
\* Naming: only the name of the new type changes.
<1>8. /\ Newest(d) = n
      /\ \A t \in 1..Newest(c) : d.tys[t] = c.tys[t]
      /\ d.tys[n].kind = "struct" /\ d.tys[n].subs = elems /\ d.tys[n].num = rec.num
      /\ d.tys[n].name = name
      /\ \A m \in Maps : d[m] = c[m]
  <2>0. Maps \subseteq Fields \ {"tys", "namedStructTypes"}
    BY DEF Maps, Fields
  <2>1. CASE name = Unnamed
    <3>1. d = b
      BY <1>5, <1>7, <2>1 DEF SetName
    <3> QED BY <1>5, <1>7, <2>0, <2>1, <3>1
  <2>2. CASE name # Unnamed
    <3> DEFINE named == [rec EXCEPT !.name = name]
               tys   == [b.tys EXCEPT ![n] = named]
               free  == [x \in DOMAIN b.namedStructTypes \ {Unnamed} |-> b.namedStructTypes[x]]
               map   == Insert(free, name, n)
    <3>1. d = [b EXCEPT !.tys[n].name = name, !.namedStructTypes = map]
      BY <1>5, <1>7, <2>2 DEF SetName
    <3>2. b = [k \in Fields |-> b[k]] /\ Sequence(b.tys) /\ n \in 1..Len(b.tys)
          /\ Len(b.tys) = n
      BY <1>1, <1>5 DEF Shape, Newest
    <3>3. named.kind = "struct" /\ named.subs = elems /\ named.num = rec.num
          /\ named.name = name
      BY <1>7
    <3>4. d = [k \in Fields |-> IF k = "tys" THEN tys
                                ELSE IF k = "namedStructTypes" THEN map ELSE b[k]]
      BY <1>5, <3>1, <3>2 DEF Fields
    <3>5. /\ Len(tys) = n /\ tys[n] = named
          /\ \A t \in 1..Len(b.tys) : t # n => tys[t] = b.tys[t]
      BY <3>2, Replaced
    <3>6. \A t \in 1..Newest(c) : t \in 1..Len(b.tys) /\ t # n
      BY <1>1, <3>2
    <3> HIDE DEF named, tys, map, d
    <3>7. d.tys = tys /\ \A m \in Maps : d[m] = b[m]
      BY <2>0, <3>4 DEF Fields
    <3>8. Newest(d) = n
      BY <3>5, <3>7 DEF Newest
    <3>9. \A t \in 1..Newest(c) : d.tys[t] = c.tys[t]
      BY <1>5, <3>5, <3>6, <3>7
    <3>10. \A m \in Maps : d[m] = c[m]
      BY <1>5, <2>0, <3>7
    <3> QED BY <3>3, <3>5, <3>7, <3>8, <3>9, <3>10
  <2> QED BY <2>1, <2>2
<1> HIDE DEF d
<1>9. Made(d) = Made(c) \cup {n} /\ Made(c) \subseteq 1..Newest(c)
  BY <1>1, <1>6, <1>8, SizesOf
<1>10. Leads(d)
  <2> SUFFICES ASSUME NEW m \in Maps, NEW k \in DOMAIN d[m]
               PROVE  d[m][k] \in Made(d) /\ d.tys[d[m][k]] = RecOf(m, k)
    BY DEF Leads
  <2>1. k \in DOMAIN c[m] /\ d[m][k] = c[m][k]
    BY <1>8
  <2>2. c[m][k] \in Made(c) /\ c.tys[c[m][k]] = RecOf(m, k)
    BY <1>1, <2>1 DEF Leads
  <2> QED BY <1>8, <1>9, <2>1, <2>2
<1>11. WellFounded(d)
  <2>1. Sequence(elems) /\ \A i \in 1..Len(elems) : elems[i] \in 1..Newest(c)
    BY LenProperties DEF Sequence
  <2> QED BY <1>1, <1>8, <2>1, WellFoundedGrows
<1>12. Began(d)
  <2>1. \A t \in 1..Len(Primitives) : t \in 1..Newest(c)
    BY <1>1
  <2> QED BY <1>1, <1>8, <2>1 DEF Began
<1>13. NamesIn(d)
  BY <1>1, <1>8, <1>9 DEF NamesIn
<1>14. Extended(c, d)
  BY <1>1, <1>8 DEF Extended
<1>15. n \in 1..Newest(d)
  BY <1>1, <1>8
<1>16. made.c.tys[made.ty].num = rec.num
  BY <1>2, <1>5
<1>17. Makes(c, Result(d, n), "struct", elems, rec.num)
  <2>1. Result(d, n).c = d /\ Result(d, n).ty = n
    BY DEF Result
  <2> QED BY <1>6, <1>8, <1>10, <1>11, <1>12, <1>13, <1>14, <1>15, <2>1 DEF Makes, Sound
<1>18. CreateStruct(c, elems) = made
  BY DEF made
<1> QED BY <1>2, <1>16, <1>17, <1>18 DEF d

-----------------------------------------------------------------------------
(* Recursion over the parts of a type.                                     *)

LEMMA LeastNatural ==
    ASSUME NEW T \in SUBSET Nat, T # {}
    PROVE  \E m \in T : \A k \in T : m <= k
<1> DEFINE R == OpToRel(<, Nat)
<1>1. IsWellFoundedOn(R, Nat)
  BY NatLessThanWellFounded
<1>2. \A j, k \in Nat : <<j, k>> \in R <=> j < k
  BY DEF OpToRel
<1> HIDE DEF R
<1>3. PICK m \in T : \A k \in T : ~(<<k, m>> \in R)
  BY <1>1, WFMin
<1>4. \A k \in T : k \in Nat
  OBVIOUS
<1>5. \A k \in T : ~(k < m)
  BY <1>2, <1>3, <1>4
<1> QED BY <1>4, <1>5

\* Type t, when the types it is made of are written out as in g.
Row(c, g, t) ==
    <<c.tys[t].kind, c.tys[t].num,
      [i \in 1..Len(c.tys[t].subs) |-> g[c.tys[t].subs[i]]]>>

WrittenOut(c, g, n) == g = [t \in 1..n |-> Row(c, g, t)]

\* Rows need the types below only.
LEMMA RowsAgree ==
    ASSUME NEW c, WellFounded(c), NEW t \in 1..Newest(c), NEW g, NEW h,
           \A u \in 1..(t - 1) : g[u] = h[u]
    PROVE  Row(c, g, t) = Row(c, h, t)
<1>1. \A i \in 1..Len(c.tys[t].subs) : c.tys[t].subs[i] \in 1..(t - 1)
  BY DEF WellFounded
<1>2. \A i \in 1..Len(c.tys[t].subs) : g[c.tys[t].subs[i]] = h[c.tys[t].subs[i]]
  BY <1>1
<1>3. [i \in 1..Len(c.tys[t].subs) |-> g[c.tys[t].subs[i]]]
        = [i \in 1..Len(c.tys[t].subs) |-> h[c.tys[t].subs[i]]]
  BY <1>2
<1> QED BY <1>3 DEF Row

LEMMA WrittenOutExists ==
    ASSUME NEW c, WellFounded(c), Newest(c) \in Nat
    PROVE  \E g : WrittenOut(c, g, Newest(c))
<1> DEFINE Bad == {m \in Nat : m <= Newest(c) /\ ~ \E g : WrittenOut(c, g, m)}
<1> SUFFICES ASSUME Bad # {} PROVE FALSE
  OBVIOUS
<1>1. PICK m \in Bad : \A k \in Bad : m <= k
  BY LeastNatural
<1>2. m # 0
  <2>1. WrittenOut(c, [t \in 1..0 |-> 0], 0)
    BY DEF WrittenOut
  <2> QED BY <2>1
<1>3. m - 1 \in Nat /\ m \in Nat /\ m <= Newest(c)
  BY <1>2
<1>4. PICK w : WrittenOut(c, w, m - 1)
  <2>1. m - 1 \notin Bad
    BY <1>1, <1>3
  <2> QED BY <1>3, <2>1
<1> DEFINE g == [t \in 1..m |-> IF t = m THEN Row(c, w, m) ELSE w[t]]
<1>5. \A t \in 1..(m - 1) : g[t] = w[t]
  BY <1>3
<1>6. g[m] = Row(c, w, m)
  BY <1>2, <1>3
<1> HIDE DEF g
<1>7. \A t \in 1..m : g[t] = Row(c, g, t)
  <2> TAKE t \in 1..m
  <2>1. t \in 1..Newest(c)
    BY <1>3
  <2>2. \A u \in 1..(t - 1) : g[u] = w[u]
    BY <1>3, <1>5
  <2>3. Row(c, g, t) = Row(c, w, t)
    BY <2>1, <2>2, RowsAgree
  <2>4. CASE t = m
    BY <1>6, <2>3, <2>4
  <2>5. CASE t \in 1..(m - 1)
    <3>1. w[t] = Row(c, w, t)
      BY <1>4, <2>5 DEF WrittenOut
    <3> QED BY <1>5, <2>3, <2>5, <3>1
  <2> QED BY <1>3, <2>4, <2>5
<1>8. g = [t \in 1..m |-> g[t]]
  BY DEF g
<1>9. WrittenOut(c, g, m)
  BY <1>7, <1>8 DEF WrittenOut
<1> QED BY <1>9

\* Structure is what its recursion says.
LEMMA StructureIs ==
    ASSUME NEW c, WellFounded(c), Newest(c) \in Nat
    PROVE  \A t \in 1..Newest(c) : Structure(c)[t] = Row(c, Structure(c), t)
<1> DEFINE F(g) == [t \in 1..Newest(c) |-> Row(c, g, t)]
           out == CHOOSE g : g = F(g)
<1>1. PICK g : g = F(g)
  BY WrittenOutExists DEF WrittenOut
<1>2. out = F(out)
  <2> HIDE DEF F
  <2> QED BY <1>1
<1>3. Structure(c) = out
  BY DEF Structure, Row
<1> HIDE DEF out
<1>4. \A t \in 1..Newest(c) : out[t] = Row(c, out, t)
  BY <1>2
<1> QED BY <1>3, <1>4

\* A type means the same in every later context.
LEMMA StructureStays ==
    ASSUME NEW c, NEW d, WellFounded(c), WellFounded(d), Extended(c, d),
           Newest(c) \in Nat, Newest(d) \in Nat
    PROVE  \A t \in 1..Newest(c) : Structure(d)[t] = Structure(c)[t]
<1> DEFINE Bad == {t \in 1..Newest(c) : Structure(d)[t] # Structure(c)[t]}
<1> SUFFICES ASSUME Bad # {} PROVE FALSE
  OBVIOUS
<1>1. PICK t \in Bad : \A u \in Bad : t <= u
  <2>1. Bad \in SUBSET Nat
    OBVIOUS
  <2> HIDE DEF Bad
  <2> QED BY <2>1, LeastNatural
<1>2. t \in 1..Newest(c) /\ t \in 1..Newest(d)
  BY DEF Extended
<1>3. \A u \in 1..(t - 1) : Structure(d)[u] = Structure(c)[u]
  BY <1>1, <1>2
<1>4. Structure(d)[t] = Row(d, Structure(d), t) /\ Structure(c)[t] = Row(c, Structure(c), t)
  BY <1>2, StructureIs
<1>5. Row(c, Structure(d), t) = Row(c, Structure(c), t)
  BY <1>2, <1>3, RowsAgree
<1>6. Row(d, Structure(d), t) = Row(c, Structure(d), t)
  BY <1>2 DEF Row, Extended
<1> QED BY <1>4, <1>5, <1>6

-----------------------------------------------------------------------------
(* The members of a structure.                                             *)

\* The first i members that have a type, when the ones before are in g.
KeptOf(parts, g, i) ==
    IF i = 0 THEN << >>
    ELSE IF parts[i].ty = NoType THEN g[i - 1]
    ELSE Append(g[i - 1], parts[i].ty)

KeptUpTo(parts, g, n) == g = [i \in 0..n |-> KeptOf(parts, g, i)]

LEMMA KeptExist ==
    ASSUME NEW parts, NEW n \in Nat
    PROVE  \E g : KeptUpTo(parts, g, n)
<1> DEFINE Bad == {m \in Nat : ~ \E g : KeptUpTo(parts, g, m)}
<1> SUFFICES ASSUME Bad # {} PROVE FALSE
  OBVIOUS
<1>1. PICK m \in Bad : \A k \in Bad : m <= k
  BY LeastNatural
<1>2. m # 0
  <2>1. KeptUpTo(parts, [i \in 0..0 |-> << >>], 0)
    BY DEF KeptUpTo, KeptOf
  <2> QED BY <2>1
<1>3. m - 1 \in Nat /\ m \in Nat
  BY <1>2
<1>4. PICK w : KeptUpTo(parts, w, m - 1)
  <2>1. m - 1 \notin Bad
    BY <1>1, <1>3
  <2> QED BY <1>3, <2>1
<1> DEFINE g == [i \in 0..m |-> IF i = m THEN KeptOf(parts, w, m) ELSE w[i]]
<1>5. \A i \in 0..(m - 1) : g[i] = w[i]
  BY <1>3
<1>6. g[m] = KeptOf(parts, w, m)
  BY <1>3
<1> HIDE DEF g
<1>7. \A i \in 0..m : g[i] = KeptOf(parts, g, i)
  <2> TAKE i \in 0..m
  <2>1. i # 0 => i - 1 \in 0..(m - 1)
    BY <1>3
  <2>2. KeptOf(parts, g, i) = KeptOf(parts, w, i)
    BY <1>5, <2>1 DEF KeptOf
  <2>3. CASE i = m
    BY <1>6, <2>2, <2>3
  <2>4. CASE i \in 0..(m - 1)
    <3>1. w[i] = KeptOf(parts, w, i)
      BY <1>4, <2>4 DEF KeptUpTo
    <3> QED BY <1>5, <2>2, <2>4, <3>1
  <2> QED BY <1>3, <2>3, <2>4
<1>8. g = [i \in 0..m |-> g[i]]
  BY DEF g
<1>9. KeptUpTo(parts, g, m)
  BY <1>7, <1>8 DEF KeptUpTo
<1> QED BY <1>9

\* What is kept are types; nothing is lost when every member has one.
LEMMA ContainedIs ==
    ASSUME NEW parts, NEW N \in Nat, Sequence(parts),
           \A i \in 1..Len(parts) : parts[i].ty \in 0..N
    PROVE  /\ Contained(parts) \in Seq(1..N)
           /\ (\A i \in 1..Len(parts) : parts[i].ty # NoType) =>
                  Contained(parts) = [i \in 1..Len(parts) |-> parts[i].ty]
<1> DEFINE n == Len(parts)
           F(g) == [i \in 0..n |-> KeptOf(parts, g, i)]
           kept == CHOOSE g : g = F(g)
<1>1. n \in Nat
  BY DEF Sequence
<1>2. PICK g : g = F(g)
  BY <1>1, KeptExist DEF KeptUpTo
<1>3. kept = F(kept)
  <2> HIDE DEF F
  <2> QED BY <1>2
<1>4. Contained(parts) = kept[n]
  BY DEF Contained, KeptOf
<1> HIDE DEF kept, F
<1>5. \A i \in 0..n : kept[i] = KeptOf(parts, kept, i)
  BY <1>3 DEF F
<1> DEFINE All == \A i \in 1..n : parts[i].ty # NoType
           Right(i) == /\ kept[i] \in Seq(1..N)
                       /\ All => /\ Len(kept[i]) = i
                                 /\ \A j \in 1..i : kept[i][j] = parts[j].ty
           Bad == {i \in 0..n : ~Right(i)}
<1>6. Bad = {}
  <2> SUFFICES ASSUME Bad # {} PROVE FALSE
    OBVIOUS
  <2>1. PICK m \in Bad : \A k \in Bad : m <= k
    <3>1. Bad \in SUBSET Nat
      BY <1>1
    <3> HIDE DEF Bad
    <3> QED BY <3>1, LeastNatural
  <2>2. m \in 0..n /\ ~Right(m)
    OBVIOUS
  <2>3. m # 0
    <3>1. kept[0] = << >>
      BY <1>1, <1>5 DEF KeptOf
    <3>2. Right(0)
      BY <3>1
    <3> QED BY <2>2, <3>2
  <2>4. m - 1 \in 0..n /\ m \in 1..n
    BY <1>1, <2>2, <2>3
  <2>5. Right(m - 1)
    BY <2>1, <2>4
  <2>6. kept[m] = IF parts[m].ty = NoType THEN kept[m - 1]
                  ELSE Append(kept[m - 1], parts[m].ty)
    BY <1>5, <2>2, <2>3 DEF KeptOf
  <2>7. CASE parts[m].ty = NoType
    <3>1. ~All
      BY <2>4, <2>7
    <3>2. kept[m] \in Seq(1..N)
      BY <2>5, <2>6, <2>7
    <3> QED BY <2>2, <3>1, <3>2
  <2>8. CASE parts[m].ty # NoType
    <3>1. parts[m].ty \in 1..N
      BY <2>4, <2>8 DEF NoType
    <3>2. PICK s \in Seq(1..N) : s = kept[m - 1]
      BY <2>5
    <3>3. PICK e \in 1..N : e = parts[m].ty
      BY <3>1
    <3>4. /\ Append(s, e) \in Seq(1..N)
          /\ Len(Append(s, e)) = Len(s) + 1
          /\ \A j \in 1..Len(s) : Append(s, e)[j] = s[j]
          /\ Append(s, e)[Len(s) + 1] = e
      BY <3>2, <3>3
    <3>5. kept[m] = Append(s, e)
      BY <2>6, <2>8, <3>2, <3>3
    <3>6. ASSUME All
          PROVE  /\ Len(kept[m]) = m
                 /\ \A j \in 1..m : kept[m][j] = parts[j].ty
      <4>1. Len(s) = m - 1 /\ \A j \in 1..(m - 1) : s[j] = parts[j].ty
        BY <2>5, <3>2, <3>6
      <4>2. \A j \in 1..m : j \in 1..(m - 1) \/ j = m
        BY <2>4
      <4> QED BY <2>4, <3>3, <3>4, <3>5, <4>1, <4>2
    <3> QED BY <2>2, <3>4, <3>5, <3>6
  <2> QED BY <2>7, <2>8
<1>7. Right(n)
  BY <1>1, <1>6
<1>8. ASSUME All PROVE kept[n] = [i \in 1..n |-> parts[i].ty]
  <2>1. kept[n] = [i \in 1..n |-> kept[n][i]]
    BY <1>7, <1>8, LenProperties
  <2> QED BY <1>7, <1>8, <2>1
<1> QED BY <1>4, <1>7, <1>8

-----------------------------------------------------------------------------
(* Primitive types.                                                        *)

PrimNames == {"void", "f32", "f64", "i1", "ui8", "si8", "ui16", "si16",
              "ui32", "si32", "ui64", "si64", "label", "token"}

LEMMA PrimIs ==
    ASSUME NEW name \in PrimNames
    PROVE  Prim(name) \in 1..14 /\ Primitives[Prim(name)] = name
<1>1. \E i \in 1..Len(Primitives) : Primitives[i] = name
  <2>1. Len(Primitives) = 14
    BY DEF Primitives
  <2>2. \E i \in 1..14 : Primitives[i] = name
    <3>1. Primitives = <<"void", "f32", "f64", "i1", "ui8", "si8", "ui16", "si16",
                "ui32", "si32", "ui64", "si64", "label", "token">>
      BY DEF Primitives
    <3>2. /\ Primitives[1] = "void" /\ Primitives[2] = "f32" /\ Primitives[3] = "f64"
          /\ Primitives[4] = "i1" /\ Primitives[5] = "ui8" /\ Primitives[6] = "si8"
          /\ Primitives[7] = "ui16" /\ Primitives[8] = "si16" /\ Primitives[9] = "ui32"
          /\ Primitives[10] = "si32" /\ Primitives[11] = "ui64"
          /\ Primitives[12] = "si64" /\ Primitives[13] = "label"
          /\ Primitives[14] = "token"
      BY DEF Primitives
    <3>3. /\ 1 \in 1..14 /\ 2 \in 1..14 /\ 3 \in 1..14 /\ 4 \in 1..14 /\ 5 \in 1..14
          /\ 6 \in 1..14 /\ 7 \in 1..14 /\ 8 \in 1..14 /\ 9 \in 1..14 /\ 10 \in 1..14
          /\ 11 \in 1..14 /\ 12 \in 1..14 /\ 13 \in 1..14 /\ 14 \in 1..14
      OBVIOUS
    <3> HIDE DEF Primitives
    <3> QED BY <3>2, <3>3 DEF PrimNames
  <2> QED BY <2>1, <2>2
<1>2. Prim(name) \in 1..Len(Primitives) /\ Primitives[Prim(name)] = name
  BY <1>1 DEF Prim
<1> QED BY <1>2 DEF Primitives

\* No two primitive types have one name.
LEMMA PrimsDiffer ==
    ASSUME NEW i \in 1..14, NEW j \in 1..14, Primitives[i] = Primitives[j]
    PROVE  i = j
BY DEF Primitives

-----------------------------------------------------------------------------
(* One object per type.                                                    *)

LEMMA MadeByParts ==
    ASSUME NEW c, Kept(c), NEW t \in Made(c), NEW u \in Made(c),
           c.tys[t].kind = c.tys[u].kind,
           c.tys[t].num = c.tys[u].num,
           c.tys[t].subs = c.tys[u].subs
    PROVE  t = u
<1>1. Keyed(c, t) /\ Keyed(c, u)
  BY DEF Kept
<1>2. CASE c.tys[t].kind = "struct"
  <2>1. t \in 1..Newest(c) /\ u \in 1..Newest(c)
    BY SizesOf
  <2>2. t \in Structs(c) /\ u \in Structs(c)
    BY <1>2, <2>1 DEF Structs, Kind
  <2> QED BY <2>2 DEF Kept, Numbered
<1>3. CASE c.tys[t].kind # "struct"
  BY <1>1, <1>3 DEF Keyed, Found
<1> QED BY <1>2, <1>3

\* What is made is none of the primitive types.
LEMMA KindOfMade ==
    ASSUME NEW c, Sound(c), NEW t \in Made(c)
    PROVE  c.tys[t].kind \in {"pointer", "array", "function", "struct"}
BY DEF Sound, Kept, Keyed

LEMMA KindOfPrimitive ==
    ASSUME NEW c, Sound(c), NEW t \in 1..14
    PROVE  /\ c.tys[t].kind = Primitives[t] /\ c.tys[t].kind \in PrimNames
           /\ c.tys[t].num = 0 /\ c.tys[t].subs = << >>
<1>1. Len(Primitives) = 14
  BY DEF Primitives
<1>2. c.tys[t] = TypeOf(Primitives[t], << >>, 0)
  BY <1>1 DEF Sound, Began
<1>3. Primitives[t] \in PrimNames
  BY DEF Primitives, PrimNames
<1> QED BY <1>2, <1>3 DEF TypeOf

\* Types of the same parts are one, primitive or not.
LEMMA SameParts ==
    ASSUME NEW c, Sound(c), NEW t \in 1..Newest(c), NEW u \in 1..Newest(c),
           c.tys[t].kind = c.tys[u].kind,
           c.tys[t].num = c.tys[u].num,
           c.tys[t].subs = c.tys[u].subs
    PROVE  t = u
<1>1. /\ Kept(c) /\ Newest(c) \in Nat /\ 14 <= Newest(c)
      /\ Made(c) = 15..Newest(c)
  BY SizesOf DEF Sound
<1>2. CASE t \in 15..Newest(c) /\ u \in 15..Newest(c)
  BY <1>1, <1>2, MadeByParts
<1>3. CASE t \in 1..14 /\ u \in 1..14
  BY <1>3, KindOfPrimitive, PrimsDiffer
<1>4. CASE t \in 1..14 /\ u \in 15..Newest(c)
  BY <1>1, <1>4, KindOfPrimitive, KindOfMade DEF PrimNames
<1>5. CASE t \in 15..Newest(c) /\ u \in 1..14
  <2>1. c.tys[u].kind \in PrimNames
    BY <1>5, KindOfPrimitive
  <2>2. c.tys[t].kind \in {"pointer", "array", "function", "struct"}
    BY <1>1, <1>5, KindOfMade
  <2> QED BY <2>1, <2>2 DEF PrimNames
<1> QED BY <1>1, <1>2, <1>3, <1>4, <1>5

\* Down the parts of both, two types that mean the same are the same.
LEMMA SameMeaning ==
    ASSUME NEW c, Sound(c)
    PROVE  \A t, u \in 1..Newest(c) : Structure(c)[t] = Structure(c)[u] => t = u
<1> DEFINE S == Structure(c)
           N == Newest(c)
           Bad == {t \in 1..N : \E u \in 1..N : S[t] = S[u] /\ t # u}
<1> SUFFICES ASSUME Bad # {} PROVE FALSE
  OBVIOUS
<1>1. N \in Nat /\ WellFounded(c)
  BY SizesOf DEF Sound
<1>2. PICK t \in Bad : \A v \in Bad : t <= v
  <2>1. Bad \in SUBSET Nat
    OBVIOUS
  <2> HIDE DEF Bad
  <2> QED BY <2>1, LeastNatural
<1>3. PICK u \in 1..N : S[t] = S[u] /\ t # u
  OBVIOUS
<1>4. t \in 1..N
  OBVIOUS
<1> DEFINE a == c.tys[t].subs
           b == c.tys[u].subs
<1>5. /\ S[t] = <<c.tys[t].kind, c.tys[t].num, [i \in 1..Len(a) |-> S[a[i]]]>>
      /\ S[u] = <<c.tys[u].kind, c.tys[u].num, [i \in 1..Len(b) |-> S[b[i]]]>>
  BY <1>1, <1>4, StructureIs DEF Row
<1>6. /\ Sequence(a) /\ Sequence(b)
      /\ \A i \in 1..Len(a) : a[i] \in 1..(t - 1)
      /\ \A i \in 1..Len(b) : b[i] \in 1..(u - 1)
  BY <1>1, <1>4 DEF WellFounded
<1>7. \A v \in 1..(t - 1), w \in 1..N : S[v] = S[w] => v = w
  <2> TAKE v \in 1..(t - 1), w \in 1..N
  <2>1. v \in 1..N /\ ~(t <= v)
    BY <1>1, <1>4
  <2>2. v \notin Bad
    BY <1>2, <2>1
  <2> QED BY <2>1, <2>2
<1> HIDE DEF Bad, S, a, b
<1>8. /\ c.tys[t].kind = c.tys[u].kind /\ c.tys[t].num = c.tys[u].num
      /\ [i \in 1..Len(a) |-> S[a[i]]] = [i \in 1..Len(b) |-> S[b[i]]]
  <2> DEFINE f == [i \in 1..Len(a) |-> S[a[i]]]
             g == [i \in 1..Len(b) |-> S[b[i]]]
  <2>1. <<c.tys[t].kind, c.tys[t].num, f>> = <<c.tys[u].kind, c.tys[u].num, g>>
    BY <1>3, <1>5
  <2> HIDE DEF f, g
  <2>2. c.tys[t].kind = c.tys[u].kind /\ c.tys[t].num = c.tys[u].num /\ f = g
    BY <2>1
  <2> QED BY <2>2 DEF f, g
<1>9. Len(a) = Len(b)
  <2> DEFINE f == [i \in 1..Len(a) |-> S[a[i]]]
             g == [i \in 1..Len(b) |-> S[b[i]]]
  <2>1. f = g
    BY <1>8
  <2>2. DOMAIN f = 1..Len(a) /\ DOMAIN g = 1..Len(b)
    OBVIOUS
  <2>3. 1..Len(a) = 1..Len(b)
    BY <2>1, <2>2
  <2>4. \A m, n \in Nat : 1..m = 1..n => m = n
    <3> TAKE m, n \in Nat
    <3> HAVE 1..m = 1..n
    <3>1. m # 0 => m \in 1..n
      OBVIOUS
    <3>2. n # 0 => n \in 1..m
      OBVIOUS
    <3> QED BY <3>1, <3>2
  <2> QED BY <1>6, <2>3, <2>4 DEF Sequence
<1>10. \A i \in 1..Len(a) : a[i] = b[i]
  <2> TAKE i \in 1..Len(a)
  <2>1. S[a[i]] = S[b[i]]
    BY <1>8, <1>9
  <2>2. a[i] \in 1..(t - 1) /\ b[i] \in 1..N
    BY <1>1, <1>3, <1>6, <1>9
  <2> QED BY <1>7, <2>1, <2>2
<1>11. a = b
  BY <1>6, <1>9, <1>10 DEF Sequence
<1>12. t = u
  BY <1>3, <1>4, <1>8, <1>11, SameParts DEF a, b
<1> QED BY <1>3, <1>12

-----------------------------------------------------------------------------
(* Types of the state.                                                     *)

DeclFields == {"toks", "ret", "retTerm", "failed", "kind", "base", "cur",
               "closed", "term", "exact"}

\* The types that a declaration, parameters and members refer to are there.
DeclTyped(d, n) ==
    /\ d = [f \in DeclFields |-> d[f]]
    /\ d.ret \in 0..n /\ d.base \in 0..n /\ d.cur \in 0..n

PartsTyped(parts, n) ==
    /\ Sequence(parts)
    /\ \A i \in 1..Len(parts) : parts[i].ty \in 0..n

Typed ==
    /\ Sound(ctx)
    /\ DeclTyped(decl, Newest(ctx))
    /\ PartsTyped(params, Newest(ctx))
    /\ PartsTyped(members, Newest(ctx))

LEMMA EmptyParts ==
    ASSUME NEW n
    PROVE  PartsTyped(<< >>, n)
BY EmptySequence DEF PartsTyped

LEMMA PartAdded ==
    ASSUME NEW parts, NEW n \in Nat, PartsTyped(parts, n),
           NEW e, e.ty \in 0..n
    PROVE  PartsTyped(Append(parts, e), n)
<1>1. /\ Sequence(Append(parts, e))
      /\ Len(Append(parts, e)) = Len(parts) + 1
      /\ \A i \in 1..Len(parts) : Append(parts, e)[i] = parts[i]
      /\ Append(parts, e)[Len(parts) + 1] = e
  BY SequenceOf DEF PartsTyped
<1>2. Len(parts) \in Nat
  BY DEF PartsTyped, Sequence
<1> QED BY <1>1, <1>2 DEF PartsTyped

\* What refers to types of the context refers to types of every later one.
LEMMA TypedStays ==
    ASSUME NEW n \in Nat, NEW m \in Nat, n <= m
    PROVE  /\ \A d : DeclTyped(d, n) => DeclTyped(d, m)
           /\ \A parts : PartsTyped(parts, n) => PartsTyped(parts, m)
<1>1. 0..n \subseteq 0..m /\ 1..n \subseteq 1..m
  OBVIOUS
<1>2. \A d : DeclTyped(d, n) => DeclTyped(d, m)
  BY <1>1 DEF DeclTyped
<1>3. \A parts : PartsTyped(parts, n) => PartsTyped(parts, m)
  BY <1>1 DEF PartsTyped
<1> QED BY <1>2, <1>3

LEMMA NewDeclTyped ==
    ASSUME NEW n \in Nat
    PROVE  DeclTyped(NewDecl, n)
<1>1. NewDecl = [f \in DeclFields |-> NewDecl[f]]
  BY DEF NewDecl, DeclFields
<1> QED BY <1>1 DEF DeclTyped, NewDecl, NoType

LEMMA EmptyContextSound == Sound(EmptyContext)
<1> DEFINE c == EmptyContext
<1>1. Kept(c)
  BY EmptyContextKept
<1>2. /\ c.tys = [i \in 1..Len(Primitives) |-> TypeOf(Primitives[i], << >>, 0)]
      /\ \A m \in Maps : DOMAIN c[m] = {}
      /\ Len(Primitives) = 14
  BY DEF EmptyContext, Maps, NoMap, Primitives
<1>3. Newest(c) = 14 /\ Made(c) = {}
  <2>1. Newest(c) \in Nat
    BY <1>1, SizesOf
  <2>2. \A t \in 15..Newest(c) : FALSE
    <3> SUFFICES ASSUME NEW t \in 15..Newest(c) PROVE FALSE
      OBVIOUS
    <3>1. t \in Made(c)
      BY <1>1, SizesOf
    <3>2. Keyed(c, t) /\ Sequence(c.tys)
      BY <1>1, <3>1 DEF Kept, Shape
    <3>3. t \in DOMAIN c.tys
      BY <2>1, <3>2 DEF Sequence, Newest
    <3> QED BY <1>2, <3>3
  <2>3. Newest(c) >= 14 /\ Made(c) = 15..Newest(c)
    BY <1>1, SizesOf
  <2> QED BY <2>1, <2>2, <2>3
<1> HIDE DEF c
<1>4. \A t \in 1..14 : c.tys[t] = TypeOf(Primitives[t], << >>, 0)
  BY <1>2
<1>5. Leads(c) /\ NamesIn(c) /\ Began(c)
  BY <1>2, <1>3, <1>4 DEF Leads, NamesIn, Began
<1>6. WellFounded(c)
  <2> DEFINE none == << >>
  <2>1. \A t \in 1..14 : c.tys[t].subs = none
    BY <1>4 DEF TypeOf
  <2>2. Sequence(none) /\ 1..Len(none) = {}
    BY EmptySequence
  <2> HIDE DEF none
  <2>3. \A t \in 1..14 : /\ Sequence(c.tys[t].subs)
                          /\ \A i \in 1..Len(c.tys[t].subs) : c.tys[t].subs[i] \in 1..(t - 1)
    BY <2>1, <2>2
  <2> QED BY <1>3, <2>3 DEF WellFounded
<1> QED BY <1>1, <1>5, <1>6 DEF Sound, c

LEMMA SignTyped ==
    ASSUME NEW t
    PROVE  GetSigned(t) \in 0..14 /\ GetUnsigned(t) \in 0..14
<1>0. Len(Primitives) = 14
  BY DEF Primitives
<1>1. \A name \in UInts : SignedOf[name] \in PrimNames
  BY DEF UInts, SignedOf, PrimNames
<1>2. \A name \in SInts : UnsignedOf[name] \in PrimNames
  BY DEF SInts, UnsignedOf, PrimNames
<1>3. PrimIn(t, UInts) => Prim(SignedOf[Primitives[t]]) \in 0..14
  BY <1>1, PrimIs DEF PrimIn
<1>4. PrimIn(t, SInts) => Prim(UnsignedOf[Primitives[t]]) \in 0..14
  BY <1>2, PrimIs DEF PrimIn
<1>5. PrimIn(t, UInts) \/ PrimIn(t, SInts) => t \in 0..14
  BY <1>0 DEF PrimIn
<1> QED BY <1>3, <1>4, <1>5 DEF GetSigned, GetUnsigned, NoType

LEMMA SpecTypeTyped ==
    ASSUME Typed
    PROVE  SpecType \in 0..Newest(ctx) /\ Prim("si32") \in 1..Newest(ctx)
<1>1. Newest(ctx) \in Nat /\ 14 <= Newest(ctx) /\ decl.ret \in 0..Newest(ctx)
  BY SizesOf DEF Typed, Sound, DeclTyped
<1>2. \A name \in PrimNames : Prim(name) \in 1..Newest(ctx)
  BY <1>1, PrimIs
<1>3. \A t : GetSigned(t) \in 0..Newest(ctx) /\ GetUnsigned(t) \in 0..Newest(ctx)
  BY <1>1, SignTyped
<1>4. Width \in 0..Newest(ctx)
  BY <1>1, <1>2 DEF Width, PrimNames
<1> QED BY <1>2, <1>3, <1>4 DEF SpecType, PrimNames

\* A step that leaves the context alone.
LEMMA SameContext ==
    ASSUME Typed, UNCHANGED ctx,
           DeclTyped(decl', Newest(ctx)),
           PartsTyped(params', Newest(ctx)),
           PartsTyped(members', Newest(ctx))
    PROVE  Typed'
BY DEF Typed

\* A step that makes a type.
LEMMA NextContext ==
    ASSUME Typed, NEW r, NEW kind, NEW subs, NEW num, Makes(ctx, r, kind, subs, num),
           ctx' = r.c,
           DeclTyped(decl', Newest(r.c)),
           params' \in {params, << >>}, members' \in {members, << >>}
    PROVE  Typed'
<1>1. Newest(ctx) \in Nat /\ Newest(r.c) \in Nat /\ Newest(ctx) <= Newest(r.c)
  BY SizesOf DEF Typed, Sound, Makes, Extended
<1>2. PartsTyped(params', Newest(r.c))
  BY <1>1, TypedStays, EmptyParts DEF Typed
<1>3. PartsTyped(members', Newest(r.c))
  BY <1>1, TypedStays, EmptyParts DEF Typed
<1>4. Sound(r.c)
  BY DEF Makes
<1> QED BY <1>2, <1>3, <1>4 DEF Typed

ParamsHaveTypes == \A i \in 1..Len(params) : params[i].ty # NoType

LEMMA TypedParams ==
    ASSUME Typed
    PROVE  /\ Newest(ctx) \in Nat /\ 14 <= Newest(ctx)
           /\ [i \in 1..Len(params) |-> params[i].ty] \in Seq(0..Newest(ctx))
           /\ ParamsHaveTypes =>
                  [i \in 1..Len(params) |-> params[i].ty] \in Seq(1..Newest(ctx))
<1>1. Len(params) \in Nat /\ \A i \in 1..Len(params) : params[i].ty \in 0..Newest(ctx)
  BY DEF Typed, PartsTyped, Sequence
<1>2. Newest(ctx) \in Nat /\ 14 <= Newest(ctx)
  BY SizesOf DEF Typed, Sound
<1>3. ParamsHaveTypes => \A i \in 1..Len(params) : params[i].ty \in 1..Newest(ctx)
  BY <1>1, <1>2 DEF ParamsHaveTypes, NoType
<1> QED BY <1>1, <1>2, <1>3

-----------------------------------------------------------------------------
(* What the actions do to the declaration at hand.                         *)

\* A declaration of these fields.
IsDecl(e, toks, ret, retTerm, failed, kind, base, cur, closed, term, exact) ==
    /\ e = [f \in DeclFields |-> e[f]]
    /\ e.toks = toks /\ e.ret = ret /\ e.retTerm = retTerm /\ e.failed = failed
    /\ e.kind = kind /\ e.base = base /\ e.cur = cur /\ e.closed = closed
    /\ e.term = term /\ e.exact = exact

\* What the updates of the actions leave and set.
LEMMA DeclSet ==
    ASSUME NEW d, d = [f \in DeclFields |-> d[f]],
           NEW a, NEW b, NEW c, NEW e
    PROVE  /\ IsDecl([d EXCEPT !.toks = a, !.failed = b],
                     a, d.ret, d.retTerm, b, d.kind, d.base, d.cur, d.closed, d.term, d.exact)
           /\ IsDecl([d EXCEPT !.toks = a, !.ret = b, !.retTerm = c, !.exact = e],
                     a, b, c, d.failed, d.kind, d.base, d.cur, d.closed, d.term, e)
           /\ IsDecl([d EXCEPT !.kind = a, !.base = b, !.cur = b, !.term = c],
                     d.toks, d.ret, d.retTerm, d.failed, a, b, b, d.closed, c, d.exact)
           /\ IsDecl([d EXCEPT !.cur = a, !.term = b, !.exact = c],
                     d.toks, d.ret, d.retTerm, d.failed, d.kind, d.base, a, d.closed, b, c)
           /\ IsDecl([d EXCEPT !.cur = a, !.exact = c, !.term = b, !.closed = e],
                     d.toks, d.ret, d.retTerm, d.failed, d.kind, d.base, a, e, b, c)
           /\ IsDecl([d EXCEPT !.cur = a, !.closed = b, !.term = c],
                     d.toks, d.ret, d.retTerm, d.failed, d.kind, d.base, a, b, c, d.exact)
           /\ IsDecl([d EXCEPT !.term = a],
                     d.toks, d.ret, d.retTerm, d.failed, d.kind, d.base, d.cur, d.closed, a, d.exact)
<1>1. IsDecl([d EXCEPT !.toks = a, !.failed = b],
             a, d.ret, d.retTerm, b, d.kind, d.base, d.cur, d.closed, d.term, d.exact)
  BY DEF IsDecl, DeclFields
<1>2. IsDecl([d EXCEPT !.toks = a, !.ret = b, !.retTerm = c, !.exact = e],
             a, b, c, d.failed, d.kind, d.base, d.cur, d.closed, d.term, e)
  BY DEF IsDecl, DeclFields
<1>3. IsDecl([d EXCEPT !.kind = a, !.base = b, !.cur = b, !.term = c],
             d.toks, d.ret, d.retTerm, d.failed, a, b, b, d.closed, c, d.exact)
  BY DEF IsDecl, DeclFields
<1>4. IsDecl([d EXCEPT !.cur = a, !.term = b, !.exact = c],
             d.toks, d.ret, d.retTerm, d.failed, d.kind, d.base, a, d.closed, b, c)
  BY DEF IsDecl, DeclFields
<1>5. IsDecl([d EXCEPT !.cur = a, !.exact = c, !.term = b, !.closed = e],
             d.toks, d.ret, d.retTerm, d.failed, d.kind, d.base, a, e, b, c)
  BY DEF IsDecl, DeclFields
<1>6. IsDecl([d EXCEPT !.cur = a, !.closed = b, !.term = c],
             d.toks, d.ret, d.retTerm, d.failed, d.kind, d.base, a, b, c, d.exact)
  BY DEF IsDecl, DeclFields
<1>7. IsDecl([d EXCEPT !.term = a],
             d.toks, d.ret, d.retTerm, d.failed, d.kind, d.base, d.cur, d.closed, a, d.exact)
  BY DEF IsDecl, DeclFields
<1> QED BY <1>1, <1>2, <1>3, <1>4, <1>5, <1>6, <1>7

MadeStruct  == CreateStruct(ctx, Contained(members))
MemberTerms == [i \in 1..Len(members) |-> members[i].term]
StructTerm  ==
    IF NoTerm \in {MemberTerms[i] : i \in 1..Len(members)} THEN NoTerm
    ELSE Term("struct", MadeStruct.c.tys[MadeStruct.ty].num, MemberTerms)
AllKept == \A i \in 1..Len(members) : members[i].exact /\ members[i].ty # NoType

LEMMA StructBodyDoes ==
    ASSUME NEW name, StructBody(name), ~(name # Unnamed /\ NameTaken(ctx, name)),
           decl = [f \in DeclFields |-> decl[f]]
    PROVE  /\ ctx' = SetName(MadeStruct.c, MadeStruct.ty, name)
           /\ IsDecl(decl', Append(decl.toks, "struct"),
                     IF decl.ret = NoType THEN MadeStruct.ty ELSE decl.ret,
                     StructTerm, decl.failed, decl.kind, decl.base, decl.cur,
                     decl.closed, decl.term, AllKept)
           /\ members' = << >> /\ UNCHANGED <<stopped, params>>
           /\ InSpecs
<1>1. /\ ctx' = SetName(MadeStruct.c, MadeStruct.ty, name)
      /\ decl' = [decl EXCEPT
                      !.toks = Append(@, "struct"),
                      !.ret = IF @ = NoType THEN MadeStruct.ty ELSE @,
                      !.retTerm = StructTerm,
                      !.exact = AllKept]
      /\ members' = << >>
      /\ UNCHANGED <<stopped, params>>
      /\ InSpecs
  BY DEF StructBody, MadeStruct, StructTerm, MemberTerms, AllKept
<1>2. decl' = [decl EXCEPT
                      !.toks = Append(decl.toks, "struct"),
                      !.ret = IF decl.ret = NoType THEN MadeStruct.ty ELSE decl.ret,
                      !.retTerm = StructTerm,
                      !.exact = AllKept]
  BY <1>1
<1> DEFINE a == Append(decl.toks, "struct")
           b == IF decl.ret = NoType THEN MadeStruct.ty ELSE decl.ret
<1>3. IsDecl([decl EXCEPT !.toks = a, !.ret = b, !.retTerm = StructTerm, !.exact = AllKept],
             a, b, StructTerm, decl.failed, decl.kind, decl.base, decl.cur,
             decl.closed, decl.term, AllKept)
  <2> HIDE DEF a, b
  <2> QED BY DeclSet
<1> QED BY <1>1, <1>2, <1>3

\* The type that the specifiers give the declarator.
BaseOf(kind) ==
    IF ~decl.failed THEN SpecType
    ELSE IF kind \in {"function", "parameter"} THEN Prim("si32")
    ELSE NoType

LEMMA EndSpecsDoes ==
    ASSUME NEW kind, EndSpecs(kind), decl = [f \in DeclFields |-> decl[f]]
    PROVE  /\ IsDecl(decl', decl.toks, decl.ret, decl.retTerm, decl.failed, kind,
                     BaseOf(kind), BaseOf(kind), decl.closed, CTerm, decl.exact)
           /\ UNCHANGED <<ctx, stopped, params, members>>
           /\ stopped = Running /\ decl.kind = "specifiers"
<1>1. /\ decl' = [decl EXCEPT !.kind = kind, !.base = BaseOf(kind),
                              !.cur = BaseOf(kind), !.term = CTerm]
      /\ UNCHANGED <<ctx, stopped, params, members>>
      /\ stopped = Running /\ decl.kind = "specifiers"
  BY DEF EndSpecs, BaseOf
<1> HIDE DEF BaseOf, CTerm
<1> QED BY <1>1, DeclSet

LEMMA SpecifierDoes ==
    ASSUME NEW tok, Specifier(tok), decl = [f \in DeclFields |-> decl[f]]
    PROVE  /\ \/ /\ tok = "enum" /\ decl.ret = NoType
                 /\ stopped' = "enum" /\ UNCHANGED decl
              \/ /\ ~(tok = "enum" /\ decl.ret = NoType)
                 /\ IsDecl(decl', Append(decl.toks, tok), decl.ret, decl.retTerm,
                           Rejects(tok), decl.kind, decl.base, decl.cur, decl.closed,
                           decl.term, decl.exact)
                 /\ UNCHANGED stopped
           /\ UNCHANGED <<ctx, params, members>>
           /\ InSpecs
<1>1. /\ \/ /\ tok = "enum" /\ decl.ret = NoType
            /\ stopped' = "enum" /\ UNCHANGED decl
         \/ /\ ~(tok = "enum" /\ decl.ret = NoType)
            /\ decl' = [decl EXCEPT !.toks = Append(decl.toks, tok), !.failed = Rejects(tok)]
            /\ UNCHANGED stopped
      /\ UNCHANGED <<ctx, params, members>>
      /\ InSpecs
  BY DEF Specifier, Stop
<1>2. IsDecl([decl EXCEPT !.toks = Append(decl.toks, tok), !.failed = Rejects(tok)],
             Append(decl.toks, tok), decl.ret, decl.retTerm, Rejects(tok), decl.kind,
             decl.base, decl.cur, decl.closed, decl.term, decl.exact)
  BY DeclSet
<1> HIDE DEF Rejects, InSpecs, IsDecl
<1> QED BY <1>1, <1>2

LEMMA OnwardDoes ==
    ASSUME NEW got, NEW term, NEW exact, Onward(got, term, exact),
           decl = [f \in DeclFields |-> decl[f]]
    PROVE  /\ ctx' = got.c
           /\ IsDecl(decl', decl.toks, decl.ret, decl.retTerm, decl.failed, decl.kind,
                     decl.base, got.ty, decl.closed, term, exact)
           /\ UNCHANGED <<stopped, params, members>>
BY DeclSet DEF Onward

LEMMA CloseDoes ==
    ASSUME NEW term, Close(term), decl = [f \in DeclFields |-> decl[f]]
    PROVE  /\ IsDecl(decl', decl.toks, decl.ret, decl.retTerm, decl.failed, decl.kind,
                     decl.base, NoType, TRUE, term, decl.exact)
           /\ UNCHANGED <<ctx, stopped, params, members>>
BY DeclSet DEF Close

LEMMA AssertionDoes ==
    ASSUME NEW why, NEW term, Assertion(why, term), decl = [f \in DeclFields |-> decl[f]]
    PROVE  /\ stopped' = why
           /\ IsDecl(decl', decl.toks, decl.ret, decl.retTerm, decl.failed, decl.kind,
                     decl.base, decl.cur, decl.closed, term, decl.exact)
           /\ UNCHANGED <<ctx, params, members>>
BY DeclSet DEF Assertion

\* The parameters of a function declarator, and what C makes of it.
ParamTypes == [i \in 1..Len(params) |-> params[i].ty]
ParamsKept == \A i \in 1..Len(params) :
                  params[i].exact /\ ~IsTerm(params[i].term, {"array"})
GotFunction == GetFunction(ctx, decl.cur, ParamTypes)

LEMMA FuncDecltrDoes ==
    ASSUME Typed, FuncDecltr
    PROVE  \/ /\ decl.cur = NoType \/ ~ParamsHaveTypes
              /\ Assertion("no type", CFunction(decl.term, params))
           \/ /\ decl.cur = NoType /\ decl.kind # "function"
              /\ Close(CFunction(decl.term, params))
           \/ /\ decl.cur # NoType /\ ~ValidReturn(ctx, decl.cur)
              /\ Assertion("result", CFunction(decl.term, params))
           \/ /\ decl.cur # NoType /\ \E i \in 1..Len(params) : ~ValidArgument(ctx, params[i].ty)
              /\ Assertion("argument", CFunction(decl.term, params))
           \/ /\ decl.cur # NoType /\ ValidReturn(ctx, decl.cur) /\ ParamsHaveTypes
              /\ \A i \in 1..Len(params) : ValidArgument(ctx, params[i].ty)
              /\ ctx' = GotFunction.c
              /\ IsDecl(decl', decl.toks, decl.ret, decl.retTerm, decl.failed, decl.kind,
                        decl.base, GotFunction.ty, decl.kind = "function",
                        CFunction(decl.term, params), decl.exact /\ ParamsKept)
              /\ params' = << >> /\ UNCHANGED <<stopped, members>>
<1> DEFINE term == CFunction(decl.term, params)
           next == [decl EXCEPT !.cur = GotFunction.ty, !.exact = decl.exact /\ ParamsKept,
                                !.term = term, !.closed = (decl.kind = "function")]
<1>5. decl = [f \in DeclFields |-> decl[f]]
  BY DEF Typed, DeclTyped
<1>0. Len(ParamTypes) = Len(params) /\ \A i \in 1..Len(params) : ParamTypes[i] = params[i].ty
  BY TypedParams DEF ParamTypes
<1>6. ParamsHaveTypes <=> ~\E i \in 1..Len(ParamTypes) : ParamTypes[i] = NoType
  BY <1>0 DEF ParamsHaveTypes
<1>1. \/ /\ decl.cur = NoType \/ \E i \in 1..Len(ParamTypes) : ParamTypes[i] = NoType
         /\ Assertion("no type", term)
      \/ /\ decl.cur = NoType /\ decl.kind # "function"
         /\ Close(term)
      \/ /\ decl.cur # NoType /\ ~ValidReturn(ctx, decl.cur)
         /\ Assertion("result", term)
      \/ /\ decl.cur # NoType /\ \E i \in 1..Len(ParamTypes) : ~ValidArgument(ctx, ParamTypes[i])
         /\ Assertion("argument", term)
      \/ /\ decl.cur # NoType /\ ValidReturn(ctx, decl.cur)
         /\ ~\E i \in 1..Len(ParamTypes) : ParamTypes[i] = NoType
         /\ \A i \in 1..Len(ParamTypes) : ValidArgument(ctx, ParamTypes[i])
         /\ ctx' = GotFunction.c
         /\ decl' = next
         /\ params' = << >> /\ UNCHANGED <<stopped, members>>
  BY DEF FuncDecltr, ParamTypes, GotFunction, ParamsKept
<1>2. IsDecl(next, decl.toks, decl.ret, decl.retTerm, decl.failed, decl.kind,
             decl.base, GotFunction.ty, decl.kind = "function",
             term, decl.exact /\ ParamsKept)
  <2> DEFINE a == GotFunction.ty
             c == decl.exact /\ ParamsKept
             e == (decl.kind = "function")
  <2>1. next = [decl EXCEPT !.cur = a, !.exact = c, !.term = term, !.closed = e]
    OBVIOUS
  <2> HIDE DEF a, c, e, term, next
  <2>2. IsDecl(next, decl.toks, decl.ret, decl.retTerm, decl.failed, decl.kind,
               decl.base, a, e, term, c)
    BY <1>5, <2>1, DeclSet
  <2> QED BY <2>2 DEF a, c, e
<1> HIDE DEF next, term, GotFunction, ParamsKept, ParamTypes
<1>3. CASE decl.cur # NoType /\ \E i \in 1..Len(ParamTypes) : ~ValidArgument(ctx, ParamTypes[i])
                             /\ Assertion("argument", term)
  BY <1>0, <1>3 DEF term
<1>4. CASE /\ decl.cur # NoType /\ ValidReturn(ctx, decl.cur)
           /\ ~\E i \in 1..Len(ParamTypes) : ParamTypes[i] = NoType
           /\ \A i \in 1..Len(ParamTypes) : ValidArgument(ctx, ParamTypes[i])
           /\ ctx' = GotFunction.c
           /\ decl' = next
           /\ params' = << >> /\ UNCHANGED <<stopped, members>>
  <2>1. ParamsHaveTypes /\ \A i \in 1..Len(params) : ValidArgument(ctx, params[i].ty)
    BY <1>0, <1>4, <1>6
  <2>2. IsDecl(decl', decl.toks, decl.ret, decl.retTerm, decl.failed, decl.kind,
               decl.base, GotFunction.ty, decl.kind = "function",
               term, decl.exact /\ ParamsKept)
    BY <1>2, <1>4
  <2> QED BY <1>4, <2>1, <2>2 DEF term
<1> QED BY <1>1, <1>3, <1>4, <1>6 DEF term

LEMMA IsDeclTyped ==
    ASSUME NEW e, NEW toks, NEW ret, NEW retTerm, NEW failed, NEW kind, NEW base, NEW cur,
           NEW closed, NEW term, NEW exact, NEW n,
           IsDecl(e, toks, ret, retTerm, failed, kind, base, cur, closed, term, exact),
           ret \in 0..n, base \in 0..n, cur \in 0..n
    PROVE  DeclTyped(e, n)
BY DEF IsDecl, DeclTyped

LEMMA DeclIsTyped ==
    ASSUME Typed
    PROVE  /\ decl = [f \in DeclFields |-> decl[f]]
           /\ decl.ret \in 0..Newest(ctx) /\ decl.base \in 0..Newest(ctx)
           /\ decl.cur \in 0..Newest(ctx) /\ NoType \in 0..Newest(ctx)
           /\ decl.cur # NoType => decl.cur \in 1..Newest(ctx)
           /\ Sound(ctx) /\ Newest(ctx) \in Nat
           /\ PartsTyped(params, Newest(ctx)) /\ PartsTyped(members, Newest(ctx))
BY TypedParams DEF Typed, DeclTyped, NoType

LEMMA SpecifierTyped ==
    ASSUME Typed, NEW tok, Specifier(tok)
    PROVE  Typed'
<1>1. DeclTyped(decl', Newest(ctx))
  <2>1. CASE UNCHANGED decl
    BY <2>1 DEF Typed
  <2>2. CASE ~UNCHANGED decl
    <3>1. IsDecl(decl', Append(decl.toks, tok), decl.ret, decl.retTerm,
                 Rejects(tok), decl.kind, decl.base, decl.cur, decl.closed,
                 decl.term, decl.exact)
      BY <2>2, DeclIsTyped, SpecifierDoes
    <3> QED BY <3>1, IsDeclTyped, DeclIsTyped
  <2> QED BY <2>1, <2>2
<1>2. UNCHANGED <<ctx, params, members>>
  BY DeclIsTyped, SpecifierDoes
<1> QED BY <1>1, <1>2, SameContext DEF Typed

\* What StructBody makes.
LEMMA StructBodyMakes ==
    ASSUME Typed, NEW name \in StructNames \cup {Unnamed},
           ~(name # Unnamed /\ NameTaken(ctx, name))
    PROVE  Makes(ctx, Result(SetName(MadeStruct.c, MadeStruct.ty, name), MadeStruct.ty),
                 "struct", Contained(members), MadeStruct.c.tys[MadeStruct.ty].num)
<1>1. Sound(ctx) /\ Newest(ctx) \in Nat
  BY DeclIsTyped
<1>2. Contained(members) \in Seq(1..Newest(ctx))
  BY <1>1, ContainedIs DEF Typed, PartsTyped
<1>3. name # Unnamed => name \notin DOMAIN ctx.namedStructTypes
  BY DEF NameTaken
<1> HIDE DEF Newest
<1> QED BY <1>1, <1>2, <1>3, StructMade DEF MadeStruct

LEMMA StructBodyTyped ==
    ASSUME Typed, NEW name \in StructNames \cup {Unnamed}, StructBody(name)
    PROVE  Typed'
<1>1. CASE name # Unnamed /\ NameTaken(ctx, name)
  BY <1>1, SameContext DEF StructBody, Stop, Typed
<1>2. CASE ~(name # Unnamed /\ NameTaken(ctx, name))
  <2> DEFINE r    == Result(SetName(MadeStruct.c, MadeStruct.ty, name), MadeStruct.ty)
             num  == MadeStruct.c.tys[MadeStruct.ty].num
             ret  == IF decl.ret = NoType THEN MadeStruct.ty ELSE decl.ret
  <2>1. Makes(ctx, r, "struct", Contained(members), num)
    BY <1>2, StructBodyMakes
  <2>2. /\ ctx' = r.c /\ r.ty = MadeStruct.ty
        /\ IsDecl(decl', Append(decl.toks, "struct"), ret,
                  StructTerm, decl.failed, decl.kind, decl.base, decl.cur,
                  decl.closed, decl.term, AllKept)
        /\ members' = << >> /\ UNCHANGED params
    BY <1>2, DeclIsTyped, StructBodyDoes DEF Result
  <2> HIDE DEF r, num
  <2>3. /\ Newest(ctx) \in Nat /\ Newest(r.c) \in Nat /\ Newest(ctx) <= Newest(r.c)
        /\ r.ty \in 1..Newest(r.c)
    BY <2>1, SizesOf DEF Makes, Extended, Typed, Sound
  <2>4. DeclTyped(decl, Newest(r.c))
    BY <2>3, TypedStays DEF Typed
  <2>5. ret \in 0..Newest(r.c)
    BY <2>2, <2>3, <2>4 DEF DeclTyped
  <2> HIDE DEF ret
  <2>6. DeclTyped(decl', Newest(r.c))
    BY <2>2, <2>4, <2>5, IsDeclTyped DEF DeclTyped
  <2> QED BY <2>1, <2>2, <2>6, NextContext
<1> QED BY <1>1, <1>2

LEMMA BaseTyped ==
    ASSUME Typed, NEW kind
    PROVE  BaseOf(kind) \in 0..Newest(ctx)
<1>1. /\ SpecType \in 0..Newest(ctx) /\ Prim("si32") \in 0..Newest(ctx)
      /\ NoType \in 0..Newest(ctx)
  BY SpecTypeTyped, DeclIsTyped
<1> QED BY <1>1 DEF BaseOf

LEMMA EndSpecsTyped ==
    ASSUME Typed, NEW kind, EndSpecs(kind)
    PROVE  Typed'
<1>1. /\ IsDecl(decl', decl.toks, decl.ret, decl.retTerm, decl.failed, kind,
                BaseOf(kind), BaseOf(kind), decl.closed, CTerm, decl.exact)
      /\ UNCHANGED <<ctx, stopped, params, members>>
  BY DeclIsTyped, EndSpecsDoes
<1>2. DeclTyped(decl', Newest(ctx))
  BY <1>1, BaseTyped, DeclIsTyped, IsDeclTyped
<1> QED BY <1>1, <1>2, SameContext DEF Typed

\* Onward to a type that was made.
LEMMA OnwardTyped ==
    ASSUME Typed, NEW got, NEW term, NEW exact, NEW closed, NEW kind, NEW subs, NEW num,
           Makes(ctx, got, kind, subs, num),
           ctx' = got.c,
           IsDecl(decl', decl.toks, decl.ret, decl.retTerm, decl.failed, decl.kind,
                  decl.base, got.ty, closed, term, exact),
           params' \in {params, << >>}, members' = members
    PROVE  Typed'
<1>1. /\ Newest(ctx) \in Nat /\ Newest(got.c) \in Nat /\ Newest(ctx) <= Newest(got.c)
      /\ got.ty \in 1..Newest(got.c)
  BY SizesOf DEF Makes, Extended, Typed, Sound
<1>2. DeclTyped(decl, Newest(got.c))
  BY <1>1, TypedStays DEF Typed
<1>3. got.ty \in 0..Newest(got.c)
  BY <1>1
<1>4. DeclTyped(decl', Newest(got.c))
  BY <1>2, <1>3, IsDeclTyped DEF DeclTyped
<1> QED BY <1>4, NextContext

LEMMA CloseTyped ==
    ASSUME Typed, NEW term, NEW why, Close(term) \/ Assertion(why, term)
    PROVE  Typed'
<1>1. DeclTyped(decl', Newest(ctx))
  <2>1. CASE Close(term)
    <3>1. IsDecl(decl', decl.toks, decl.ret, decl.retTerm, decl.failed, decl.kind,
                 decl.base, NoType, TRUE, term, decl.exact)
      BY <2>1, DeclIsTyped, CloseDoes
    <3> QED BY <3>1, DeclIsTyped, IsDeclTyped
  <2>2. CASE Assertion(why, term)
    <3>1. IsDecl(decl', decl.toks, decl.ret, decl.retTerm, decl.failed, decl.kind,
                 decl.base, decl.cur, decl.closed, term, decl.exact)
      BY <2>2, DeclIsTyped, AssertionDoes
    <3> QED BY <3>1, DeclIsTyped, IsDeclTyped
  <2> QED BY <2>1, <2>2
<1>2. UNCHANGED <<ctx, params, members>>
  BY DEF Close, Assertion
<1> QED BY <1>1, <1>2, SameContext DEF Typed

LEMMA DeclaratorTyped ==
    ASSUME Typed,
           \/ PointerDecltr \/ FuncDecltr \/ UnsizedDecltr
           \/ \E n \in ArraySizes, literal \in BOOLEAN : ArrayDecltr(n, literal)
    PROVE  Typed'
<1>1. CASE PointerDecltr
  <2>1. CASE \E term, why : Assertion(why, term)
    BY <2>1, CloseTyped
  <2>2. CASE /\ decl.cur # NoType
             /\ Onward(GetPointer(ctx, decl.cur), CPointer(decl.term), decl.exact)
    <3>1. Makes(ctx, GetPointer(ctx, decl.cur), "pointer", <<decl.cur>>, 0)
      BY <2>2, DeclIsTyped, PointerMade
    <3> QED BY <2>2, <3>1, DeclIsTyped, OnwardDoes, OnwardTyped
  <2> QED BY <1>1, <2>1, <2>2 DEF PointerDecltr
<1>2. ASSUME NEW n \in ArraySizes, NEW literal \in BOOLEAN, ArrayDecltr(n, literal)
      PROVE  Typed'
  <2>1. CASE \E term, why : Close(term) \/ Assertion(why, term)
    BY <2>1, CloseTyped
  <2>2. CASE /\ decl.cur # NoType
             /\ Onward(GetArray(ctx, decl.cur, n), CArray(decl.term, n), decl.exact)
    <3>1. Makes(ctx, GetArray(ctx, decl.cur, n), "array", <<decl.cur>>, n)
      BY <2>2, DeclIsTyped, ArrayMade
    <3> QED BY <2>2, <3>1, DeclIsTyped, OnwardDoes, OnwardTyped
  <2> QED BY <1>2, <2>1, <2>2 DEF ArrayDecltr
<1>3. CASE FuncDecltr
  <2>1. CASE \E term, why : Close(term) \/ Assertion(why, term)
    BY <2>1, CloseTyped
  <2>2. CASE /\ decl.cur # NoType /\ ParamsHaveTypes
             /\ ctx' = GotFunction.c
             /\ IsDecl(decl', decl.toks, decl.ret, decl.retTerm, decl.failed, decl.kind,
                       decl.base, GotFunction.ty, decl.kind = "function",
                       CFunction(decl.term, params), decl.exact /\ ParamsKept)
             /\ params' = << >> /\ UNCHANGED <<stopped, members>>
    <3>1. Makes(ctx, GotFunction, "function", <<decl.cur>> \o ParamTypes, 0)
      BY <2>2, DeclIsTyped, TypedParams, FunctionMade DEF GotFunction, ParamTypes
    <3> QED BY <2>2, <3>1, OnwardTyped
  <2> QED BY <1>3, <2>1, <2>2, FuncDecltrDoes
<1>4. CASE UnsizedDecltr
  BY <1>4, CloseTyped DEF UnsizedDecltr
<1> QED BY <1>1, <1>2, <1>3, <1>4

\* A member that has a width keeps its type, and C has it only for integers.
LEMMA EndMemberDoes ==
    ASSUME NEW bits \in BOOLEAN, EndMember(bits)
    PROVE  /\ \E part : /\ part.ty = decl.cur
                        /\ \/ part.term = decl.term /\ part.exact = decl.exact
                           \/ part.term = CBitField(decl.term) /\ part.exact = FALSE
                        /\ members' = Append(members, part)
           /\ UNCHANGED <<ctx, stopped, params>> /\ decl' = NewDecl
           /\ stopped = Running /\ decl.kind = "member"
<1> DEFINE part == IF bits THEN [Part(decl.cur) EXCEPT !.term = CBitField(@), !.exact = FALSE]
                   ELSE Part(decl.cur)
<1>1. /\ members' = Append(members, part)
      /\ UNCHANGED <<ctx, stopped, params>> /\ decl' = NewDecl
      /\ stopped = Running /\ decl.kind = "member"
  BY DEF EndMember
<1>2. part.ty = decl.cur
  BY DEF Part
<1>3. \/ part.term = decl.term /\ part.exact = decl.exact
      \/ part.term = CBitField(decl.term) /\ part.exact = FALSE
  BY DEF Part
<1> HIDE DEF part
<1> QED BY <1>1, <1>2, <1>3

\* The end of a declaration.
Ending ==
    \/ AbstractDecltr \/ EndParam \/ EndGlobal \/ EndConverted
    \/ \E bits \in BOOLEAN : EndMember(bits)

LEMMA EndTyped ==
    ASSUME Typed, Ending
    PROVE  Typed'
<1>0. /\ Newest(ctx) \in Nat /\ DeclTyped(NewDecl, Newest(ctx))
      /\ DeclTyped(decl, Newest(ctx))
      /\ PartsTyped(params, Newest(ctx)) /\ PartsTyped(members, Newest(ctx))
  BY TypedParams, NewDeclTyped DEF Typed
<1>1. CASE EndParam
  <2> DEFINE t == IF decl.cur = NoType THEN decl.base ELSE decl.cur
  <2>1. UNCHANGED <<ctx, members>> /\ decl' = NewDecl /\ params' = Append(params, Part(t))
    BY <1>1 DEF EndParam
  <2>2. Part(t).ty \in 0..Newest(ctx)
    BY <1>0 DEF DeclTyped, Part
  <2>3. PartsTyped(params', Newest(ctx))
    BY <1>0, <2>1, <2>2, PartAdded
  <2> QED BY <1>0, <2>1, <2>3, SameContext
<1>2. ASSUME NEW bits \in BOOLEAN, EndMember(bits)
      PROVE  Typed'
  <2>1. PICK part : /\ part.ty = decl.cur /\ members' = Append(members, part)
                    /\ UNCHANGED <<ctx, params>> /\ decl' = NewDecl
    BY <1>2, EndMemberDoes
  <2>2. PartsTyped(members', Newest(ctx))
    BY <1>0, <2>1, PartAdded DEF DeclTyped
  <2> QED BY <1>0, <2>1, <2>2, SameContext
<1>3. CASE AbstractDecltr \/ EndGlobal \/ EndConverted
  <2>1. UNCHANGED <<ctx, params, members>> /\ decl' \in {decl, NewDecl}
    BY <1>3 DEF AbstractDecltr, EndGlobal, EndConverted, Stop
  <2> QED BY <1>0, <2>1, SameContext
<1> QED BY <1>1, <1>2, <1>3 DEF Ending

\* What is known of the types of a compilation, and of what refers to them.
THEOREM TypedInvariant == Spec => []Typed
<1>1. Init => Typed
  <2> SUFFICES ASSUME Init PROVE Typed
    OBVIOUS
  <2>1. ctx = EmptyContext /\ decl = NewDecl /\ params = << >> /\ members = << >>
    BY DEF Init, TypesInit
  <2>2. Sound(ctx) /\ Newest(ctx) \in Nat
    BY <2>1, EmptyContextSound, SizesOf DEF Sound
  <2> QED BY <2>1, <2>2, NewDeclTyped, EmptyParts DEF Typed
<1>2. Typed /\ [Next]_vars => Typed'
  <2> SUFFICES ASSUME Typed, [Next]_vars PROVE Typed'
    OBVIOUS
  <2>1. CASE UNCHANGED vars
    BY <2>1, SameContext DEF vars, Typed
  <2>2. CASE Next
    BY <2>2, SpecifierTyped, StructBodyTyped, EndSpecsTyped, DeclaratorTyped, EndTyped,
       CloseTyped DEF Next, Ending, UnnamedBitField
  <2> QED BY <2>1, <2>2
<1> QED BY <1>1, <1>2, PTL DEF Spec

\* Types are made of types made before them, and every type that is referred
\* to was made (SPLCContext::tys).
THEOREM TypesExist == Spec => []TypeOK
<1>1. Typed => TypeOK
  <2> SUFFICES ASSUME Typed PROVE TypeOK
    OBVIOUS
  <2>1. Derived = Made(ctx)
    BY DEF Derived, Made
  <2> QED BY <2>1 DEF TypeOK, Typed, Sound, WellFounded, NamesIn, DeclTyped, PartsTyped
<1> QED BY <1>1, TypedInvariant, PTL

\* Two types that mean the same are one object, however deep they are: what
\* compares types by address compares types (Parser.yy, FuncDef).
THEOREM TypesAreUnique == Spec => []OneObjectPerType
<1>1. Typed => OneObjectPerType
  <2> SUFFICES ASSUME Typed PROVE OneObjectPerType
    OBVIOUS
  <2>1. Derived \subseteq 1..Newest(ctx) /\ Sound(ctx)
    BY SizesOf DEF Derived, Typed, Sound
  <2> QED BY <2>1, SameMeaning DEF OneObjectPerType
<1> QED BY <1>1, TypedInvariant, PTL

\* The names of structures and the map of names agree, however many
\* structures there are and whatever their names (StructType::setName).
THEOREM NamesAlwaysMatch == Spec => []NamesMatch
<1>1. Typed => NamesMatch
  BY DEF Typed, Sound, Kept, Named, NamesMatch, Made, Derived
<1> QED BY <1>1, TypedInvariant, PTL

\* Two types made of the same parts are one object: a constructor never makes
\* what it could have found (FunctionType::get, ArrayType::get,
\* PointerType::get), and a structure is equal to itself only.
UniqueParts ==
    \A t, u \in Derived :
        /\ Kind(ctx, t) = Kind(ctx, u)
        /\ ctx.tys[t].num = ctx.tys[u].num
        /\ ctx.tys[t].subs = ctx.tys[u].subs
        => t = u

\* No sequence of declarations makes a second type of the same parts; what
\* compares types by address, compares their parts.
THEOREM PartsAreUnique == Spec => []UniqueParts
<1>1. Typed => UniqueParts
  <2> SUFFICES ASSUME Typed PROVE UniqueParts
    OBVIOUS
  <2>1. Kept(ctx) /\ Derived = Made(ctx)
    BY DEF Typed, Sound, Derived, Made
  <2> QED BY <2>1, MadeByParts DEF UniqueParts, Kind
<1> QED BY <1>1, TypedInvariant, PTL

-----------------------------------------------------------------------------
(* Lists of specifiers.                                                    *)

AllToks == BaseToks \cup Signs \cup {"void", "tag", "enum", "struct"}

\* Count, CSet and Repeated, of any list.
CountIn(toks, t) == Cardinality({i \in 1..Len(toks) : toks[i] = t})
SetOf(toks) ==
    {toks[i] : i \in 1..Len(toks)}
        \cup (IF CountIn(toks, "long") > 1 THEN {"long2"} ELSE {})
RepeatedIn(toks) ==
    \E t \in {toks[i] : i \in 1..Len(toks)} :
        CountIn(toks, t) > (IF t = "long" THEN 2 ELSE 1)

LEMMA ListOfDecl ==
    /\ \A t : Count(t) = CountIn(decl.toks, t)
    /\ CSet = SetOf(decl.toks)
    /\ Repeated = RepeatedIn(decl.toks)
BY DEF Count, CountIn, CSet, SetOf, Repeated, RepeatedIn

LEMMA CountType ==
    ASSUME NEW toks \in Seq(AllToks), NEW t
    PROVE  /\ CountIn(toks, t) \in Nat
           /\ CountIn(toks, t) > 0 <=> \E i \in 1..Len(toks) : toks[i] = t
<1> DEFINE I == {i \in 1..Len(toks) : toks[i] = t}
<1>1. Len(toks) \in Nat
  BY LenProperties
<1>2. IsFiniteSet(I)
  <2>1. IsFiniteSet(1..Len(toks))
    BY <1>1, FS_Interval
  <2> QED BY <2>1, FS_Subset
<1>3. Cardinality(I) \in Nat /\ (Cardinality(I) = 0 <=> I = {})
  BY <1>2, FS_CardinalityType, FS_EmptySet
<1> QED BY <1>3 DEF CountIn

LEMMA CountAppended ==
    ASSUME NEW toks \in Seq(AllToks), NEW tok \in AllToks, NEW t
    PROVE  CountIn(Append(toks, tok), t)
               = CountIn(toks, t) + (IF t = tok THEN 1 ELSE 0)
<1> DEFINE more == Append(toks, tok)
           n == Len(toks)
           I == {i \in 1..n : toks[i] = t}
           J == {i \in 1..Len(more) : more[i] = t}
<1>1. /\ n \in Nat /\ Len(more) = n + 1
      /\ \A i \in 1..n : more[i] = toks[i]
      /\ more[n + 1] = tok
  BY LenProperties
<1>2. IsFiniteSet(I) /\ n + 1 \notin I /\ Cardinality(I) \in Nat
  <2>1. IsFiniteSet(1..n)
    BY <1>1, FS_Interval
  <2>2. IsFiniteSet(I)
    BY <2>1, FS_Subset
  <2> QED BY <1>1, <2>2, FS_CardinalityType
<1> HIDE DEF more
<1>3. J = IF t = tok THEN I \cup {n + 1} ELSE I
  BY <1>1
<1> HIDE DEF I, J
<1>4. Cardinality(J) = Cardinality(I) + (IF t = tok THEN 1 ELSE 0)
  <2>1. Cardinality(I \cup {n + 1}) = Cardinality(I) + 1
    BY <1>2, FS_AddElement
  <2> QED BY <1>2, <1>3, <2>1
<1> QED BY <1>4 DEF CountIn, I, J, more

\* The set of a list, in terms of its counts.
LEMMA SetIs ==
    ASSUME NEW toks \in Seq(AllToks)
    PROVE  /\ SetOf(toks) \subseteq AllToks \cup {"long2"}
           /\ \A t \in AllToks : t \in SetOf(toks) <=> CountIn(toks, t) > 0
           /\ "long2" \in SetOf(toks) <=> CountIn(toks, "long") > 1
           /\ RepeatedIn(toks) <=>
                  \E t \in AllToks : CountIn(toks, t) > (IF t = "long" THEN 2 ELSE 1)
<1>1. \A i \in 1..Len(toks) : toks[i] \in AllToks
  BY LenProperties
<1>2. "long2" \notin AllToks
  BY DEF AllToks, BaseToks, Signs
<1>3. \A t : /\ CountIn(toks, t) \in Nat
             /\ CountIn(toks, t) > 0 <=> \E i \in 1..Len(toks) : toks[i] = t
  BY CountType
<1>4. SetOf(toks) \subseteq AllToks \cup {"long2"}
  BY <1>1 DEF SetOf
<1>5. \A t \in AllToks : t \in SetOf(toks) <=> CountIn(toks, t) > 0
  BY <1>2, <1>3 DEF SetOf
<1>6. "long2" \in SetOf(toks) <=> CountIn(toks, "long") > 1
  BY <1>1, <1>2 DEF SetOf
<1>7. ASSUME RepeatedIn(toks)
      PROVE  \E t \in AllToks : CountIn(toks, t) > (IF t = "long" THEN 2 ELSE 1)
  BY <1>1, <1>7 DEF RepeatedIn
<1>8. ASSUME NEW t \in AllToks, CountIn(toks, t) > (IF t = "long" THEN 2 ELSE 1)
      PROVE  RepeatedIn(toks)
  <2>1. CountIn(toks, t) > 0
    BY <1>3, <1>8
  <2>2. PICK i \in 1..Len(toks) : toks[i] = t
    BY <1>3, <2>1
  <2> QED BY <1>8, <2>2 DEF RepeatedIn
<1> QED BY <1>4, <1>5, <1>6, <1>7, <1>8

-----------------------------------------------------------------------------
(* What C allows.                                                          *)

\* The sets of specifiers that name a type, by the arms of CMeaning.
Named1(s)  == s = {"void"}
Named2(s)  == s \ {"signed"} = {"char"}
Named3(s)  == s = {"unsigned", "char"}
Named4(s)  == s \ {"signed", "int"} = {"short"}
Named5(s)  == s \ {"int"} = {"unsigned", "short"}
Named6(s)  == s \ {"signed", "int", "long"} = {} /\ s # {}
Named7(s)  == s \ {"int", "long"} = {"unsigned"}
Named8(s)  == s \ {"signed", "int"} = {"long", "long2"}
Named9(s)  == s \ {"int"} = {"unsigned", "long", "long2"}
Named10(s) == s = {"float"}
Named11(s) == s \ {"long"} = {"double"}
Named12(s) == s \in {{"struct"}, {"tag"}, {"enum"}}

LEMMA MeaningIs ==
    ASSUME NEW s
    PROVE  /\ Named1(s) => CMeaning(s) = "void"
           /\ Named2(s) => CMeaning(s) = "si8"
           /\ Named3(s) => CMeaning(s) = "ui8"
           /\ Named4(s) => CMeaning(s) = "si16"
           /\ Named5(s) => CMeaning(s) = "ui16"
           /\ Named6(s) => CMeaning(s) = "si32"
           /\ Named7(s) => CMeaning(s) = "ui32"
           /\ Named8(s) => CMeaning(s) = "si64"
           /\ Named9(s) => CMeaning(s) = "ui64"
           /\ Named10(s) => CMeaning(s) = "f32"
           /\ Named11(s) => CMeaning(s) = "f64"
           /\ Named12(s) => CMeaning(s) \in s
<1>1. Named1(s) => CMeaning(s) = "void"
  BY DEF CMeaning, Named1
<1>2. Named2(s) => CMeaning(s) = "si8"
  BY DEF CMeaning, Named2
<1>3. Named3(s) => CMeaning(s) = "ui8"
  BY DEF CMeaning, Named3
<1>4. Named4(s) => CMeaning(s) = "si16"
  BY DEF CMeaning, Named4
<1>5. Named5(s) => CMeaning(s) = "ui16"
  BY DEF CMeaning, Named5
<1>6. Named6(s) => CMeaning(s) = "si32"
  BY DEF CMeaning, Named6
<1>7. Named7(s) => CMeaning(s) = "ui32"
  BY DEF CMeaning, Named7
<1>8. Named8(s) => CMeaning(s) = "si64"
  BY DEF CMeaning, Named8
<1>9. Named9(s) => CMeaning(s) = "ui64"
  BY DEF CMeaning, Named9
<1>10. Named10(s) => CMeaning(s) = "f32"
  BY DEF CMeaning, Named10
<1>11. Named11(s) => CMeaning(s) = "f64"
  BY DEF CMeaning, Named11
<1>12. Named12(s) => CMeaning(s) \in s
  BY DEF CMeaning, Named12
<1> QED BY <1>1, <1>2, <1>3, <1>4, <1>5, <1>6, <1>7, <1>8, <1>9, <1>10, <1>11, <1>12

LEMMA OtherwiseNone ==
    ASSUME NEW s, CMeaning(s) # "none"
    PROVE  \/ Named1(s) \/ Named2(s) \/ Named3(s) \/ Named4(s) \/ Named5(s) \/ Named6(s)
           \/ Named7(s) \/ Named8(s) \/ Named9(s) \/ Named10(s) \/ Named11(s) \/ Named12(s)
BY DEF CMeaning, Named1, Named2, Named3, Named4, Named5, Named6, Named7, Named8, Named9,
       Named10, Named11, Named12

-----------------------------------------------------------------------------
(* What the program makes of a list.                                       *)

\* No set of specifiers that names a type has both.
Never(a, b) == ~\E s \in CSpecs : {a, b} \subseteq s

LEMMA NeverTogether ==
    /\ \A t \in AllToks \ {"void"} : Never("void", t)
    /\ \A a, b \in BaseToks :
           a = b \/ Never(a, b) \/ {a, b} \in {{"short", "int"}, {"long", "int"}, {"long", "double"}}
    /\ \A a \in Signs, b \in {"float", "double"} : Never(a, b)
    /\ Never("signed", "unsigned")
    /\ \A t \in AllToks \ {"struct"} : Never("struct", t)
<1> DEFINE Any(s) == \/ Named1(s) \/ Named2(s) \/ Named3(s) \/ Named4(s) \/ Named5(s)
                     \/ Named6(s) \/ Named7(s) \/ Named8(s) \/ Named9(s) \/ Named10(s)
                     \/ Named11(s) \/ Named12(s)
<1>1. \A s \in CSpecs : Any(s)
  BY OtherwiseNone DEF CSpecs
\* What a set that names a type can have besides each token.
<1>2. ASSUME NEW s, Any(s)
      PROVE  /\ "void" \in s => s = {"void"}
             /\ "struct" \in s => s = {"struct"}
             /\ "char" \in s => s \subseteq {"char"} \cup Signs
             /\ "short" \in s => s \subseteq {"short", "int"} \cup Signs
             /\ "int" \in s => s \subseteq {"short", "int", "long", "long2"} \cup Signs
             /\ "long" \in s => s \subseteq {"int", "long", "long2", "double"} \cup Signs
             /\ "float" \in s => s = {"float"}
             /\ "double" \in s => s \subseteq {"double", "long"}
             /\ ~({"signed", "unsigned"} \subseteq s)
  <2> DEFINE Goal ==
                 /\ "void" \in s => s = {"void"}
                 /\ "struct" \in s => s = {"struct"}
                 /\ "char" \in s => s \subseteq {"char"} \cup Signs
                 /\ "short" \in s => s \subseteq {"short", "int"} \cup Signs
                 /\ "int" \in s => s \subseteq {"short", "int", "long", "long2"} \cup Signs
                 /\ "long" \in s => s \subseteq {"int", "long", "long2", "double"} \cup Signs
                 /\ "float" \in s => s = {"float"}
                 /\ "double" \in s => s \subseteq {"double", "long"}
                 /\ ~({"signed", "unsigned"} \subseteq s)
  <2>1. CASE Named1(s) \/ Named10(s) \/ Named12(s)
    BY <2>1 DEF Named1, Named10, Named12
  <2>2. CASE Named2(s) \/ Named3(s)
    BY <2>2 DEF Named2, Named3, Signs
  <2>3. CASE Named4(s) \/ Named5(s)
    BY <2>3 DEF Named4, Named5, Signs
  <2>4. CASE Named6(s) \/ Named7(s)
    BY <2>4 DEF Named6, Named7, Signs
  <2>5. CASE Named8(s) \/ Named9(s)
    BY <2>5 DEF Named8, Named9, Signs
  <2>6. CASE Named11(s)
    BY <2>6 DEF Named11
  <2> QED BY <1>2, <2>1, <2>2, <2>3, <2>4, <2>5, <2>6
<1> HIDE DEF Any
<1>3. \A t \in AllToks \ {"void"} : Never("void", t)
  BY <1>1, <1>2 DEF Never
<1>4. \A t \in AllToks \ {"struct"} : Never("struct", t)
  BY <1>1, <1>2 DEF Never
<1>5. \A a \in Signs, b \in {"float", "double"} : Never(a, b)
  BY <1>1, <1>2 DEF Never, Signs
<1>6. Never("signed", "unsigned")
  BY <1>1, <1>2 DEF Never
<1>7. ASSUME NEW a \in BaseToks, NEW b \in BaseToks
      PROVE  a = b \/ Never(a, b) \/ {a, b} \in {{"short", "int"}, {"long", "int"}, {"long", "double"}}
  <2>1. a = "char" => a = b \/ Never(a, b)
    BY <1>1, <1>2 DEF Never, BaseToks, Signs
  <2>2. a = "short" => b \in {"short", "int"} \/ Never(a, b)
    BY <1>1, <1>2 DEF Never, BaseToks, Signs
  <2>3. a = "int" => b \in {"short", "int", "long"} \/ Never(a, b)
    BY <1>1, <1>2 DEF Never, BaseToks, Signs
  <2>4. a = "long" => b \in {"int", "long", "double"} \/ Never(a, b)
    BY <1>1, <1>2 DEF Never, BaseToks, Signs
  <2>5. a = "float" => a = b \/ Never(a, b)
    BY <1>1, <1>2 DEF Never, BaseToks, Signs
  <2>6. a = "double" => b \in {"long", "double"} \/ Never(a, b)
    BY <1>1, <1>2 DEF Never, BaseToks, Signs
  <2>7. {"int", "short"} = {"short", "int"} /\ {"int", "long"} = {"long", "int"}
        /\ {"double", "long"} = {"long", "double"}
    OBVIOUS
  <2> QED BY <2>1, <2>2, <2>3, <2>4, <2>5, <2>6, <2>7 DEF BaseToks
<1> QED BY <1>3, <1>4, <1>5, <1>6, <1>7

\* A list that was let through: what its counts can be.
Accepted(toks, ret) ==
    /\ \A b \in BaseToks : CountIn(toks, b) <= (IF b = "long" THEN 2 ELSE 1)
    /\ \A a, b \in BaseToks : CountIn(toks, a) > 0 /\ CountIn(toks, b) > 0 => a = b
    /\ CountIn(toks, "signed") = 0 \/ CountIn(toks, "unsigned") = 0
    /\ \A a \in Signs, b \in {"float", "double"} : CountIn(toks, a) = 0 \/ CountIn(toks, b) = 0
    /\ ret # NoType <=> CountIn(toks, "struct") > 0
    /\ CountIn(toks, "enum") > 0 => ret # NoType

\* A list that was diagnosed: what may be said against it.
Diagnosed(toks) ==
    \/ RepeatedIn(toks) \/ ~\E s \in CSpecs : SetOf(toks) \subseteq s
    \/ {"short", "int"} \subseteq SetOf(toks) \/ {"long", "int"} \subseteq SetOf(toks)
    \/ {"long", "double"} \subseteq SetOf(toks)

Listed ==
    /\ decl.toks \in Seq(AllToks)
    /\ decl.failed \in BOOLEAN
    /\ decl.failed => Diagnosed(decl.toks)
    /\ ~decl.failed => Accepted(decl.toks, decl.ret)

LEMMA HasIs ==
    ASSUME decl.toks \in Seq(AllToks), NEW toks
    PROVE  Has(toks) <=> \E t \in toks : CountIn(decl.toks, t) > 0
BY CountType DEF Has

\* What is not rejected leaves the list one that may be let through.
LEMMA AcceptedGrows ==
    ASSUME decl.toks \in Seq(AllToks), Accepted(decl.toks, decl.ret),
           NEW tok \in Tokens, ~Rejects(tok), tok = "enum" => decl.ret # NoType
    PROVE  Accepted(Append(decl.toks, tok), decl.ret)
<1> DEFINE n(t) == CountIn(decl.toks, t)
           m(t) == CountIn(Append(decl.toks, tok), t)
<1>1. tok \in AllToks /\ tok # "struct"
  BY TokensAreSpecifiers DEF AllToks, BaseToks, Signs
<1>2. \A t : n(t) \in Nat /\ m(t) = n(t) + (IF t = tok THEN 1 ELSE 0)
  BY <1>1, CountType, CountAppended
<1>3. \A toks : Has(toks) <=> \E t \in toks : n(t) > 0
  BY HasIs
<1>4. /\ tok = "void" => \A t \in BaseToks \cup Signs : n(t) = 0
      /\ tok \in {"char", "short", "int"} => \A t \in BaseToks : n(t) = 0
      /\ tok = "long" => n("long") # 2 /\ \A t \in BaseToks \ {"long"} : n(t) = 0
      /\ tok \in {"float", "double"} => \A t \in BaseToks \cup Signs : n(t) = 0
      /\ tok = "signed" => \A t \in {"unsigned", "float", "double"} : n(t) = 0
      /\ tok = "unsigned" => \A t \in {"signed", "float", "double"} : n(t) = 0
  BY <1>2, <1>3, ListOfDecl DEF Rejects
<1>5. /\ \A b \in BaseToks : n(b) <= (IF b = "long" THEN 2 ELSE 1)
      /\ \A a, b \in BaseToks : n(a) > 0 /\ n(b) > 0 => a = b
      /\ n("signed") = 0 \/ n("unsigned") = 0
      /\ \A a \in Signs, b \in {"float", "double"} : n(a) = 0 \/ n(b) = 0
      /\ decl.ret # NoType <=> n("struct") > 0
      /\ n("enum") > 0 => decl.ret # NoType
  BY DEF Accepted
<1> HIDE DEF n, m
<1>6. /\ m("struct") = n("struct")
      /\ m("enum") > 0 => tok = "enum" \/ n("enum") > 0
  BY <1>1, <1>2
<1>7. \A b \in BaseToks : m(b) <= (IF b = "long" THEN 2 ELSE 1)
  BY <1>2, <1>4, <1>5 DEF BaseToks
<1>8. \A a, b \in BaseToks : m(a) > 0 /\ m(b) > 0 => a = b
  BY <1>2, <1>4, <1>5 DEF BaseToks
<1>9. m("signed") = 0 \/ m("unsigned") = 0
  BY <1>2, <1>4, <1>5
<1>10. \A a \in Signs, b \in {"float", "double"} : m(a) = 0 \/ m(b) = 0
  BY <1>2, <1>4, <1>5 DEF Signs, BaseToks
<1> QED BY <1>5, <1>6, <1>7, <1>8, <1>9, <1>10 DEF Accepted, m, n

\* What is rejected is with a reason.
LEMMA RejectedIsDiagnosed ==
    ASSUME decl.toks \in Seq(AllToks), Accepted(decl.toks, decl.ret),
           NEW tok \in Tokens, Rejects(tok)
    PROVE  Diagnosed(Append(decl.toks, tok))
<1> DEFINE more == Append(decl.toks, tok)
           n(t) == CountIn(decl.toks, t)
           m(t) == CountIn(more, t)
           S == SetOf(more)
<1> SUFFICES Diagnosed(more)
  OBVIOUS
<1>1. tok \in AllToks /\ tok # "struct"
  BY TokensAreSpecifiers DEF AllToks, BaseToks, Signs
<1>2. \A t : n(t) \in Nat /\ m(t) = n(t) + (IF t = tok THEN 1 ELSE 0)
  BY <1>1, CountType, CountAppended
<1>3. \A toks : Has(toks) <=> \E t \in toks : n(t) > 0
  BY HasIs
<1>4. more \in Seq(AllToks)
  BY <1>1
<1>5. /\ \A t \in AllToks : t \in S <=> m(t) > 0
      /\ RepeatedIn(more) <=> \E t \in AllToks : m(t) > (IF t = "long" THEN 2 ELSE 1)
  BY <1>4, SetIs
<1>6. \/ tok = "void" /\ \E t \in BaseToks \cup Signs : n(t) > 0
      \/ tok \in BaseToks /\ \E t \in BaseToks \ {"long"} : n(t) > 0
      \/ tok \in BaseToks \ {"long"} /\ \E t \in BaseToks : n(t) > 0
      \/ tok = "long" /\ n("long") = 2
      \/ tok \in {"float", "double"} /\ \E t \in Signs : n(t) > 0
      \/ tok = "signed" /\ \E t \in {"unsigned", "float", "double"} : n(t) > 0
      \/ tok = "unsigned" /\ \E t \in {"signed", "float", "double"} : n(t) > 0
      \/ n("struct") > 0
  BY <1>3, ListOfDecl DEF Rejects, Accepted, BaseToks
<1> HIDE DEF n, m, S, more
<1>7. ASSUME NEW a \in AllToks, NEW b \in AllToks, Never(a, b), a = tok \/ n(a) > 0, b = tok \/ n(b) > 0
      PROVE  Diagnosed(more)
  <2>1. a \in S /\ b \in S
    BY <1>2, <1>5, <1>7
  <2> QED BY <1>7, <2>1 DEF Diagnosed, Never, S
<1>8. ASSUME NEW t \in AllToks \ {"long"}, t = tok, n(t) > 0
      PROVE  Diagnosed(more)
  <2>1. m(t) > 1
    BY <1>2, <1>8
  <2> QED BY <1>5, <2>1 DEF Diagnosed
<1>9. CASE tok = "void" /\ \E t \in BaseToks \cup Signs : n(t) > 0
  <2>1. PICK t \in BaseToks \cup Signs : n(t) > 0
    BY <1>9
  <2>2. t \in AllToks \ {"void"}
    BY <2>1 DEF AllToks, BaseToks, Signs
  <2> QED BY <1>1, <1>7, <1>9, <2>1, <2>2, NeverTogether
<1>10. ASSUME tok \in BaseToks, NEW t \in BaseToks, n(t) > 0, tok = "long" => t # "long"
       PROVE  Diagnosed(more)
  <2>1. t \in AllToks /\ tok \in AllToks
    BY <1>1, <1>10 DEF AllToks
  <2>2. CASE tok = t
    BY <1>8, <1>10, <2>1, <2>2
  <2>3. CASE Never(tok, t)
    BY <1>7, <1>10, <2>1, <2>3
  <2>4. CASE {tok, t} \in {{"short", "int"}, {"long", "int"}, {"long", "double"}}
    <3>1. tok \in S /\ t \in S
      BY <1>2, <1>5, <1>10, <2>1
    <3>2. {tok, t} \subseteq S
      BY <3>1
    <3> QED BY <2>4, <3>2 DEF Diagnosed, S
  <2> QED BY <1>10, <2>2, <2>3, <2>4, NeverTogether
<1>11. CASE tok = "long" /\ n("long") = 2
  <2>1. m("long") > 2
    BY <1>2, <1>11
  <2> QED BY <1>1, <1>5, <1>11, <2>1 DEF Diagnosed
<1>12. CASE tok \in {"float", "double"} /\ \E t \in Signs : n(t) > 0
  <2>1. PICK t \in Signs : n(t) > 0
    BY <1>12
  <2>2. t \in AllToks /\ Never(t, tok)
    BY <1>12, <2>1, NeverTogether DEF AllToks
  <2> QED BY <1>1, <1>7, <2>1, <2>2
<1>13. CASE tok \in Signs /\ \E t \in {"float", "double"} : n(t) > 0
  <2>1. PICK t \in {"float", "double"} : n(t) > 0
    BY <1>13
  <2>2. t \in AllToks /\ Never(tok, t)
    BY <1>13, <2>1, NeverTogether DEF AllToks, BaseToks
  <2> QED BY <1>1, <1>7, <2>1, <2>2
<1>14. CASE \/ tok = "signed" /\ n("unsigned") > 0
            \/ tok = "unsigned" /\ n("signed") > 0
  <2>1. "signed" \in AllToks /\ "unsigned" \in AllToks /\ Never("signed", "unsigned")
    BY NeverTogether DEF AllToks, Signs
  <2> QED BY <1>7, <1>14, <2>1
<1>15. CASE n("struct") > 0
  <2>1. "struct" \in AllToks /\ tok \in AllToks \ {"struct"}
    BY <1>1 DEF AllToks
  <2> QED BY <1>7, <1>15, <2>1, NeverTogether
<1>16. Diagnosed(more)
  BY <1>6, <1>9, <1>10, <1>11, <1>12, <1>13, <1>14, <1>15 DEF Signs, BaseToks
<1> QED BY <1>16

\* SpecType, in terms of the set of the list.
LEMMA SpecTypeIs ==
    ASSUME decl.toks \in Seq(AllToks), Accepted(decl.toks, decl.ret)
    PROVE  /\ Width = IF "long2" \in CSet THEN Prim("si64")
                      ELSE IF "long" \in CSet \/ "int" \in CSet THEN Prim("si32")
                      ELSE IF "short" \in CSet THEN Prim("si16")
                      ELSE IF "char" \in CSet THEN Prim("si8")
                      ELSE IF "void" \in CSet THEN Prim("void")
                      ELSE decl.ret
           /\ SpecType = IF "signed" \in CSet
                         THEN IF Width = NoType THEN Prim("si32") ELSE GetSigned(Width)
                         ELSE IF "unsigned" \in CSet
                         THEN IF Width = NoType THEN Prim("ui32") ELSE GetUnsigned(Width)
                         ELSE Width
           /\ decl.ret # NoType <=> "struct" \in CSet
           /\ "enum" \in CSet => "struct" \in CSet
<1> DEFINE n(t) == CountIn(decl.toks, t)
           S == CSet
<1>1. \A t : Count(t) = n(t) /\ n(t) \in Nat
  BY ListOfDecl, CountType
<1>2. \A toks : Has(toks) <=> \E t \in toks : n(t) > 0
  BY HasIs
<1>3. /\ \A t \in AllToks : t \in S <=> n(t) > 0
      /\ "long2" \in S <=> n("long") > 1
  BY ListOfDecl, SetIs
<1>4. /\ n("double") <= 1 /\ n("float") <= 1 /\ n("long") <= 2
      /\ decl.ret # NoType <=> n("struct") > 0
      /\ n("enum") > 0 => decl.ret # NoType
  BY DEF Accepted, BaseToks
<1>5. {"long", "int", "short", "char", "void", "signed", "unsigned", "struct", "enum"} \subseteq AllToks
  BY DEF AllToks, BaseToks, Signs
<1> HIDE DEF n, S
<1>6. /\ Count("double") # 2 /\ Count("float") # 2
      /\ Count("long") = 2 <=> "long2" \in S
  BY <1>1, <1>3, <1>4
<1>7. /\ Has({"long", "int"}) <=> "long" \in S \/ "int" \in S
      /\ Has({"short"}) <=> "short" \in S
      /\ Has({"char"}) <=> "char" \in S
      /\ Has({"void"}) <=> "void" \in S
      /\ Has({"signed"}) <=> "signed" \in S
      /\ Has({"unsigned"}) <=> "unsigned" \in S
  BY <1>2, <1>3, <1>5
<1>8. decl.ret # NoType <=> "struct" \in S
  BY <1>3, <1>4, <1>5
<1>9. "enum" \in S => "struct" \in S
  BY <1>3, <1>4, <1>5, <1>8
<1> DEFINE W == IF "long2" \in S THEN Prim("si64")
                ELSE IF "long" \in S \/ "int" \in S THEN Prim("si32")
                ELSE IF "short" \in S THEN Prim("si16")
                ELSE IF "char" \in S THEN Prim("si8")
                ELSE IF "void" \in S THEN Prim("void")
                ELSE decl.ret
<1>10. Width = W
  BY <1>6, <1>7 DEF Width
<1>11. SpecType = IF "signed" \in S
                  THEN IF Width = NoType THEN Prim("si32") ELSE GetSigned(Width)
                  ELSE IF "unsigned" \in S
                  THEN IF Width = NoType THEN Prim("ui32") ELSE GetUnsigned(Width)
                  ELSE Width
  BY <1>7 DEF SpecType
<1> QED BY <1>8, <1>9, <1>10, <1>11 DEF S

LEMMA SignsOf ==
    /\ \A name \in SInts : /\ Prim(name) # NoType
                           /\ GetSigned(Prim(name)) = Prim(name)
                           /\ GetUnsigned(Prim(name)) = Prim(UnsignedOf[name])
    /\ {"si8", "si16", "si32", "si64"} = SInts
    /\ UnsignedOf["si8"] = "ui8" /\ UnsignedOf["si16"] = "ui16"
    /\ UnsignedOf["si32"] = "ui32" /\ UnsignedOf["si64"] = "ui64"
<1>1. ASSUME NEW name \in SInts
      PROVE  /\ Prim(name) # NoType
             /\ GetSigned(Prim(name)) = Prim(name)
             /\ GetUnsigned(Prim(name)) = Prim(UnsignedOf[name])
  <2>1. Len(Primitives) = 14
    BY DEF Primitives
  <2>2. name \in PrimNames /\ name \notin UInts
    BY DEF SInts, UInts, PrimNames
  <2>3. Prim(name) \in 1..14 /\ Primitives[Prim(name)] = name
    BY <2>2, PrimIs
  <2>4. PrimIn(Prim(name), SInts) /\ ~PrimIn(Prim(name), UInts)
    BY <2>1, <2>2, <2>3 DEF PrimIn
  <2> QED BY <2>3, <2>4 DEF GetSigned, GetUnsigned, NoType
<1> QED BY <1>1 DEF SInts, UnsignedOf

\* A list that C allows and the program lets through has the type C gives it.
LEMMA AllowedAgrees ==
    ASSUME decl.toks \in Seq(AllToks), Accepted(decl.toks, decl.ret), CSet \in CSpecs
    PROVE  /\ CSet \cap {"float", "double", "tag"} # {} => SpecType = NoType
           /\ CSet = {"struct"} => SpecType = decl.ret /\ decl.ret # NoType
           /\ CSet \cap {"float", "double", "tag"} = {} /\ CSet # {"struct"} =>
                  /\ SpecType = Prim(CMeaning(CSet))
                  /\ CMeaning(CSet) \in {"void"} \cup SInts \cup UInts
<1> DEFINE S == CSet
           h == SpecType
<1>1. /\ decl.ret # NoType <=> "struct" \in S
      /\ "enum" \in S => "struct" \in S
      /\ CMeaning(S) # "none"
  BY SpecTypeIs DEF CSpecs
<1>2. \A a, b \in BaseToks : a \in S /\ b \in S => a = b
  <2>1. \A t \in AllToks : t \in S <=> CountIn(decl.toks, t) > 0
    BY ListOfDecl, SetIs
  <2> QED BY <2>1 DEF Accepted, AllToks
<1> DEFINE W == IF "long2" \in S THEN Prim("si64")
                ELSE IF "long" \in S \/ "int" \in S THEN Prim("si32")
                ELSE IF "short" \in S THEN Prim("si16")
                ELSE IF "char" \in S THEN Prim("si8")
                ELSE IF "void" \in S THEN Prim("void")
                ELSE decl.ret
           T == IF "signed" \in S
                THEN IF W = NoType THEN Prim("si32") ELSE GetSigned(W)
                ELSE IF "unsigned" \in S
                THEN IF W = NoType THEN Prim("ui32") ELSE GetUnsigned(W)
                ELSE W
<1>3. SpecType = T
  BY SpecTypeIs
<1>4. /\ \A name \in SInts : /\ Prim(name) # NoType
                             /\ GetSigned(Prim(name)) = Prim(name)
                             /\ GetUnsigned(Prim(name)) = Prim(UnsignedOf[name])
      /\ {"si8", "si16", "si32", "si64"} = SInts
      /\ UnsignedOf["si8"] = "ui8" /\ UnsignedOf["si16"] = "ui16"
      /\ UnsignedOf["si32"] = "ui32" /\ UnsignedOf["si64"] = "ui64"
  BY SignsOf
<1> DEFINE Goal ==
               /\ S \cap {"float", "double", "tag"} # {} => T = NoType
               /\ S = {"struct"} => T = decl.ret /\ decl.ret # NoType
               /\ S \cap {"float", "double", "tag"} = {} /\ S # {"struct"} =>
                      /\ T = Prim(CMeaning(S))
                      /\ CMeaning(S) \in {"void"} \cup SInts \cup UInts
<1> SUFFICES Goal
  BY <1>3
<1>5. UInts = {"ui8", "ui16", "ui32", "ui64"}
  BY DEF UInts
<1> HIDE DEF S
<1>6. CASE Named1(S)
  BY <1>6, MeaningIs DEF Named1
<1>7. CASE Named2(S)
  BY <1>4, <1>7, MeaningIs DEF Named2
<1>8. CASE Named3(S)
  BY <1>4, <1>5, <1>8, MeaningIs DEF Named3
<1>9. CASE Named4(S)
  <2>1. "int" \notin S /\ "long" \notin S /\ "long2" \notin S
    BY <1>2, <1>9 DEF Named4, BaseToks
  <2>2. /\ "short" \in S /\ "unsigned" \notin S
        /\ S \cap {"float", "double", "tag"} = {} /\ S # {"struct"}
    BY <1>9 DEF Named4
  <2>3. CMeaning(S) = "si16" /\ "si16" \in SInts
    BY <1>4, <1>9, MeaningIs
  <2>4. T = Prim("si16")
    BY <1>4, <2>1, <2>2, <2>3
  <2> HIDE DEF T
  <2> QED BY <2>2, <2>3, <2>4
<1>10. CASE Named5(S)
  <2>1. "int" \notin S /\ "long" \notin S /\ "long2" \notin S
    BY <1>2, <1>10 DEF Named5, BaseToks
  <2> QED BY <1>4, <1>5, <1>10, <2>1, MeaningIs DEF Named5
<1>11. CASE Named6(S)
  BY <1>1, <1>4, <1>11, MeaningIs DEF Named6
<1>12. CASE Named7(S)
  BY <1>1, <1>4, <1>5, <1>12, MeaningIs DEF Named7
<1>13. CASE Named8(S)
  BY <1>4, <1>13, MeaningIs DEF Named8
<1>14. CASE Named9(S)
  BY <1>4, <1>5, <1>14, MeaningIs DEF Named9
<1>15. CASE Named10(S)
  BY <1>1, <1>15 DEF Named10
<1>16. CASE Named11(S)
  <2>1. "long" \notin S
    BY <1>2, <1>16 DEF Named11, BaseToks
  <2> QED BY <1>1, <1>16, <2>1 DEF Named11
<1>17. CASE Named12(S)
  BY <1>1, <1>17 DEF Named12
<1> QED BY <1>1, <1>6, <1>7, <1>8, <1>9, <1>10, <1>11, <1>12, <1>13, <1>14, <1>15, <1>16,
           <1>17, OtherwiseNone

\* What the program lets through against C.
LEMMA LetThroughIs ==
    ASSUME decl.toks \in Seq(AllToks), decl.toks # << >>, Accepted(decl.toks, decl.ret),
           "void" \notin CSet, ~(Count("signed") > 1), ~(Count("unsigned") > 1),
           CSet \cap {"struct", "tag", "enum"} = {}
    PROVE  CValid
<1> DEFINE n(t) == CountIn(decl.toks, t)
           S == CSet
<1>1. \A t : Count(t) = n(t) /\ n(t) \in Nat
  BY ListOfDecl, CountType
<1>2. /\ S \subseteq AllToks \cup {"long2"}
      /\ \A t \in AllToks : t \in S <=> n(t) > 0
      /\ "long2" \in S <=> n("long") > 1
      /\ Repeated <=> \E t \in AllToks : n(t) > (IF t = "long" THEN 2 ELSE 1)
  BY ListOfDecl, SetIs
<1>3. /\ \A b \in BaseToks : n(b) <= (IF b = "long" THEN 2 ELSE 1)
      /\ \A a, b \in BaseToks : n(a) > 0 /\ n(b) > 0 => a = b
      /\ n("signed") = 0 \/ n("unsigned") = 0
      /\ \A a \in Signs, b \in {"float", "double"} : n(a) = 0 \/ n(b) = 0
  BY DEF Accepted
<1>4. /\ "void" \notin S /\ "struct" \notin S /\ "tag" \notin S /\ "enum" \notin S
      /\ n("signed") <= 1 /\ n("unsigned") <= 1
  <2>1. "void" \notin S /\ "struct" \notin S /\ "tag" \notin S /\ "enum" \notin S
    OBVIOUS
  <2> HIDE DEF n, S
  <2> QED BY <1>1, <2>1
<1>5. S # {}
  <2>1. 1 \in 1..Len(decl.toks) /\ decl.toks[1] \in AllToks
    BY EmptySeq, LenProperties
  <2>2. decl.toks[1] \in S
    BY <2>1 DEF CSet
  <2> QED BY <2>2
<1> HIDE DEF n, S
<1>6. ~Repeated
  <2> SUFFICES ASSUME NEW t \in AllToks, n(t) > (IF t = "long" THEN 2 ELSE 1) PROVE FALSE
    BY <1>2
  <2>1. n(t) > 0 /\ n(t) \in Nat /\ (t # "long" => n(t) > 1)
    BY <1>1
  <2>2. t \in S
    BY <1>2, <2>1
  <2>3. t \in BaseToks \cup Signs
    BY <1>4, <2>2 DEF AllToks
  <2>4. t \notin BaseToks
    BY <1>1, <1>3
  <2> QED BY <1>1, <1>4, <2>1, <2>3, <2>4 DEF Signs, BaseToks
<1>7. S \subseteq {"char", "short", "int", "long", "float", "double", "signed", "unsigned", "long2"}
  BY <1>2, <1>4 DEF AllToks, BaseToks, Signs
<1>8. /\ \A a, b \in BaseToks : a \in S /\ b \in S => a = b
      /\ ~("signed" \in S /\ "unsigned" \in S)
      /\ \A a \in Signs, b \in {"float", "double"} : ~(a \in S /\ b \in S)
      /\ "long2" \in S => "long" \in S
  <2>1. BaseToks \cup Signs \subseteq AllToks /\ {"float", "double", "long"} \subseteq BaseToks
        /\ Signs = {"signed", "unsigned"}
    BY DEF AllToks, BaseToks, Signs
  <2>2. \A a, b \in BaseToks : a \in S /\ b \in S => a = b
    BY <1>2, <1>3, <2>1
  <2>3. ~("signed" \in S /\ "unsigned" \in S)
    BY <1>2, <1>3, <2>1
  <2>4. \A a \in Signs, b \in {"float", "double"} : ~(a \in S /\ b \in S)
    BY <1>2, <1>3, <2>1
  <2>5. "long2" \in S => "long" \in S
    BY <1>1, <1>2, <2>1
  <2> QED BY <2>2, <2>3, <2>4, <2>5
<1>9. \/ Named2(S) \/ Named3(S) \/ Named4(S) \/ Named5(S) \/ Named6(S) \/ Named7(S)
      \/ Named8(S) \/ Named9(S) \/ Named10(S) \/ Named11(S)
  <2> USE DEF BaseToks, Signs
  <2>1. CASE "char" \in S
    BY <1>7, <1>8, <2>1 DEF Named2, Named3
  <2>2. CASE "short" \in S
    BY <1>7, <1>8, <2>2 DEF Named4, Named5
  <2>3. CASE "float" \in S
    BY <1>7, <1>8, <2>3 DEF Named10
  <2>4. CASE "double" \in S
    BY <1>7, <1>8, <2>4 DEF Named11
  <2>5. CASE "long2" \in S
    BY <1>7, <1>8, <2>5 DEF Named8, Named9
  <2>6. CASE "int" \in S \/ ("long" \in S /\ "long2" \notin S)
    BY <1>7, <1>8, <2>6 DEF Named6, Named7
  <2>7. CASE S \cap BaseToks = {}
    BY <1>5, <1>7, <1>8, <2>7 DEF Named6, Named7
  <2> QED BY <2>1, <2>2, <2>3, <2>4, <2>5, <2>6, <2>7
<1>10. CMeaning(S) # "none"
  BY <1>9, MeaningIs
<1>11. S \in CSpecs
  BY <1>7, <1>10 DEF CSpecs, BaseToks, Signs
<1> QED BY <1>6, <1>11 DEF CValid, S

LEMMA SpecifierListed ==
    ASSUME Typed, Listed, NEW tok \in Tokens, Specifier(tok)
    PROVE  Listed'
<1>1. ~decl.failed /\ Accepted(decl.toks, decl.ret) /\ decl.toks \in Seq(AllToks)
  BY DEF Specifier, InSpecs, Listed
<1>2. CASE UNCHANGED decl
  BY <1>2 DEF Listed
<1>3. CASE ~UNCHANGED decl
  <2>1. /\ tok = "enum" => decl.ret # NoType
        /\ decl'.toks = Append(decl.toks, tok) /\ decl'.ret = decl.ret
        /\ decl'.failed = Rejects(tok)
    BY <1>3, DeclIsTyped, SpecifierDoes DEF IsDecl
  <2>2. tok \in AllToks
    BY TokensAreSpecifiers DEF AllToks
  <2>3. decl'.toks \in Seq(AllToks)
    BY <1>1, <2>1, <2>2
  <2>4. Rejects(tok) => Diagnosed(decl'.toks)
    BY <1>1, <2>1, RejectedIsDiagnosed
  <2>5. ~Rejects(tok) => Accepted(decl'.toks, decl'.ret)
    BY <1>1, <2>1, AcceptedGrows
  <2>6. Rejects(tok) \in BOOLEAN
    BY DEF Rejects
  <2> HIDE DEF Rejects
  <2> QED BY <2>1, <2>3, <2>4, <2>5, <2>6 DEF Listed
<1> QED BY <1>2, <1>3

\* A structure with a body is never diagnosed.
LEMMA StructAccepted ==
    ASSUME NEW toks \in Seq(AllToks), NEW ret, NEW next, Accepted(toks, ret), next # NoType
    PROVE  /\ Accepted(Append(toks, "struct"), next)
           /\ Append(toks, "struct") \in Seq(AllToks)
<1> DEFINE n(t) == CountIn(toks, t)
           m(t) == CountIn(Append(toks, "struct"), t)
<1>1. "struct" \in AllToks /\ "struct" \notin BaseToks \cup Signs
      /\ {"float", "double"} \subseteq BaseToks
  BY DEF AllToks, BaseToks, Signs
<1>2. \A t : n(t) \in Nat /\ m(t) = n(t) + (IF t = "struct" THEN 1 ELSE 0)
  BY <1>1, CountType, CountAppended
<1>3. \A t \in BaseToks \cup Signs : m(t) = n(t)
  BY <1>1, <1>2
<1>4. m("struct") > 0
  BY <1>2
<1>5. "signed" \in Signs /\ "unsigned" \in Signs
  BY DEF Signs
<1>6. Accepted(Append(toks, "struct"), next)
  BY <1>1, <1>3, <1>4, <1>5 DEF Accepted
<1> QED BY <1>1, <1>6

LEMMA StructBodyListed ==
    ASSUME Typed, Listed, NEW name \in StructNames \cup {Unnamed}, StructBody(name)
    PROVE  Listed'
<1>1. CASE name # Unnamed /\ NameTaken(ctx, name)
  BY <1>1 DEF StructBody, Stop, Listed
<1>2. CASE ~(name # Unnamed /\ NameTaken(ctx, name))
  <2> DEFINE ret == IF decl.ret = NoType THEN MadeStruct.ty ELSE decl.ret
  <2>1. /\ decl'.toks = Append(decl.toks, "struct") /\ decl'.ret = ret
        /\ decl'.failed = decl.failed /\ InSpecs
    BY <1>2, DeclIsTyped, StructBodyDoes DEF IsDecl
  <2>2. MadeStruct.ty # NoType
    BY <1>2, StructBodyMakes DEF Makes, Result, NoType
  <2>3. ret # NoType
    BY <2>2
  <2>4. ~decl.failed
    BY <2>1 DEF InSpecs
  <2> HIDE DEF ret
  <2> QED BY <2>1, <2>3, <2>4, StructAccepted DEF Listed
<1> QED BY <1>1, <1>2

\* The other actions leave the list alone, or begin another declaration.
LEMMA ListKept ==
    ASSUME Typed,
           \/ \E kind \in Objects \cup {"function"} : EndSpecs(kind)
           \/ PointerDecltr \/ UnsizedDecltr \/ FuncDecltr
           \/ \E n \in ArraySizes, literal \in BOOLEAN : ArrayDecltr(n, literal)
           \/ UnnamedBitField \/ Ending
    PROVE  \/ decl'.toks = decl.toks /\ decl'.ret = decl.ret /\ decl'.failed = decl.failed
           \/ decl' = NewDecl
<1> DEFINE Same == decl'.toks = decl.toks /\ decl'.ret = decl.ret /\ decl'.failed = decl.failed
<1>1. decl = [f \in DeclFields |-> decl[f]]
  BY DeclIsTyped
<1>2. ASSUME NEW kind, EndSpecs(kind) PROVE Same
  BY <1>1, <1>2, EndSpecsDoes DEF IsDecl
<1>3. ASSUME NEW term, Close(term) PROVE Same
  BY <1>1, <1>3, CloseDoes DEF IsDecl
<1>4. ASSUME NEW term, NEW why, Assertion(why, term) PROVE Same
  BY <1>1, <1>4, AssertionDoes DEF IsDecl
<1>5. ASSUME NEW got, NEW term, NEW exact, Onward(got, term, exact) PROVE Same
  BY <1>1, <1>5, OnwardDoes DEF IsDecl
<1>6. CASE PointerDecltr
  BY <1>4, <1>5, <1>6 DEF PointerDecltr
<1>7. CASE \E n \in ArraySizes, literal \in BOOLEAN : ArrayDecltr(n, literal)
  BY <1>3, <1>4, <1>5, <1>7 DEF ArrayDecltr
<1>8. CASE UnsizedDecltr
  BY <1>3, <1>8 DEF UnsizedDecltr
<1>9. CASE FuncDecltr
  BY <1>3, <1>4, <1>9, FuncDecltrDoes DEF IsDecl
<1>10. CASE Ending
  BY <1>10 DEF Ending, AbstractDecltr, EndParam, EndMember, EndGlobal, EndConverted, Stop
<1>11. CASE UnnamedBitField
  BY <1>4, <1>11 DEF UnnamedBitField
<1>12. CASE \E kind \in Objects \cup {"function"} : EndSpecs(kind)
  BY <1>2, <1>12
<1> QED BY <1>6, <1>7, <1>8, <1>9, <1>10, <1>11, <1>12

LEMMA NewListed ==
    /\ decl = NewDecl => Listed
    /\ decl' = NewDecl => Listed'
<1>1. << >> \in Seq(AllToks) /\ \A t : CountIn(<< >>, t) = 0
  <2>1. \A t : {i \in 1..Len(<< >>) : << >>[i] = t} = {}
    OBVIOUS
  <2> QED BY <2>1, FS_EmptySet DEF CountIn
<1> DEFINE e == << >>
           r == NoType
<1> HIDE DEF e, r
<1>2. Accepted(e, r)
  <2>1. \A t : CountIn(e, t) = 0
    BY <1>1 DEF e
  <2> QED BY <2>1 DEF Accepted, r
<1>3. NewDecl.toks = e /\ NewDecl.failed = FALSE /\ NewDecl.ret = r /\ e \in Seq(AllToks)
  BY <1>1 DEF NewDecl, e, r
<1> HIDE DEF NewDecl
<1>4. decl = NewDecl => Listed
  BY <1>2, <1>3 DEF Listed
<1>5. decl' = NewDecl => Listed'
  BY <1>2, <1>3 DEF Listed
<1> QED BY <1>4, <1>5

\* What is known of the specifiers of the declaration at hand.
THEOREM ListedInvariant == Spec => []Listed
<1>1. Init => Listed
  BY NewListed DEF Init
<1>2. Typed /\ Listed /\ [Next]_vars => Listed'
  <2> SUFFICES ASSUME Typed, Listed, [Next]_vars PROVE Listed'
    OBVIOUS
  <2>1. CASE UNCHANGED vars
    BY <2>1 DEF vars, Listed
  <2>2. CASE \E tok \in Tokens : Specifier(tok)
    BY <2>2, SpecifierListed
  <2>3. CASE \E name \in StructNames \cup {Unnamed} : StructBody(name)
    BY <2>3, StructBodyListed
  <2>4. CASE \/ \E kind \in Objects \cup {"function"} : EndSpecs(kind)
             \/ PointerDecltr \/ UnsizedDecltr \/ FuncDecltr
             \/ \E n \in ArraySizes, literal \in BOOLEAN : ArrayDecltr(n, literal)
             \/ UnnamedBitField \/ Ending
    <3>1. decl' = NewDecl => Listed'
      BY NewListed
    <3>2. /\ decl'.toks = decl.toks /\ decl'.ret = decl.ret /\ decl'.failed = decl.failed
          => Listed'
      BY DEF Listed
    <3> QED BY <2>4, <3>1, <3>2, ListKept
  <2> QED BY <2>1, <2>2, <2>3, <2>4 DEF Next, Ending
<1> QED BY <1>1, <1>2, TypedInvariant, PTL DEF Spec

\* The verdict on a list of specifiers is that of C, and so is the type, but
\* for the cases SpecifiersAgree names (AST::computeSimpleTypeSpec).
THEOREM SpecifiersFollowC == Spec => []SpecifiersAgree
<1>1. Listed => SpecifiersAgree
  <2> SUFFICES ASSUME Listed, decl.kind = "specifiers", decl.toks # << >>
               PROVE  SpecifiersAgree
    BY DEF SpecifiersAgree
  <2>1. decl.toks \in Seq(AllToks) /\ decl.failed \in BOOLEAN
    BY DEF Listed
  <2>2. CASE decl.failed
    <3>1. Diagnosed(decl.toks)
      BY <2>2 DEF Listed
    <3> QED BY <2>2, <3>1, ListOfDecl DEF SpecifiersAgree, Diagnosed
  <2>3. CASE ~decl.failed
    <3>1. Accepted(decl.toks, decl.ret)
      BY <2>3 DEF Listed
    <3>2. CASE CValid
      <4>1. CSet \in CSpecs
        BY <3>2 DEF CValid
      <4>2. /\ CSet \cap {"float", "double", "tag"} # {} => SpecType = NoType
            /\ CSet = {"struct"} => SpecType = decl.ret /\ decl.ret # NoType
            /\ CSet \cap {"float", "double", "tag"} = {} /\ CSet # {"struct"} =>
                   /\ SpecType = Prim(CMeaning(CSet))
                   /\ CMeaning(CSet) \in {"void"} \cup SInts \cup UInts
        BY <2>1, <3>1, <4>1, AllowedAgrees
      <4> HIDE DEF CSet, SpecType, CMeaning, CValid
      <4> QED BY <2>3, <3>2, <4>2 DEF SpecifiersAgree
    <3>3. CASE ~CValid
      <4>1. \/ "void" \in CSet
            \/ Count("signed") > 1 \/ Count("unsigned") > 1
            \/ CSet \cap {"struct", "tag", "enum"} # {}
        BY <2>1, <3>1, <3>3, LetThroughIs
      <4> QED BY <2>3, <3>3, <4>1 DEF SpecifiersAgree
    <3> QED BY <3>2, <3>3
  <2> QED BY <2>2, <2>3
<1> QED BY <1>1, ListedInvariant, PTL

-----------------------------------------------------------------------------
(* What C makes of a declaration, against the types that are made for it.  *)

\* What C makes of it, if that is known, is of the kind of the type; when no
\* part was lost it is the type.
TermIs(c, t, term, exact) ==
    term # NoTerm =>
        /\ Kind(c, t) = term[1] /\ term[1] \notin {"label", "token", "none"}
        /\ exact => Structure(c)[t] = term

PartsMeant(c, parts) ==
    \A i \in 1..Len(parts) :
        parts[i].ty # NoType => TermIs(c, parts[i].ty, parts[i].term, parts[i].exact)

\* A structure among the specifiers.
StructMeant(c, d) ==
    /\ d.ret # NoType => Kind(c, d.ret) = "struct"
    /\ d.retTerm # NoTerm => d.retTerm[1] = "struct"
    /\ CountIn(d.toks, "struct") = 1 /\ d.exact /\ d.retTerm # NoTerm =>
           Structure(c)[d.ret] = d.retTerm

Floating(toks) == \E t \in {"float", "double", "tag"} : CountIn(toks, t) > 0

\* A declarator with no type was closed, or its specifiers have none.
TypeMeant(c, d) ==
    /\ d.cur # NoType => TermIs(c, d.cur, d.term, d.exact)
    /\ d.cur = NoType =>
           /\ d.base # NoType => d.term = NoTerm
           /\ d.term # NoTerm => Floating(d.toks)

DeclMeant(c, d) ==
    IF d.kind = "specifiers" THEN d.cur = NoType /\ StructMeant(c, d)
    ELSE TypeMeant(c, d)

Meant ==
    stopped = Running =>
        PartsMeant(ctx, params) /\ PartsMeant(ctx, members) /\ DeclMeant(ctx, decl)

LEMMA NewDeclMeant ==
    ASSUME NEW c
    PROVE  DeclMeant(c, NewDecl)
BY DEF DeclMeant, StructMeant, NewDecl, NoType

LEMMA NoPartsMeant ==
    ASSUME NEW c
    PROVE  PartsMeant(c, << >>)
BY DEF PartsMeant

LEMMA TermStays ==
    ASSUME NEW c, NEW d, Sound(c), Sound(d), Extended(c, d),
           NEW t \in 1..Newest(c), NEW term, NEW exact, TermIs(c, t, term, exact)
    PROVE  TermIs(d, t, term, exact)
<1>1. Newest(c) \in Nat /\ Newest(d) \in Nat /\ WellFounded(c) /\ WellFounded(d)
  BY SizesOf DEF Sound
<1>2. Structure(d)[t] = Structure(c)[t]
  BY <1>1, StructureStays
<1>3. Kind(d, t) = Kind(c, t)
  BY DEF Extended, Kind
<1> QED BY <1>2, <1>3 DEF TermIs

LEMMA PartsStay ==
    ASSUME NEW c, NEW d, Sound(c), Sound(d), Extended(c, d),
           NEW parts, PartsTyped(parts, Newest(c)),
           PartsMeant(c, parts)
    PROVE  PartsMeant(d, parts)
<1> SUFFICES ASSUME NEW i \in 1..Len(parts), parts[i].ty # NoType
             PROVE  TermIs(d, parts[i].ty, parts[i].term, parts[i].exact)
  BY DEF PartsMeant
<1>1. Newest(c) \in Nat
  BY SizesOf DEF Sound
<1>2. parts[i].ty \in 1..Newest(c)
  BY <1>1 DEF PartsTyped, NoType
<1> QED BY <1>2, TermStays DEF PartsMeant

LEMMA PartMeant ==
    ASSUME NEW c, NEW parts, Sequence(parts), PartsMeant(c, parts),
           NEW e, e.ty # NoType => TermIs(c, e.ty, e.term, e.exact)
    PROVE  PartsMeant(c, Append(parts, e))
<1>1. /\ Len(Append(parts, e)) = Len(parts) + 1
      /\ \A i \in 1..Len(parts) : Append(parts, e)[i] = parts[i]
      /\ Append(parts, e)[Len(parts) + 1] = e
  BY SequenceOf
<1>2. Len(parts) \in Nat
  BY DEF Sequence
<1> SUFFICES ASSUME NEW i \in 1..(Len(parts) + 1), Append(parts, e)[i].ty # NoType
             PROVE  TermIs(c, Append(parts, e)[i].ty, Append(parts, e)[i].term,
                           Append(parts, e)[i].exact)
  BY <1>1 DEF PartsMeant
<1>3. CASE i \in 1..Len(parts)
  BY <1>1, <1>3 DEF PartsMeant
<1>4. CASE i = Len(parts) + 1
  BY <1>1, <1>4
<1> QED BY <1>2, <1>3, <1>4

Below(subs, n) == \A i \in 1..Len(subs) : subs[i] \in 1..n

LEMMA SeqBelow ==
    ASSUME NEW n, NEW subs \in Seq(1..n)
    PROVE  Below(subs, n)
BY LenProperties DEF Below

Written(c, subs) == [i \in 1..Len(subs) |-> Structure(c)[subs[i]]]

\* What is made, written out, in terms of what it is made of.
LEMMA StructureOfMade ==
    ASSUME NEW c, Sound(c), NEW r, NEW kind, NEW subs, NEW num,
           Makes(c, r, kind, subs, num),
           Below(subs, Newest(c))
    PROVE  Structure(r.c)[r.ty] = <<kind, num, Written(c, subs)>>
<1>1. /\ Newest(c) \in Nat /\ WellFounded(c)
      /\ Newest(r.c) \in Nat /\ WellFounded(r.c) /\ Extended(c, r.c)
  BY SizesOf DEF Sound, Makes
<1>2. \A t \in 1..Newest(c) : Structure(r.c)[t] = Structure(c)[t]
  BY <1>1, StructureStays
<1>3. Structure(r.c)[r.ty] = Row(r.c, Structure(r.c), r.ty)
  BY <1>1, StructureIs DEF Makes
<1>4. Structure(r.c)[r.ty]
          = <<kind, num, [i \in 1..Len(subs) |-> Structure(r.c)[subs[i]]]>>
  BY <1>3 DEF Row, Makes
<1>5. [i \in 1..Len(subs) |-> Structure(r.c)[subs[i]]]
          = Written(c, subs)
  BY <1>2 DEF Written, Below
<1> QED BY <1>4, <1>5

\* The same, of the types with more parts than one.
LEMMA StructureOfParts ==
    ASSUME NEW c, Sound(c), NEW r, NEW subs, Below(subs, Newest(c))
    PROVE  /\ \A num : Makes(c, r, "struct", subs, num) =>
                 Structure(r.c)[r.ty] = <<"struct", num, Written(c, subs)>>
           /\ Makes(c, r, "function", subs, 0) =>
                 Structure(r.c)[r.ty] = <<"function", 0, Written(c, subs)>>
<1>1. ASSUME NEW kind, NEW num, Makes(c, r, kind, subs, num)
      PROVE  Structure(r.c)[r.ty] = <<kind, num, Written(c, subs)>>
  BY <1>1, StructureOfMade
<1> DEFINE s == "struct"
           f == "function"
           z == 0
<1> HIDE DEF s, f, z
<1>2. \A num : Makes(c, r, s, subs, num) =>
          Structure(r.c)[r.ty] = <<s, num, Written(c, subs)>>
  BY <1>1
<1>3. Makes(c, r, f, subs, z) => Structure(r.c)[r.ty] = <<f, z, Written(c, subs)>>
  BY <1>1
<1> QED BY <1>2, <1>3 DEF s, f, z

LEMMA PrimMeant ==
    ASSUME NEW c, Sound(c), NEW name \in PrimNames \ {"label", "token"}, NEW exact
    PROVE  /\ TermIs(c, Prim(name), Term(name, 0, << >>), exact)
           /\ Prim(name) # NoType
<1>1. Prim(name) \in 1..14 /\ Primitives[Prim(name)] = name
  BY PrimIs
<1>2. Newest(c) \in Nat /\ 14 <= Newest(c) /\ WellFounded(c)
  BY SizesOf DEF Sound
<1>3. /\ c.tys[Prim(name)].kind = name
      /\ c.tys[Prim(name)].num = 0 /\ c.tys[Prim(name)].subs = << >>
  BY <1>1, KindOfPrimitive
<1>4. Structure(c)[Prim(name)] = Row(c, Structure(c), Prim(name))
  BY <1>1, <1>2, StructureIs
<1>5. Structure(c)[Prim(name)] = <<name, 0, << >>>>
  BY <1>3, <1>4 DEF Row
<1>6. "none" \notin PrimNames
  BY DEF PrimNames
<1> QED BY <1>1, <1>3, <1>5, <1>6 DEF TermIs, Term, Kind, NoType

-----------------------------------------------------------------------------
(* The steps.                                                              *)

\* The type of the specifiers, when they were not diagnosed.
LEMMA SpecTermIs ==
    ASSUME Typed, Listed, ~decl.failed, StructMeant(ctx, decl)
    PROVE  /\ SpecType # NoType => TermIs(ctx, SpecType, CTerm, decl.exact)
           /\ SpecType = NoType => (CTerm # NoTerm => Floating(decl.toks))
<1>1. decl.toks \in Seq(AllToks) /\ Accepted(decl.toks, decl.ret) /\ Sound(ctx)
  BY DEF Listed, Typed
<1>2. CASE ~CValid
  BY <1>2 DEF CTerm, TermIs
<1>3. CASE CValid
  <2>1. CSet \in CSpecs /\ ~Repeated
    BY <1>3 DEF CValid
  <2>2. /\ CSet \cap {"float", "double", "tag"} # {} => SpecType = NoType
        /\ CSet = {"struct"} => SpecType = decl.ret /\ decl.ret # NoType
        /\ CSet \cap {"float", "double", "tag"} = {} /\ CSet # {"struct"} =>
               /\ SpecType = Prim(CMeaning(CSet))
               /\ CMeaning(CSet) \in {"void"} \cup SInts \cup UInts
    BY <1>1, <2>1, AllowedAgrees
  <2>3. CTerm = IF CSet = {"struct"} THEN decl.retTerm ELSE Term(CMeaning(CSet), 0, << >>)
    BY <1>3 DEF CTerm
  <2>4. /\ \A t \in AllToks : t \in CSet <=> CountIn(decl.toks, t) > 0
        /\ \A t \in AllToks : CountIn(decl.toks, t) <= (IF t = "long" THEN 2 ELSE 1)
    <3>1. \A t : CountIn(decl.toks, t) \in Nat
      BY <1>1, CountType
    <3> HIDE DEF CSet, Repeated
    <3> QED BY <1>1, <2>1, <3>1, ListOfDecl, SetIs
  <2>5. {"float", "double", "tag", "struct"} \subseteq AllToks
    BY DEF AllToks, BaseToks
  <2> HIDE DEF CSet, CTerm, SpecType, CMeaning
  <2>6. CASE CSet \cap {"float", "double", "tag"} # {}
    BY <2>2, <2>4, <2>5, <2>6 DEF Floating
  <2>7. CASE CSet = {"struct"}
    <3>1. CountIn(decl.toks, "struct") = 1
      BY <1>1, <2>4, <2>5, <2>7, CountType
    <3> QED BY <2>2, <2>3, <2>7, <3>1 DEF TermIs, StructMeant
  <2>8. CASE CSet \cap {"float", "double", "tag"} = {} /\ CSet # {"struct"}
    <3>1. CMeaning(CSet) \in PrimNames \ {"label", "token"}
      BY <2>2, <2>8 DEF PrimNames, SInts, UInts
    <3> QED BY <1>1, <2>2, <2>3, <2>8, <3>1, PrimMeant
  <2> QED BY <2>6, <2>7, <2>8
<1> QED BY <1>2, <1>3

LEMMA EndSpecsMeant ==
    ASSUME Typed, Listed, Meant, NEW kind \in Objects \cup {"function"}, EndSpecs(kind)
    PROVE  Meant'
<1>1. /\ IsDecl(decl', decl.toks, decl.ret, decl.retTerm, decl.failed, kind,
                BaseOf(kind), BaseOf(kind), decl.closed, CTerm, decl.exact)
      /\ UNCHANGED <<ctx, stopped, params, members>>
      /\ stopped = Running /\ decl.kind = "specifiers"
  BY DeclIsTyped, EndSpecsDoes
<1>2. StructMeant(ctx, decl) /\ PartsMeant(ctx, params) /\ PartsMeant(ctx, members)
  BY <1>1 DEF Meant, DeclMeant
<1>3. kind # "specifiers"
  BY DEF Objects
<1>4. TypeMeant(ctx, decl')
  <2>1. CASE decl.failed
    <3>1. CTerm = NoTerm
      BY <2>1 DEF CTerm
    <3> QED BY <1>1, <3>1 DEF IsDecl, TypeMeant, TermIs
  <2>2. CASE ~decl.failed
    <3>1. BaseOf(kind) = SpecType
      BY <2>2 DEF BaseOf
    <3>2. /\ SpecType # NoType => TermIs(ctx, SpecType, CTerm, decl.exact)
          /\ SpecType = NoType => (CTerm # NoTerm => Floating(decl.toks))
      BY <1>2, <2>2, SpecTermIs
    <3> HIDE DEF SpecType, CTerm, BaseOf
    <3> QED BY <1>1, <3>1, <3>2 DEF IsDecl, TypeMeant
  <2> QED BY <2>1, <2>2
<1> HIDE DEF CTerm, BaseOf
<1>5. DeclMeant(ctx, decl')
  BY <1>1, <1>3, <1>4 DEF DeclMeant, IsDecl
<1> QED BY <1>1, <1>2, <1>5 DEF Meant

LEMMA SpecifierMeant ==
    ASSUME Typed, Listed, Meant, NEW tok \in Tokens, Specifier(tok)
    PROVE  Meant'
<1>1. /\ UNCHANGED <<ctx, params, members>> /\ InSpecs
      /\ \/ stopped' = "enum"
         \/ /\ IsDecl(decl', Append(decl.toks, tok), decl.ret, decl.retTerm,
                      Rejects(tok), decl.kind, decl.base, decl.cur, decl.closed,
                      decl.term, decl.exact)
            /\ UNCHANGED stopped
  BY DeclIsTyped, SpecifierDoes
<1>2. /\ stopped = Running /\ decl.kind = "specifiers"
      /\ PartsMeant(ctx, params) /\ PartsMeant(ctx, members)
      /\ decl.cur = NoType /\ StructMeant(ctx, decl)
  BY <1>1 DEF InSpecs, Meant, DeclMeant
<1>3. CASE stopped' = "enum"
  BY <1>3 DEF Meant, Running
<1>4. CASE IsDecl(decl', Append(decl.toks, tok), decl.ret, decl.retTerm,
                  Rejects(tok), decl.kind, decl.base, decl.cur, decl.closed,
                  decl.term, decl.exact)
  <2>1. tok \in AllToks /\ tok # "struct" /\ decl.toks \in Seq(AllToks)
    BY TokensAreSpecifiers DEF AllToks, BaseToks, Signs, Listed
  <2>2. CountIn(decl'.toks, "struct") = CountIn(decl.toks, "struct")
    <3>1. decl'.toks = Append(decl.toks, tok)
      BY <1>4 DEF IsDecl
    <3>2. CountIn(decl.toks, "struct") \in Nat
      BY <2>1, CountType
    <3> QED BY <2>1, <3>1, <3>2, CountAppended
  <2>3. DeclMeant(ctx, decl')
    BY <1>2, <1>4, <2>2 DEF IsDecl, DeclMeant, StructMeant
  <2> QED BY <1>1, <1>2, <2>3 DEF Meant
<1> QED BY <1>1, <1>3, <1>4

\* A structure of which no member was lost is what C makes of it.
LEMMA StructIs ==
    ASSUME Typed, PartsMeant(ctx, members), AllKept, StructTerm # NoTerm,
           NEW r, NEW num,
           num = MadeStruct.c.tys[MadeStruct.ty].num,
           Makes(ctx, r, "struct", Contained(members), num)
    PROVE  Structure(r.c)[r.ty] = StructTerm
<1>1. /\ Sound(ctx) /\ Newest(ctx) \in Nat
      /\ Sequence(members) /\ \A i \in 1..Len(members) : members[i].ty \in 0..Newest(ctx)
  BY DeclIsTyped DEF PartsTyped
<1> DEFINE subs == [i \in 1..Len(members) |-> members[i].ty]
<1>2. \A i \in 1..Len(members) : members[i].ty # NoType /\ members[i].exact
  BY DEF AllKept
<1>3. Contained(members) = subs
  BY <1>1, <1>2, ContainedIs
<1>4. Len(subs) = Len(members) /\ Below(subs, Newest(ctx))
  <2>1. Contained(members) \in Seq(1..Newest(ctx))
    BY <1>1, ContainedIs
  <2>2. Len(members) \in Nat
    BY <1>1 DEF Sequence
  <2> QED BY <1>1, <1>2, <2>2 DEF NoType, Below
<1>5. /\ StructTerm = Term("struct", num, MemberTerms)
      /\ \A i \in 1..Len(members) : members[i].term # NoTerm
  <2>1. NoTerm \notin {MemberTerms[i] : i \in 1..Len(members)}
    BY DEF StructTerm
  <2> QED BY <2>1 DEF StructTerm, MemberTerms
<1>6. \A i \in 1..Len(members) : Structure(ctx)[members[i].ty] = members[i].term
  BY <1>2, <1>5 DEF PartsMeant, TermIs
<1> HIDE DEF subs
<1>7. Structure(r.c)[r.ty] = <<"struct", num, Written(ctx, subs)>>
  <2>1. Makes(ctx, r, "struct", subs, num)
    BY <1>3
  <2> QED BY <1>1, <1>4, <2>1, StructureOfParts
<1>8. Written(ctx, subs) = MemberTerms
  BY <1>4, <1>6 DEF subs, MemberTerms, Written
<1> QED BY <1>5, <1>7, <1>8 DEF Term

LEMMA StructBodyMeant ==
    ASSUME Typed, Listed, Meant, NEW name \in StructNames \cup {Unnamed}, StructBody(name)
    PROVE  Meant'
<1>1. CASE name # Unnamed /\ NameTaken(ctx, name)
  BY <1>1 DEF StructBody, Stop, Meant, Running
<1>2. CASE ~(name # Unnamed /\ NameTaken(ctx, name))
  <2> DEFINE r   == Result(SetName(MadeStruct.c, MadeStruct.ty, name), MadeStruct.ty)
             num == MadeStruct.c.tys[MadeStruct.ty].num
             ret == IF decl.ret = NoType THEN MadeStruct.ty ELSE decl.ret
  <2>1. Makes(ctx, r, "struct", Contained(members), num)
    BY <1>2, StructBodyMakes
  <2>2. /\ ctx' = r.c /\ r.ty = MadeStruct.ty
        /\ IsDecl(decl', Append(decl.toks, "struct"), ret,
                  StructTerm, decl.failed, decl.kind, decl.base, decl.cur,
                  decl.closed, decl.term, AllKept)
        /\ members' = << >> /\ UNCHANGED <<stopped, params>>
        /\ InSpecs
    BY <1>2, DeclIsTyped, StructBodyDoes DEF Result
  <2>3. /\ stopped = Running /\ decl.kind = "specifiers" /\ ~decl.failed
        /\ PartsMeant(ctx, params) /\ PartsMeant(ctx, members)
        /\ decl.cur = NoType /\ StructMeant(ctx, decl)
        /\ Accepted(decl.toks, decl.ret) /\ decl.toks \in Seq(AllToks)
    BY <2>2 DEF InSpecs, Meant, DeclMeant, Listed
  <2> DEFINE one == StructTerm
             kept == AllKept
  <2>4. one # NoTerm => one[1] = "struct"
    BY DEF StructTerm, Term
  <2>5. kept /\ one # NoTerm => Structure(r.c)[r.ty] = one
    BY <2>1, <2>3, StructIs
  <2> HIDE DEF r, num, one, kept
  <2>6. Sound(ctx) /\ Sound(r.c) /\ Extended(ctx, r.c) /\ r.ty # NoType
        /\ Kind(r.c, r.ty) = "struct"
    BY <2>1, DeclIsTyped DEF Makes, Kind, NoType
  <2>7. Kind(r.c, ret) = "struct"
    <3>1. CASE decl.ret = NoType
      BY <2>2, <2>6, <3>1
    <3>2. CASE decl.ret # NoType
      <4>1. decl.ret \in 1..Newest(ctx) /\ Kind(ctx, decl.ret) = "struct"
        BY <2>3, <3>2, DeclIsTyped DEF StructMeant, NoType
      <4> QED BY <2>6, <3>2, <4>1 DEF Extended, Kind
    <3> QED BY <3>1, <3>2
  <2>8. CountIn(decl'.toks, "struct") = 1 => ret = r.ty
    <3> SUFFICES ASSUME CountIn(decl'.toks, "struct") = 1 PROVE ret = r.ty
      OBVIOUS
    <3>1. "struct" \in AllToks /\ decl'.toks = Append(decl.toks, "struct")
      BY <2>2 DEF AllToks, IsDecl
    <3>2. CountIn(decl.toks, "struct") \in Nat
      BY <2>3, CountType
    <3>3. CountIn(decl.toks, "struct") = 0
      BY <2>3, <3>1, <3>2, CountAppended
    <3>4. decl.ret = NoType
      BY <2>3, <3>3 DEF Accepted
    <3> QED BY <2>2, <3>4
  <2> HIDE DEF ret
  <2>9. StructMeant(r.c, decl')
    BY <2>2, <2>4, <2>5, <2>7, <2>8 DEF StructMeant, IsDecl, one, kept
  <2>10. DeclMeant(r.c, decl')
    BY <2>2, <2>3, <2>9 DEF DeclMeant, IsDecl
  <2>11. PartsMeant(r.c, params)
    BY <2>3, <2>6, DeclIsTyped, PartsStay
  <2> QED BY <2>2, <2>10, <2>11, NoPartsMeant DEF Meant
<1> QED BY <1>1, <1>2

\* On to a type that was made, and that C makes as well.
LEMMA OnwardMeant ==
    ASSUME Typed, Meant, stopped = Running, decl.kind # "specifiers",
           NEW got, NEW term, NEW exact, NEW closed, NEW kind, NEW subs, NEW num,
           Makes(ctx, got, kind, subs, num),
           ctx' = got.c,
           IsDecl(decl', decl.toks, decl.ret, decl.retTerm, decl.failed, decl.kind,
                  decl.base, got.ty, closed, term, exact),
           TermIs(got.c, got.ty, term, exact),
           params' \in {params, << >>}, members' = members
    PROVE  Meant'
<1>1. PartsMeant(ctx, params) /\ PartsMeant(ctx, members)
  BY DEF Meant
<1>2. Sound(ctx) /\ Sound(got.c) /\ Extended(ctx, got.c) /\ got.ty # NoType
  BY DeclIsTyped DEF Makes, NoType
<1>3. PartsMeant(got.c, params) /\ PartsMeant(got.c, members)
  BY <1>1, <1>2, DeclIsTyped, PartsStay
<1>4. DeclMeant(got.c, decl')
  BY <1>2 DEF IsDecl, DeclMeant, TypeMeant
<1> QED BY <1>3, <1>4, NoPartsMeant DEF Meant

\* An ID that gets no type.
LEMMA CloseMeant ==
    ASSUME Typed, Meant, stopped = Running, decl.kind # "specifiers", NEW term, Close(term),
           term # NoTerm => decl.cur = NoType /\ decl.term # NoTerm
    PROVE  Meant'
<1>1. /\ IsDecl(decl', decl.toks, decl.ret, decl.retTerm, decl.failed, decl.kind,
                decl.base, NoType, TRUE, term, decl.exact)
      /\ UNCHANGED <<ctx, stopped, params, members>>
  BY DeclIsTyped, CloseDoes
<1>2. DeclMeant(ctx, decl')
  BY <1>1 DEF IsDecl, DeclMeant, TypeMeant, Meant
<1> QED BY <1>1, <1>2 DEF Meant

LEMMA AssertionMeant ==
    ASSUME NEW why, NEW term, Assertion(why, term), why # Running
    PROVE  Meant'
BY DEF Assertion, Meant

\* The kind of the type handed down is that of what C makes of the declarator.
LEMMA KindIs ==
    ASSUME Meant, stopped = Running, decl.kind # "specifiers",
           decl.cur # NoType, decl.term # NoTerm
    PROVE  /\ Kind(ctx, decl.cur) = decl.term[1]
           /\ decl.term[1] \notin {"label", "token", "none"}
           /\ decl.exact => Structure(ctx)[decl.cur] = decl.term
BY DEF Meant, DeclMeant, TypeMeant, TermIs

LEMMA DeclaratorOpen ==
    ASSUME NEW kinds, kinds \subseteq Objects \cup {"function"}, InDeclarator(kinds)
    PROVE  stopped = Running /\ decl.kind # "specifiers"
BY DEF InDeclarator, Objects

\* One more type over the one handed down, as C has it.
LEMMA OverIs ==
    ASSUME Typed, Meant, stopped = Running, decl.kind # "specifiers", decl.cur # NoType,
           NEW kind \in {"pointer", "array"}, NEW num, NEW got,
           Makes(ctx, got, kind, <<decl.cur>>, num),
           decl.term # NoTerm
    PROVE  TermIs(got.c, got.ty, Term(kind, num, <<decl.term>>), decl.exact)
<1>1. Sound(ctx) /\ decl.cur \in 1..Newest(ctx)
  BY DeclIsTyped
<1> DEFINE subs == <<decl.cur>>
<1>2. Len(subs) = 1 /\ subs[1] = decl.cur /\ Below(subs, Newest(ctx))
  BY <1>1 DEF Below
<1> HIDE DEF subs
<1>3. Structure(got.c)[got.ty] = <<kind, num, Written(ctx, subs)>>
  <2>1. Makes(ctx, got, kind, subs, num)
    BY DEF subs
  <2> HIDE DEF Makes
  <2> QED BY <1>1, <1>2, <2>1, StructureOfMade
<1>4. decl.exact => Written(ctx, subs) = <<decl.term>>
  BY <1>2, KindIs DEF Written
<1>5. Kind(got.c, got.ty) = kind
  BY DEF Makes, Kind
<1> QED BY <1>3, <1>4, <1>5 DEF TermIs, Term

LEMMA PointerMeant ==
    ASSUME Typed, Meant, PointerDecltr
    PROVE  Meant'
<1>1. stopped = Running /\ decl.kind # "specifiers"
  BY DeclaratorOpen DEF PointerDecltr
<1>2. CASE \E term : \E why \in {"no type", "pointer to void"} : Assertion(why, term)
  BY <1>2, AssertionMeant DEF Running
<1>3. CASE /\ decl.cur # NoType
           /\ Onward(GetPointer(ctx, decl.cur), CPointer(decl.term), decl.exact)
  <2> DEFINE got == GetPointer(ctx, decl.cur)
             term == CPointer(decl.term)
  <2>1. Makes(ctx, got, "pointer", <<decl.cur>>, 0)
    BY <1>3, DeclIsTyped, PointerMade
  <2>2. TermIs(got.c, got.ty, term, decl.exact)
    <3>1. CASE decl.term = NoTerm
      BY <3>1 DEF TermIs, CPointer
    <3>2. CASE decl.term # NoTerm
      <4>1. term = Term("pointer", 0, <<decl.term>>)
        BY <3>2 DEF CPointer
      <4> HIDE DEF got, term
      <4> QED BY <1>1, <1>3, <2>1, <3>2, <4>1, OverIs
    <3> QED BY <3>1, <3>2
  <2> HIDE DEF got, term
  <2>3. Onward(got, term, decl.exact)
    BY <1>3 DEF got, term
  <2> QED BY <1>1, <2>1, <2>2, <2>3, DeclIsTyped, OnwardDoes, OnwardMeant
<1> QED BY <1>2, <1>3 DEF PointerDecltr

LEMMA ArrayMeant ==
    ASSUME Typed, Meant, NEW n \in ArraySizes, NEW literal \in BOOLEAN,
           ArrayDecltr(n, literal)
    PROVE  Meant'
<1>1. stopped = Running /\ decl.kind # "specifiers"
  BY DeclaratorOpen DEF ArrayDecltr
<1>2. CASE \E why \in {"array size", "array element"} : Assertion(why, CArray(decl.term, n))
  BY <1>2, AssertionMeant DEF Running
<1>3. CASE decl.cur = NoType /\ Close(CArray(decl.term, n))
  <2>1. decl.term = NoTerm => CArray(decl.term, n) = NoTerm
    BY DEF CArray, IsTerm, NoTerm, Term
  <2> QED BY <1>1, <1>3, <2>1, CloseMeant
<1>4. CASE /\ decl.cur # NoType
           /\ Onward(GetArray(ctx, decl.cur, n), CArray(decl.term, n), decl.exact)
  <2> DEFINE got == GetArray(ctx, decl.cur, n)
             term == CArray(decl.term, n)
  <2>1. Makes(ctx, got, "array", <<decl.cur>>, n)
    BY <1>4, DeclIsTyped, ArrayMade
  <2>2. TermIs(got.c, got.ty, term, decl.exact)
    <3>1. CASE term = NoTerm
      BY <3>1 DEF TermIs
    <3>2. CASE term # NoTerm
      <4>1. term = Term("array", n, <<decl.term>>) /\ decl.term # NoTerm
        BY <3>2 DEF CArray, IsTerm, NoTerm, Term
      <4> HIDE DEF got, term
      <4> QED BY <1>1, <1>4, <2>1, <4>1, OverIs
    <3> QED BY <3>1, <3>2
  <2> HIDE DEF got, term
  <2>3. Onward(got, term, decl.exact)
    BY <1>4 DEF got, term
  <2> QED BY <1>1, <2>1, <2>2, <2>3, DeclIsTyped, OnwardDoes, OnwardMeant
<1> QED BY <1>2, <1>3, <1>4 DEF ArrayDecltr

LEMMA UnsizedMeant ==
    ASSUME Typed, Meant, UnsizedDecltr
    PROVE  Meant'
<1>1. stopped = Running /\ decl.kind # "specifiers"
  BY DeclaratorOpen DEF UnsizedDecltr
<1>2. decl.term = NoTerm => CArray(decl.term, 0) = NoTerm
  BY DEF CArray, IsTerm, NoTerm, Term
<1>3. \/ Close(NoTerm)
      \/ decl.cur = NoType /\ Close(CArray(decl.term, 0))
  BY DEF UnsizedDecltr
<1> QED BY <1>1, <1>2, <1>3, CloseMeant

-----------------------------------------------------------------------------
(* Functions.                                                              *)

ParamTerms == [i \in 1..Len(params) |-> CParam(params[i].term)]

\* When C makes a function of it, and the program too, no parameter is void.
LEMMA ParamsAreObjects ==
    ASSUME PartsMeant(ctx, params), PartsTyped(params, Newest(ctx)), ParamsHaveTypes,
           CFunction(decl.term, params) # NoTerm,
           \A i \in 1..Len(params) : ValidArgument(ctx, params[i].ty)
    PROVE  /\ CFunction(decl.term, params) = Term("function", 0, <<decl.term>> \o ParamTerms)
           /\ \A i \in 1..Len(params) :
                  /\ params[i].term # NoTerm
                  /\ params[i].term[1] # "array" => ParamTerms[i] = params[i].term
           /\ decl.term # NoTerm
<1> DEFINE terms == ParamTerms
           none  == Len(terms) = 1 /\ terms[1][1] = "void"
<1>1. Len(params) \in Nat /\ Len(terms) = Len(params)
      /\ \A i \in 1..Len(params) : terms[i] = CParam(params[i].term)
  BY DEF PartsTyped, Sequence, ParamTerms
<1>2. CFunction(decl.term, params)
          = IF \/ IsTerm(decl.term, {"none", "array", "function"})
               \/ ~none /\ \E i \in 1..Len(terms) : IsTerm(terms[i], {"none", "void"})
            THEN NoTerm
            ELSE Term("function", 0, <<decl.term>> \o (IF none THEN << >> ELSE terms))
  BY DEF CFunction, ParamTerms
<1> HIDE DEF terms
<1>3. ASSUME NEW i \in 1..Len(params)
      PROVE  /\ params[i].ty # NoType
             /\ params[i].term # NoTerm => /\ Kind(ctx, params[i].ty) = params[i].term[1]
                                           /\ params[i].term[1] \notin {"void", "function"}
  <2>1. params[i].ty # NoType
    BY DEF ParamsHaveTypes
  <2> QED BY <2>1 DEF PartsMeant, TermIs, ValidArgument, IsFirstClass, IsA
<1>4. NoTerm[1] = "none"
  BY DEF NoTerm, Term
<1>5. ASSUME NEW t
      PROVE  /\ t = NoTerm => CParam(t)[1] = "none"
             /\ t # NoTerm /\ t[1] \notin {"array", "function"} => CParam(t) = t
             /\ CParam(t)[1] = "void" => t[1] = "void"
  <2>1. \A u : CPointer(u)[1] \in {"none", "pointer"}
    BY DEF CPointer, Term, NoTerm
  <2> HIDE DEF CPointer, NoTerm
  <2> QED BY <1>4, <2>1 DEF CParam, IsTerm
<1>6. ~none
  <2> SUFFICES ASSUME none PROVE FALSE
    OBVIOUS
  <2>1. Len(params) = 1 /\ terms[1][1] = "void" /\ terms[1] = CParam(params[1].term)
    <3>1. Len(params) = 1 /\ terms[1][1] = "void"
      BY <1>1
    <3>2. 1 \in 1..Len(params)
      BY <3>1
    <3> QED BY <1>1, <3>1, <3>2
  <2>2. params[1].term[1] = "void"
    BY <1>5, <2>1
  <2>3. params[1].term # NoTerm
    BY <1>4, <2>2
  <2> QED BY <1>3, <2>1, <2>2, <2>3
<1> HIDE DEF none
<1>7. /\ ~IsTerm(decl.term, {"none", "array", "function"})
      /\ \A i \in 1..Len(terms) : ~IsTerm(terms[i], {"none", "void"})
      /\ CFunction(decl.term, params) = Term("function", 0, <<decl.term>> \o terms)
  BY <1>2, <1>6
<1>8. decl.term # NoTerm
  BY <1>4, <1>7 DEF IsTerm
<1>9. ASSUME NEW i \in 1..Len(params)
      PROVE  /\ params[i].term # NoTerm
             /\ params[i].term[1] # "array" => terms[i] = params[i].term
  <2>1. terms[i][1] # "none"
    BY <1>1, <1>7 DEF IsTerm
  <2>2. params[i].term # NoTerm
    BY <1>1, <1>5, <2>1
  <2> QED BY <1>1, <1>3, <1>5, <2>2
<1> QED BY <1>7, <1>8, <1>9 DEF terms

LEMMA FunctionIs ==
    ASSUME Typed, Meant, stopped = Running, decl.kind # "specifiers", decl.cur # NoType,
           ParamsHaveTypes, \A i \in 1..Len(params) : ValidArgument(ctx, params[i].ty),
           NEW got, Makes(ctx, got, "function", <<decl.cur>> \o ParamTypes, 0)
    PROVE  TermIs(got.c, got.ty, CFunction(decl.term, params), decl.exact /\ ParamsKept)
<1> SUFFICES ASSUME CFunction(decl.term, params) # NoTerm
             PROVE  TermIs(got.c, got.ty, CFunction(decl.term, params), decl.exact /\ ParamsKept)
  BY DEF TermIs
<1>1. /\ Sound(ctx) /\ decl.cur \in 1..Newest(ctx) /\ Newest(ctx) \in Nat
      /\ PartsTyped(params, Newest(ctx)) /\ PartsMeant(ctx, params)
  BY DeclIsTyped DEF Meant
<1>2. /\ CFunction(decl.term, params) = Term("function", 0, <<decl.term>> \o ParamTerms)
      /\ \A i \in 1..Len(params) :
             /\ params[i].term # NoTerm
             /\ params[i].term[1] # "array" => ParamTerms[i] = params[i].term
      /\ decl.term # NoTerm
  BY <1>1, ParamsAreObjects
<1> DEFINE n == Len(params)
           subs == <<decl.cur>> \o ParamTypes
           row == Written(ctx, subs)
           all == <<decl.term>> \o ParamTerms
<1>3. /\ n \in Nat /\ ParamTypes \in Seq(1..Newest(ctx)) /\ Len(ParamTypes) = n
      /\ \A i \in 1..n : ParamTypes[i] = params[i].ty
      /\ \A i \in 1..n : params[i].ty \in 1..Newest(ctx)
  BY <1>1, TypedParams DEF PartsTyped, Sequence, ParamTypes, ParamsHaveTypes, NoType
<1>4. ParamTerms \in Seq({ParamTerms[i] : i \in 1..n}) /\ Len(ParamTerms) = n
  BY <1>3 DEF ParamTerms
<1>5. /\ Len(subs) = n + 1 /\ subs[1] = decl.cur
      /\ \A i \in 1..n : subs[i + 1] = ParamTypes[i]
      /\ Below(subs, Newest(ctx))
  <2>1. subs \in Seq(1..Newest(ctx)) /\ <<decl.cur>> \in Seq(1..Newest(ctx))
    BY <1>1, <1>3
  <2>2. Len(subs) = n + 1 /\ subs[1] = decl.cur /\ \A i \in 1..n : subs[i + 1] = ParamTypes[i]
    BY <1>1, <1>3
  <2> HIDE DEF subs
  <2>3. Below(subs, Newest(ctx))
    BY <2>1, SeqBelow
  <2> QED BY <2>2, <2>3
<1>6. all = [i \in 1..(n + 1) |-> IF i = 1 THEN decl.term ELSE ParamTerms[i - 1]]
  <2> DEFINE T == {decl.term} \cup {ParamTerms[i] : i \in 1..n}
  <2>1. <<decl.term>> \in Seq(T) /\ ParamTerms \in Seq(T)
    BY <1>3, <1>4 DEF ParamTerms
  <2> HIDE DEF T
  <2>2. /\ all \in Seq(T) /\ Len(all) = n + 1 /\ all[1] = decl.term
        /\ \A i \in 1..n : all[i + 1] = ParamTerms[i]
    BY <1>3, <1>4, <2>1
  <2>3. all = [i \in 1..(n + 1) |-> all[i]]
    BY <2>2
  <2>4. \A i \in 1..(n + 1) : all[i] = IF i = 1 THEN decl.term ELSE ParamTerms[i - 1]
    <3> TAKE i \in 1..(n + 1)
    <3>1. CASE i = 1
      BY <2>2, <3>1
    <3>2. CASE i # 1
      <4>1. i - 1 \in 1..n /\ (i - 1) + 1 = i
        BY <1>3, <3>2
      <4> QED BY <2>2, <3>2, <4>1
    <3> QED BY <3>1, <3>2
  <2> HIDE DEF all
  <2> QED BY <2>3, <2>4
<1>7. Structure(got.c)[got.ty] = <<"function", 0, row>>
  <2> HIDE DEF subs
  <2>1. Makes(ctx, got, "function", subs, 0)
    BY DEF subs
  <2> HIDE DEF Makes
  <2> QED BY <1>1, <1>5, <2>1, StructureOfParts
<1>8. ASSUME decl.exact, ParamsKept
      PROVE  row = all
  <2>1. Structure(ctx)[decl.cur] = decl.term
    BY <1>2, <1>8, KindIs
  <2>2. \A i \in 1..n : ParamTerms[i] = Structure(ctx)[ParamTypes[i]]
    <3> TAKE i \in 1..n
    <3>1. params[i].exact /\ params[i].term[1] # "array" /\ params[i].ty # NoType
      BY <1>3, <1>8 DEF ParamsKept, IsTerm, NoType
    <3>2. Structure(ctx)[params[i].ty] = params[i].term
      BY <1>1, <1>2, <3>1 DEF PartsMeant, TermIs
    <3> QED BY <1>2, <1>3, <3>1, <3>2
  <2>3. \A i \in 1..(n + 1) :
            Structure(ctx)[subs[i]] = IF i = 1 THEN decl.term ELSE ParamTerms[i - 1]
    <3> TAKE i \in 1..(n + 1)
    <3> HIDE DEF subs
    <3>1. CASE i = 1
      BY <1>5, <2>1, <3>1
    <3>2. CASE i # 1
      <4>1. i - 1 \in 1..n /\ (i - 1) + 1 = i
        BY <1>3, <3>2
      <4> QED BY <1>5, <2>2, <3>2, <4>1
    <3> QED BY <3>1, <3>2
  <2>4. Written(ctx, subs) = [i \in 1..(n + 1) |-> Structure(ctx)[subs[i]]]
    BY <1>5 DEF Written
  <2> HIDE DEF subs, all
  <2> QED BY <1>6, <2>3, <2>4
<1>9. Kind(got.c, got.ty) = "function"
  BY DEF Makes, Kind
<1>10. Term("function", 0, all)[1] = "function"
  BY DEF Term
<1> HIDE DEF row, all
<1>11. CFunction(decl.term, params) = Term("function", 0, all)
  BY <1>2 DEF all
<1> QED BY <1>7, <1>8, <1>9, <1>10, <1>11 DEF TermIs, Term

LEMMA NoFunction == CFunction(NoTerm, params) = NoTerm
<1>1. IsTerm(NoTerm, {"none", "array", "function"})
  BY DEF IsTerm, NoTerm, Term
<1> HIDE DEF NoTerm
<1> QED BY <1>1 DEF CFunction

LEMMA FunctionMeant ==
    ASSUME Typed, Meant, FuncDecltr
    PROVE  Meant'
<1>1. stopped = Running /\ decl.kind # "specifiers"
  BY DeclaratorOpen DEF FuncDecltr
<1> DEFINE term == CFunction(decl.term, params)
           exact == decl.exact /\ ParamsKept
<1>2. CASE \E why \in {"no type", "result", "argument"} : Assertion(why, term)
  <2> HIDE DEF term
  <2> QED BY <1>2, AssertionMeant DEF Running
<1>3. CASE decl.cur = NoType /\ Close(term)
  <2>1. decl.term = NoTerm => term = NoTerm
    BY NoFunction
  <2> HIDE DEF term
  <2> QED BY <1>1, <1>3, <2>1, CloseMeant
<1>4. CASE /\ decl.cur # NoType /\ ParamsHaveTypes
           /\ \A i \in 1..Len(params) : ValidArgument(ctx, params[i].ty)
           /\ ctx' = GotFunction.c
           /\ IsDecl(decl', decl.toks, decl.ret, decl.retTerm, decl.failed, decl.kind,
                     decl.base, GotFunction.ty, decl.kind = "function", term, exact)
           /\ params' = << >> /\ UNCHANGED <<stopped, members>>
  <2> DEFINE closed == (decl.kind = "function")
             subs == <<decl.cur>> \o ParamTypes
             kind == "function"
             num == 0
  <2>1. Makes(ctx, GotFunction, kind, subs, num)
    BY <1>4, DeclIsTyped, TypedParams, FunctionMade DEF GotFunction, ParamTypes
  <2>2. TermIs(GotFunction.c, GotFunction.ty, term, exact)
    BY <1>1, <1>4, <2>1, FunctionIs
  <2>3. IsDecl(decl', decl.toks, decl.ret, decl.retTerm, decl.failed, decl.kind,
               decl.base, GotFunction.ty, closed, term, exact)
    BY <1>4
  <2> HIDE DEF closed, term, exact, subs, kind, num
  <2> QED BY <1>1, <1>4, <2>1, <2>2, <2>3, OnwardMeant
<1> HIDE DEF exact
<1>5. \/ \E why \in {"no type", "result", "argument"} : Assertion(why, term)
      \/ decl.cur = NoType /\ Close(term)
      \/ /\ decl.cur # NoType /\ ParamsHaveTypes
         /\ \A i \in 1..Len(params) : ValidArgument(ctx, params[i].ty)
         /\ ctx' = GotFunction.c
         /\ IsDecl(decl', decl.toks, decl.ret, decl.retTerm, decl.failed, decl.kind,
                   decl.base, GotFunction.ty, decl.kind = "function", term, exact)
         /\ params' = << >> /\ UNCHANGED <<stopped, members>>
  BY FuncDecltrDoes DEF exact
<1> QED BY <1>2, <1>3, <1>4, <1>5

\* The end of a declaration.
LEMMA EndMeant ==
    ASSUME Typed, Meant, Ending
    PROVE  Meant'
<1>1. /\ Sequence(params) /\ Sequence(members)
      /\ DeclMeant(ctx, NewDecl)
  BY DeclIsTyped, NewDeclMeant DEF PartsTyped
<1>2. CASE stopped' # Running
  BY <1>2 DEF Meant
<1>3. CASE EndParam
  <2> DEFINE t == IF decl.cur = NoType THEN decl.base ELSE decl.cur
  <2>1. /\ UNCHANGED <<ctx, stopped, members>> /\ decl' = NewDecl
        /\ params' = Append(params, Part(t))
        /\ stopped = Running /\ decl.kind = "parameter"
    BY <1>3 DEF EndParam
  <2>2. PartsMeant(ctx, params) /\ PartsMeant(ctx, members) /\ TypeMeant(ctx, decl)
    BY <2>1 DEF Meant, DeclMeant
  <2>3. t # NoType => TermIs(ctx, t, decl.term, decl.exact)
    BY <2>1, <2>2 DEF TypeMeant, TermIs
  <2>4. Part(t).ty = t /\ Part(t).term = decl.term /\ Part(t).exact = decl.exact
    BY DEF Part
  <2> HIDE DEF t
  <2>5. PartsMeant(ctx, params')
    BY <1>1, <2>1, <2>2, <2>3, <2>4, PartMeant
  <2> QED BY <1>1, <2>1, <2>2, <2>5 DEF Meant
<1>4. ASSUME NEW bits \in BOOLEAN, EndMember(bits)
      PROVE  Meant'
  <2>1. /\ UNCHANGED <<ctx, stopped, params>> /\ decl' = NewDecl
        /\ stopped = Running /\ decl.kind = "member"
    BY <1>4, EndMemberDoes
  <2>2. PICK part : /\ part.ty = decl.cur
                    /\ \/ part.term = decl.term /\ part.exact = decl.exact
                       \/ part.term = CBitField(decl.term) /\ part.exact = FALSE
                    /\ members' = Append(members, part)
    BY <1>4, EndMemberDoes
  <2>3. PartsMeant(ctx, params) /\ PartsMeant(ctx, members) /\ TypeMeant(ctx, decl)
    BY <2>1 DEF Meant, DeclMeant
  <2>4. CBitField(decl.term) \in {decl.term, NoTerm}
    BY DEF CBitField
  <2>5. decl.cur # NoType => TermIs(ctx, decl.cur, part.term, part.exact)
    BY <2>2, <2>3, <2>4 DEF TypeMeant, TermIs
  <2>6. PartsMeant(ctx, members')
    BY <1>1, <2>2, <2>3, <2>5, PartMeant
  <2> QED BY <1>1, <2>1, <2>3, <2>6 DEF Meant
<1>5. CASE (EndGlobal \/ EndConverted) /\ stopped' = Running
  <2>1. UNCHANGED <<ctx, params, members>> /\ decl' = NewDecl /\ stopped = Running
    BY <1>5 DEF EndGlobal, EndConverted, Stop, Running
  <2> QED BY <1>1, <2>1 DEF Meant
<1>6. AbstractDecltr => stopped' # Running
  BY DEF AbstractDecltr, Stop, Running
<1> QED BY <1>2, <1>3, <1>4, <1>5, <1>6 DEF Ending

LEMMA BitFieldMeant ==
    ASSUME UnnamedBitField
    PROVE  Meant'
BY AssertionMeant DEF UnnamedBitField, Running

\* What is known of the types that were made, against C.
THEOREM MeantInvariant == Spec => []Meant
<1>1. Init => Meant
  BY NewDeclMeant, NoPartsMeant DEF Init, Meant
<1>2. Typed /\ Listed /\ Meant /\ [Next]_vars => Meant'
  <2> SUFFICES ASSUME Typed, Listed, Meant, [Next]_vars PROVE Meant'
    OBVIOUS
  <2>1. CASE UNCHANGED vars
    BY <2>1 DEF vars, Meant
  <2>2. CASE Next
    BY <2>2, SpecifierMeant, StructBodyMeant, EndSpecsMeant, PointerMeant, ArrayMeant,
       UnsizedMeant, FunctionMeant, BitFieldMeant, EndMeant DEF Next, Ending
  <2> QED BY <2>1, <2>2
<1> QED BY <1>1, <1>2, TypedInvariant, ListedInvariant, PTL DEF Spec

\* A declaration that C allows and that was given a type has the type that C
\* gives it, if no part of it was lost (DerivedAST.cc, Type.cc).
THEOREM DeclaredTypeIsMeant == Spec => []DeclaredMeaning
<1>1. Meant => DeclaredMeaning
  BY DEF Meant, DeclMeant, TypeMeant, TermIs, DeclaredMeaning
<1> QED BY <1>1, MeantInvariant, PTL

-----------------------------------------------------------------------------
(* Why the compiler ends.                                                  *)

Explained ==
    \/ stopped \in {"same tag", "enum", "abstract declarator"}
    \/ stopped = "unnamed bit-field" /\ decl.kind = "member"
    \/ stopped = "array size" /\ decl.cur # NoType
    \/ stopped = "char" /\ ~Converts(ctx)[decl.cur]
    \/ stopped = "pointer to void" /\ decl.cur = Prim("void")
    \/ /\ stopped = "no type"
       /\ \/ Has({"float", "double", "tag"})
          \/ \E i \in 1..Len(params) : params[i].ty = NoType
    \/ /\ stopped = "argument"
       /\ \E i \in 1..Len(params) : IsA(ctx, params[i].ty, {"function", "void"})

LEMMA StopIsExplained ==
    StopExplained <=>
        (stopped # Running /\ (decl.kind = "specifiers" \/ decl.term # NoTerm) => Explained)
BY DEF StopExplained, Explained

\* Only one type is of the kind void.
LEMMA VoidIs ==
    ASSUME NEW c, Sound(c), NEW t \in 1..Newest(c), Kind(c, t) = "void"
    PROVE  t = Prim("void")
<1>1. Newest(c) \in Nat /\ 14 <= Newest(c) /\ Made(c) = 15..Newest(c)
  BY SizesOf DEF Sound
<1>2. t \notin Made(c)
  BY KindOfMade DEF Kind
<1>3. t \in 1..14
  BY <1>1, <1>2
<1>4. Primitives[t] = "void"
  BY <1>3, KindOfPrimitive DEF Kind
<1>5. Prim("void") \in 1..14 /\ Primitives[Prim("void")] = "void"
  BY PrimIs DEF PrimNames
<1> QED BY <1>3, <1>4, <1>5, PrimsDiffer

\* A declaration with no type though C allows it has a float, a double or a tag.
LEMMA NoTypeBecause ==
    ASSUME Listed, Meant, stopped = Running, decl.kind # "specifiers", decl.cur = NoType,
           decl.term # NoTerm
    PROVE  Has({"float", "double", "tag"})
<1>1. Floating(decl.toks)
  BY DEF Meant, DeclMeant, TypeMeant
<1> QED BY <1>1, HasIs DEF Floating, Listed

\* The same, when an assertion ends the compiler there.
LEMMA AssertionExplained ==
    ASSUME Typed, Listed, Meant, stopped = Running, decl.kind # "specifiers",
           NEW why, NEW term, Assertion(why, term),
           term # NoTerm => decl.term # NoTerm,
           term # NoTerm =>
               \/ why = "unnamed bit-field" /\ decl.kind = "member"
               \/ why = "array size" /\ decl.cur # NoType
               \/ why = "no type" /\ (decl.cur = NoType \/ ~ParamsHaveTypes)
               \/ why = "pointer to void" /\ decl.cur = Prim("void")
               \/ why = "argument" /\ \E i \in 1..Len(params) :
                      IsA(ctx, params[i].ty, {"function", "void"})
    PROVE  StopExplained'
<1>1. /\ stopped' = why
      /\ IsDecl(decl', decl.toks, decl.ret, decl.retTerm, decl.failed, decl.kind,
                decl.base, decl.cur, decl.closed, decl.term', decl.exact)
      /\ decl.term' = term /\ UNCHANGED <<ctx, params, members>>
  BY DeclIsTyped, AssertionDoes DEF IsDecl
<1>2. decl.toks' = decl.toks /\ decl.cur' = decl.cur /\ decl.kind' = decl.kind
  BY <1>1 DEF IsDecl
<1>3. Has({"float", "double", "tag"})' <=> Has({"float", "double", "tag"})
  BY <1>2 DEF Has
<1> SUFFICES ASSUME term # NoTerm PROVE Explained'
  BY <1>1, <1>2, StopIsExplained DEF StopExplained, Explained
<1> QED BY <1>1, <1>2, <1>3, NoTypeBecause DEF Explained, ParamsHaveTypes

\* A declaration at which the compiler ends without an assertion.
LEMMA StopLeaves ==
    ASSUME NEW why, Stop(why)
    PROVE  /\ stopped' = why /\ UNCHANGED <<ctx, decl, params, members>>
           /\ Has({"float", "double", "tag"})' <=> Has({"float", "double", "tag"})
BY DEF Stop, Has

LEMMA StopHereExplained ==
    ASSUME Listed, Meant, stopped = Running, NEW why, Stop(why),
           \/ why \in {"same tag", "enum", "abstract declarator"}
           \/ why = "char" /\ ~Converts(ctx)[decl.cur]
           \/ why = "no type" /\ decl.kind # "specifiers" /\ decl.cur = NoType
    PROVE  StopExplained'
<1>1. /\ stopped' = why /\ UNCHANGED <<ctx, decl, params, members>>
      /\ Has({"float", "double", "tag"})' <=> Has({"float", "double", "tag"})
  BY StopLeaves
<1>2. CASE why \in {"same tag", "enum", "abstract declarator"}
  BY <1>1, <1>2 DEF StopExplained
<1>3. CASE why = "char" /\ ~Converts(ctx)[decl.cur]
  BY <1>1, <1>3 DEF StopExplained
<1>4. CASE why = "no type" /\ decl.kind # "specifiers" /\ decl.cur = NoType
  <2>1. decl.term # NoTerm => Has({"float", "double", "tag"})
    BY <1>4, NoTypeBecause
  <2> QED BY <1>1, <1>4, <2>1 DEF StopExplained
<1> QED BY <1>2, <1>3, <1>4

LEMMA PointerExplained ==
    ASSUME Typed, Listed, Meant, PointerDecltr
    PROVE  StopExplained'
<1>1. stopped = Running /\ decl.kind # "specifiers"
  BY DeclaratorOpen DEF PointerDecltr
<1>2. CPointer(decl.term) # NoTerm => decl.term # NoTerm
  BY DEF CPointer
<1>3. CASE decl.cur = NoType /\ Assertion("no type", CPointer(decl.term))
  <2> HIDE DEF CPointer
  <2> QED BY <1>1, <1>2, <1>3, AssertionExplained
<1>4. CASE /\ decl.cur # NoType /\ ~ValidPointee(ctx, decl.cur)
           /\ Assertion("pointer to void", CPointer(decl.term))
  <2>1. ASSUME decl.term # NoTerm
        PROVE  decl.cur = Prim("void")
    <3>1. Kind(ctx, decl.cur) = "void"
      BY <1>1, <1>4, <2>1, KindIs DEF ValidPointee, IsA
    <3> QED BY <1>4, <3>1, DeclIsTyped, VoidIs
  <2> HIDE DEF CPointer
  <2> QED BY <1>1, <1>2, <1>4, <2>1, AssertionExplained
<1>5. CASE Onward(GetPointer(ctx, decl.cur), CPointer(decl.term), decl.exact)
  BY <1>1, <1>5 DEF Onward, StopExplained
<1> QED BY <1>1, <1>3, <1>4, <1>5 DEF PointerDecltr

LEMMA ArrayExplained ==
    ASSUME Typed, Listed, Meant, NEW n \in ArraySizes, NEW literal \in BOOLEAN,
           ArrayDecltr(n, literal)
    PROVE  StopExplained'
<1>1. stopped = Running /\ decl.kind # "specifiers"
  BY DeclaratorOpen DEF ArrayDecltr
<1>2. CArray(decl.term, n) # NoTerm =>
          decl.term # NoTerm /\ decl.term[1] \notin {"void", "function"}
  BY DEF CArray, IsTerm, NoTerm, Term
<1>3. CASE /\ decl.cur # NoType /\ ~ValidArrayElem(ctx, decl.cur)
           /\ Assertion("array element", CArray(decl.term, n))
  <2>1. CArray(decl.term, n) = NoTerm
    BY <1>1, <1>2, <1>3, KindIs DEF ValidArrayElem, IsA
  <2> HIDE DEF CArray
  <2> QED BY <1>1, <1>3, <2>1, AssertionExplained
<1>4. CASE Close(CArray(decl.term, n))
  BY <1>1, <1>4 DEF Close, StopExplained
<1>6. CASE decl.cur # NoType /\ Assertion("array size", CArray(decl.term, n))
  <2> HIDE DEF CArray
  <2> QED BY <1>1, <1>2, <1>6, AssertionExplained
<1>5. CASE Onward(GetArray(ctx, decl.cur, n), CArray(decl.term, n), decl.exact)
  BY <1>1, <1>5 DEF Onward, StopExplained
<1> QED BY <1>3, <1>4, <1>5, <1>6 DEF ArrayDecltr

LEMMA FunctionExplained ==
    ASSUME Typed, Listed, Meant, FuncDecltr
    PROVE  StopExplained'
<1> DEFINE term == CFunction(decl.term, params)
<1>1. stopped = Running /\ decl.kind # "specifiers"
  BY DeclaratorOpen DEF FuncDecltr
<1>2. term # NoTerm => decl.term # NoTerm /\ decl.term[1] \notin {"array", "function"}
  BY NoFunction DEF CFunction, IsTerm
<1>3. \/ /\ decl.cur = NoType \/ ~ParamsHaveTypes
         /\ Assertion("no type", term)
      \/ Close(term)
      \/ /\ decl.cur # NoType /\ ~ValidReturn(ctx, decl.cur)
         /\ Assertion("result", term)
      \/ /\ \E i \in 1..Len(params) : ~ValidArgument(ctx, params[i].ty)
         /\ Assertion("argument", term)
      \/ UNCHANGED stopped
  BY FuncDecltrDoes
<1> HIDE DEF term
<1>4. CASE (decl.cur = NoType \/ ~ParamsHaveTypes) /\ Assertion("no type", term)
  BY <1>1, <1>2, <1>4, AssertionExplained
<1>5. CASE /\ decl.cur # NoType /\ ~ValidReturn(ctx, decl.cur)
           /\ Assertion("result", term)
  <2>1. term = NoTerm
    BY <1>1, <1>2, <1>5, KindIs DEF ValidReturn, IsA
  <2> QED BY <1>1, <1>5, <2>1, AssertionExplained
<1>6. CASE /\ \E i \in 1..Len(params) : ~ValidArgument(ctx, params[i].ty)
           /\ Assertion("argument", term)
  <2>1. \E i \in 1..Len(params) : IsA(ctx, params[i].ty, {"function", "void"})
    BY <1>6 DEF ValidArgument, IsFirstClass
  <2> QED BY <1>1, <1>2, <1>6, <2>1, AssertionExplained
<1>7. CASE Close(term) \/ UNCHANGED stopped
  BY <1>1, <1>7 DEF Close, StopExplained
<1> QED BY <1>3, <1>4, <1>5, <1>6, <1>7

LEMMA BitFieldExplained ==
    ASSUME Typed, Listed, Meant, UnnamedBitField
    PROVE  StopExplained'
<1>1. stopped = Running /\ decl.kind = "member"
  BY DEF UnnamedBitField, InDeclarator
<1>2. CBitField(decl.term) # NoTerm => decl.term # NoTerm
  BY DEF CBitField
<1>3. Assertion("unnamed bit-field", CBitField(decl.term))
  BY DEF UnnamedBitField
<1> HIDE DEF CBitField
<1> QED BY <1>1, <1>2, <1>3, AssertionExplained

LEMMA EndExplained ==
    ASSUME Listed, Meant, Ending
    PROVE  StopExplained'
<1>1. stopped = Running
  BY DEF Ending, AbstractDecltr, InDeclarator, EndParam, EndMember, EndGlobal, EndConverted
<1>2. CASE stopped' = Running
  BY <1>2 DEF StopExplained
<1>3. CASE stopped' # Running
  <2>1. \/ AbstractDecltr /\ Stop("abstract declarator")
        \/ EndConverted /\ Stop("no type") /\ decl.cur = NoType
        \/ EndConverted /\ Stop("char") /\ ~Converts(ctx)[decl.cur]
    BY <1>1, <1>3 DEF Ending, AbstractDecltr, EndParam, EndMember, EndGlobal, EndConverted
  <2>2. EndConverted => decl.kind # "specifiers"
    BY DEF EndConverted
  <2> QED BY <1>1, <2>1, <2>2, StopHereExplained
<1> QED BY <1>2, <1>3

\* The compiler ends at a declaration that C allows for the reasons that
\* StopExplained lists, and no other (Type.cc, the assertions of the
\* constructors; ObjBuilder::getCvtType).
THEOREM StopsAreExplained == Spec => []StopExplained
<1>1. Init => StopExplained
  BY DEF Init, TypesInit, StopExplained
<1>2. Typed /\ Listed /\ Meant /\ StopExplained /\ [Next]_vars => StopExplained'
  <2> SUFFICES ASSUME Typed, Listed, Meant, StopExplained, [Next]_vars
               PROVE  StopExplained'
    OBVIOUS
  <2>1. CASE UNCHANGED vars
    <3>1. Has({"float", "double", "tag"})' <=> Has({"float", "double", "tag"})
      BY <2>1 DEF vars, Has
    <3> QED BY <2>1, <3>1 DEF vars, StopExplained
  <2>2. ASSUME NEW tok \in Tokens, Specifier(tok)
        PROVE  StopExplained'
    <3>1. stopped = Running
      BY <2>2 DEF Specifier, InSpecs
    <3>2. stopped' = Running \/ Stop("enum")
      BY <2>2, <3>1 DEF Specifier
    <3> QED BY <3>1, <3>2, StopHereExplained DEF StopExplained
  <2>3. ASSUME NEW name \in StructNames \cup {Unnamed}, StructBody(name)
        PROVE  StopExplained'
    <3>1. stopped = Running
      BY <2>3 DEF StructBody, InSpecs
    <3>2. stopped' = Running \/ Stop("same tag")
      BY <2>3, <3>1 DEF StructBody
    <3> QED BY <3>1, <3>2, StopHereExplained DEF StopExplained
  <2>4. ASSUME NEW kind, EndSpecs(kind)
        PROVE  StopExplained'
    BY <2>4 DEF EndSpecs, StopExplained
  <2>5. CASE UnsizedDecltr
    BY <2>5 DEF UnsizedDecltr, InDeclarator, Close, StopExplained
  <2> QED BY <2>1, <2>2, <2>3, <2>4, <2>5, PointerExplained, ArrayExplained,
             FunctionExplained, BitFieldExplained, EndExplained DEF Next, Ending
<1> QED BY <1>1, <1>2, TypedInvariant, ListedInvariant, MeantInvariant, PTL DEF Spec
=============================================================================
