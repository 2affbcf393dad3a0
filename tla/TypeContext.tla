---------------------------- MODULE TypeContext ----------------------------
(***************************************************************************)
(* The types of a compilation: class SPLCContext, which owns them, and the *)
(* constructors of modules/splc/src/Basic/Type.cc, which hand out one      *)
(* object per function, pointer and array type, so that the rest of the    *)
(* compiler may compare types by address.                                  *)
(*                                                                         *)
(* A type is its position in ctx.tys, in the order of allocation; 0 is     *)
(* nullptr.  The primitive types come first.                               *)
(***************************************************************************)
EXTENDS Naturals, Sequences, FiniteSets

CONSTANTS
    StructNames,   \* names of structures
    Unnamed,       \* the empty name
    ArraySizes     \* numbers of elements of an array

ASSUME UnnamedIsNoName == Unnamed \notin StructNames

VARIABLES
    ctx,           \* the SPLCContext
    stopped        \* why the compiler ended at an assertion, or Running

-----------------------------------------------------------------------------
(* Types.                                                                  *)

Primitives == <<"void", "f32", "f64", "i1", "ui8", "si8", "ui16", "si16",
                "ui32", "si32", "ui64", "si64", "label", "token">>
Prim(name) == CHOOSE i \in 1..Len(Primitives) : Primitives[i] = name
NoType == 0

\* subs: the contained types, for a function the result first.  num: the
\* length of an array, the serial number of a structure.
TypeOf(kind, subs, num) ==
    [kind |-> kind, subs |-> subs, num |-> num, name |-> Unnamed]

Kind(c, t) == c.tys[t].kind
IsA(c, t, kinds) == Kind(c, t) \in kinds

UInts == {"ui8", "ui16", "ui32", "ui64"}
SInts == {"si8", "si16", "si32", "si64"}
Ints  == UInts \cup SInts \cup {"i1"}

IsFirstClass(c, t)    == ~IsA(c, t, {"function", "void"})
ValidReturn(c, t)     == ~IsA(c, t, {"function", "label"})
ValidArgument(c, t)   == IsFirstClass(c, t)

\* Mutant of ValidArrayElem: no array of arrays.
ValidArrayElem_Flat(c, t) ==
    ~IsA(c, t, {"void", "label", "function", "token", "array"})
ValidArrayElem(c, t)  == ~IsA(c, t, {"void", "label", "function", "token"})
ValidPointee(c, t)    == ~IsA(c, t, {"void", "label", "token"})

\* Type::getSigned and getUnsigned: nullptr for what is not an integer.
SignedOf == [ui8 |-> "si8", ui16 |-> "si16", ui32 |-> "si32", ui64 |-> "si64"]
UnsignedOf == [si8 |-> "ui8", si16 |-> "ui16", si32 |-> "ui32", si64 |-> "ui64"]


PrimIn(t, kinds) == t \in 1..Len(Primitives) /\ Primitives[t] \in kinds

GetSigned(t) ==
    IF PrimIn(t, SInts) THEN t
    ELSE IF PrimIn(t, UInts) THEN Prim(SignedOf[Primitives[t]]) ELSE NoType
GetUnsigned(t) ==
    IF PrimIn(t, UInts) THEN t
    ELSE IF PrimIn(t, SInts) THEN Prim(UnsignedOf[Primitives[t]]) ELSE NoType

-----------------------------------------------------------------------------
(* The maps of the context, and the constructors.  A constructor returns   *)
(* the context after it, and the type.                                     *)

Result(c, t)  == [c |-> c, ty |-> t]
Alloc(c, rec) == [c EXCEPT !.tys = Append(@, rec)]
Newest(c)     == Len(c.tys)
Insert(f, key, t) ==
    [x \in DOMAIN f \cup {key} |-> IF x = key THEN t ELSE f[x]]

\* Mutant of Interned: what was made is not entered into the map.
Interned_NoInsert(c, map, key, rec) ==
    IF key \in DOMAIN c[map] THEN Result(c, c[map][key])
    ELSE Result(Alloc(c, rec), Newest(c) + 1)

\* The lookup and insertion that get has in all three classes.
Interned(c, map, key, rec) ==
    IF key \in DOMAIN c[map] THEN Result(c, c[map][key])
    ELSE Result([Alloc(c, rec) EXCEPT ![map] = Insert(@, key, Newest(c) + 1)],
                Newest(c) + 1)

GetPointer(c, t)  == Interned(c, "pointerTypes", <<t>>, TypeOf("pointer", <<t>>, 0))

\* Mutant of GetArray: the key has no length.
GetArray_AnyLength(c, t, n) ==
    Interned(c, "arrayTypes", <<t>>, TypeOf("array", <<t>>, n))
GetArray(c, t, n) == Interned(c, "arrayTypes", <<t, n>>, TypeOf("array", <<t>>, n))
GetFunction(c, ret, params) ==
    Interned(c, "functionTypes", <<ret, params>>,
             TypeOf("function", <<ret>> \o params, 0))
\* StructType::create: every call makes another type.
CreateStruct(c, elems) ==
    LET n == Cardinality({t \in 1..Newest(c) : Kind(c, t) = "struct"})
    IN  Result(Alloc(c, TypeOf("struct", elems, n + 1)), Newest(c) + 1)

\* Mutant of NameTaken: two structures may have one name.
NameTaken_Never(c, name) == FALSE

\* The assertion of StructType::setName.
NameTaken(c, name) == name \in DOMAIN c.namedStructTypes

\* StructType::setName, when the name is not taken.
SetName(c, t, name) ==
    LET old  == c.tys[t].name
        free == [n \in DOMAIN c.namedStructTypes \ {old} |-> c.namedStructTypes[n]]
    IN  IF name = old THEN c
        ELSE [c EXCEPT !.tys[t].name = name,
                       !.namedStructTypes = Insert(free, name, t)]

-----------------------------------------------------------------------------
Running == "running"

NoMap == [x \in {} |-> 0]

EmptyContext ==
    [tys |-> [i \in 1..Len(Primitives) |-> TypeOf(Primitives[i], << >>, 0)],
     functionTypes |-> NoMap, arrayTypes |-> NoMap,
     pointerTypes |-> NoMap, namedStructTypes |-> NoMap]

TypesInit == ctx = EmptyContext /\ stopped = Running

Derived == (Len(Primitives) + 1)..Newest(ctx)

-----------------------------------------------------------------------------
(* What a type is, written out to its primitive parts.                      *)
Structure(c) ==
    LET out[t \in 1..Newest(c)] ==
            LET r == c.tys[t]
            IN  <<r.kind, r.num, [i \in 1..Len(r.subs) |-> out[r.subs[i]]]>>
    IN  out

\* Two types that mean the same are one object, so that comparing addresses,
\* as the check of a function against its prototype does (Parser.yy, FuncDef:
\* ent.type == ty), compares types.
OneObjectPerType ==
    LET s == Structure(ctx)
    IN  \A t, u \in Derived : s[t] = s[u] => t = u

\* The map of names and the names of the structures say the same
\* (StructType::setName, SPLCContext::namedStructTypes).
NamesMatch ==
    /\ \A name \in DOMAIN ctx.namedStructTypes :
           ctx.tys[ctx.namedStructTypes[name]].name = name
    /\ \A t \in Derived :
           ctx.tys[t].name # Unnamed =>
               /\ ctx.tys[t].name \in DOMAIN ctx.namedStructTypes
               /\ ctx.namedStructTypes[ctx.tys[t].name] = t
=============================================================================
