---------------------------- MODULE SymbolTable ----------------------------
(***************************************************************************)
(* The symbol table of one scope: class ASTContext                         *)
(* (modules/splc/src/AST/ASTContext.cc).  A scope keeps its symbols twice, *)
(* in the map symbolMap that lookups use and in the list symbolList, in    *)
(* registration order, that code generation and the layout of structures   *)
(* walk.  Everything here is constant level: the operators take the two    *)
(* containers of a scope and return what the methods make of them.         *)
(***************************************************************************)
EXTENDS Naturals, Sequences

CONSTANTS
    Names,          \* the identifiers of the program
    NoName,         \* the empty identifier an untagged structure is put under
    FunctionTypes,  \* types of functions, compared by address (Type *)
    ObjectType,     \* the type of everything that is not a function
    NoEntry         \* symbolMap.end()

ASSUME ConstantsApart ==
    /\ NoName \notin Names
    /\ ObjectType \notin FunctionTypes

IDs   == Names \cup {NoName}
Types == FunctionTypes \cup {ObjectType}

\* SymEntryType, the kinds the parser registers.  Typedef is not among them:
\* AST::isTypedef() is the constant false, so DirDecl never registers one.
Kinds == {"Variable", "Function", "Paramater", "StructDecl", "UnionDecl"}

\* class SymbolEntry, without the location and the body.
Entries == [symEntTy : Kinds, type : Types, defined : BOOLEAN]

ASSUME NoEntryIsNone == NoEntry \notin Entries

SymbolMaps == [IDs -> Entries \cup {NoEntry}]
ListItems  == [name : IDs, ent : Entries]

EmptyMap == [n \in IDs |-> NoEntry]

Entry(kind, ty, def) == [symEntTy |-> kind, type |-> ty, defined |-> def]

IsSymDefined(map, kind, n) ==
    /\ map[n] # NoEntry
    /\ map[n].defined
    /\ map[n].symEntTy = kind

\* getSymbol returns instead of throwing.
HasSymbol(map, kind, n) ==
    /\ map[n] # NoEntry
    /\ map[n].symEntTy = kind

\* Mutants of CanRegister: one forgets that a defined symbol stays, one that
\* the new symbol must be of the same kind.
CanRegister_Redefine(map, kind, n) == map[n] # NoEntry => map[n].symEntTy = kind
CanRegister_AnyKind(map, kind, n)  == map[n] # NoEntry => ~map[n].defined

\* registerSymbol does not throw: the name is new here, or is only declared,
\* as the same kind of symbol.
CanRegister(map, kind, n) ==
    map[n] # NoEntry => /\ map[n].symEntTy = kind
                        /\ ~map[n].defined

MapWith(map, n, ent) == [map EXCEPT ![n] = ent]

Occurs(list, n) == \E i \in 1..Len(list) : list[i].name = n

\* The two containers of a scope hold the same entries, each name once.
Agree(map, list) ==
    /\ \A n \in IDs : map[n] # NoEntry => Occurs(list, n)
    /\ \A i \in 1..Len(list) :
           /\ map[list[i].name] = list[i].ent
           /\ \A j \in 1..Len(list) : list[i].name = list[j].name => i = j

\* std::erase_if on symbolList.  A name occurs at most once in the list
\* (MapListAgree in ScopeStack), so erasing one occurrence erases them all.
Erased(list, n) ==
    IF Occurs(list, n)
    THEN LET at == CHOOSE i \in 1..Len(list) : list[i].name = n
         IN  [j \in 1..(Len(list) - 1) |->
                  IF j < at THEN list[j] ELSE list[j + 1]]
    ELSE list

\* Mutant of ListWith: only the map forgets the old declaration.
ListWith_KeepsOld(list, n, ent) == Append(list, [name |-> n, ent |-> ent])

\* The old declaration is erased and the new entry goes to the end of the list.
ListWith(list, n, ent) == Append(Erased(list, n), [name |-> n, ent |-> ent])
=============================================================================
