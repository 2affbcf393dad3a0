---------------------------- MODULE Declarations ----------------------------
(***************************************************************************)
(* How the type of a declaration is found: computeSimpleTypeSpec over its  *)
(* specifiers (ASTBaseType.cc), then computeAndSetLangType down its        *)
(* declarator (DerivedAST.cc), and the conversion to the LLVM type when    *)
(* code is generated (ObjBuilder.cc).  A variable, a function, a parameter *)
(* and a member of a structure go the same way.                            *)
(*                                                                         *)
(* Parameters and members are gathered before the declaration they belong  *)
(* to: their types are found first, when the parser reduces them.  A name  *)
(* is never a TypedefID: AST::isTypedef returns false, so that no typedef  *)
(* is registered as one.                                                   *)
(***************************************************************************)
EXTENDS TypeContext

CONSTANTS
    Tokens,        \* type specifiers, without structures that have a body
    MaxSpecs,      \* bound: specifiers of a declaration
    Declared,      \* bound: the lists of specifiers that get a declarator
    MaxDerived,    \* bound: types that are not primitive
    MaxParts       \* bound: parameters and members waiting

VARIABLES
    decl,          \* the declaration at hand
    params,        \* the parameters of the function declarator to come
    members        \* the members of the structure to come

vars == <<ctx, stopped, decl, params, members>>

\* What C makes of a declaration has the form of Structure; NoTerm: C does
\* not allow it, or the program has diagnosed it.
Term(kind, num, subs) == <<kind, num, subs>>
NoTerm == Term("none", 0, << >>)

\* ret: the type of a structure among the specifiers.  failed: a specifier
\* was diagnosed, and computeSimpleTypeSpec returned there.  base: the type
\* of the specifiers.  cur: the type handed down the declarator; once it is
\* closed, the type of the ID.  exact: no part was lost or left unadjusted.
NewDecl ==
    [toks |-> << >>, ret |-> NoType, retTerm |-> NoTerm, failed |-> FALSE,
     kind |-> "specifiers", base |-> NoType, cur |-> NoType, closed |-> FALSE,
     term |-> NoTerm, exact |-> TRUE]
Part(t) == [ty |-> t, term |-> decl.term, exact |-> decl.exact]

Stop(why) == stopped' = why /\ UNCHANGED <<ctx, decl, params, members>>

-----------------------------------------------------------------------------
(* Specifiers.                                                             *)

BaseToks == {"char", "short", "int", "long", "float", "double"}
Signs    == {"signed", "unsigned"}

ASSUME TokensAreSpecifiers ==
    Tokens \subseteq BaseToks \cup Signs \cup {"void", "tag", "enum"}

Count(tok) == Cardinality({i \in 1..Len(decl.toks) : decl.toks[i] = tok})
Has(toks)  == \E i \in 1..Len(decl.toks) : decl.toks[i] \in toks

Rejects(tok) ==
    \/ tok = "void" /\ Has(BaseToks \cup Signs)
    \/ tok \in {"char", "short", "int"} /\ Has(BaseToks)
    \/ tok = "long" /\ (Has(BaseToks \ {"long"}) \/ Count("long") = 2)
    \/ tok \in {"float", "double"} /\ Has(BaseToks \cup Signs)
    \/ tok = "signed" /\ Has({"unsigned", "float", "double"})
    \/ tok = "unsigned" /\ Has({"signed", "float", "double"})
    \/ tok \notin {"tag", "enum"} /\ decl.ret # NoType

\* The last of the counts that apply decides.  A second float or double is
\* rejected, so that the counts of 2 never are.
Width ==
    IF Count("double") = 2 THEN Prim("f64")
    ELSE IF Count("float") = 2 THEN Prim("f32")
    ELSE IF Count("long") = 2 THEN Prim("si64")
    ELSE IF Has({"long", "int"}) THEN Prim("si32")
    ELSE IF Has({"short"}) THEN Prim("si16")
    ELSE IF Has({"char"}) THEN Prim("si8")
    ELSE IF Has({"void"}) THEN Prim("void")
    ELSE decl.ret

\* Mutant of SpecType: unsigned alone is signed.
SpecType_Signed ==
    IF Has({"signed", "unsigned"}) /\ Width = NoType THEN Prim("si32")
    ELSE IF Has({"signed"}) THEN GetSigned(Width)
    ELSE IF Has({"unsigned"}) THEN GetUnsigned(Width)
    ELSE Width

SpecType ==
    IF Has({"signed"})
    THEN IF Width = NoType THEN Prim("si32") ELSE GetSigned(Width)
    ELSE IF Has({"unsigned"})
    THEN IF Width = NoType THEN Prim("ui32") ELSE GetUnsigned(Width)
    ELSE Width

\* C99 6.7.2: which sets of specifiers name a type, and which.  The second
\* long is long2; a char is signed, a long has 32 bits.
CMeaning(s) ==
    CASE s = {"void"} -> "void"
      [] s \ {"signed"} = {"char"} -> "si8"
      [] s = {"unsigned", "char"} -> "ui8"
      [] s \ {"signed", "int"} = {"short"} -> "si16"
      [] s \ {"int"} = {"unsigned", "short"} -> "ui16"
      [] s \ {"signed", "int", "long"} = {} /\ s # {} -> "si32"
      [] s \ {"int", "long"} = {"unsigned"} -> "ui32"
      [] s \ {"signed", "int"} = {"long", "long2"} -> "si64"
      [] s \ {"int"} = {"unsigned", "long", "long2"} -> "ui64"
      [] s = {"float"} -> "f32"
      [] s \ {"long"} = {"double"} -> "f64"
      [] s \in {{"struct"}, {"tag"}, {"enum"}} -> CHOOSE tok \in s : TRUE
      [] OTHER -> "none"
CSpecs == {s \in SUBSET (BaseToks \cup Signs \cup {"void", "long2", "struct", "tag", "enum"}) :
               CMeaning(s) # "none"}

Repeated == \E tok \in {decl.toks[i] : i \in 1..Len(decl.toks)} :
                Count(tok) > (IF tok = "long" THEN 2 ELSE 1)
CSet == {decl.toks[i] : i \in 1..Len(decl.toks)}
            \cup (IF Count("long") > 1 THEN {"long2"} ELSE {})
CValid == ~Repeated /\ CSet \in CSpecs
CTerm ==
    IF decl.failed \/ ~CValid THEN NoTerm
    ELSE IF CSet = {"struct"} THEN decl.retTerm
    ELSE Term(CMeaning(CSet), 0, << >>)

\* Bound: only before the first type or part are all lists tried.
Fresh == Derived = {} /\ params = << >> /\ members = << >>

InSpecs ==
    /\ stopped = Running /\ decl.kind = "specifiers" /\ ~decl.failed
    /\ IF Fresh THEN Len(decl.toks) < MaxSpecs ELSE decl.toks = << >>

Specifier(tok) ==
    /\ InSpecs /\ (Fresh \/ <<tok>> \in Declared)
    /\ IF tok = "enum" /\ decl.ret = NoType THEN Stop("enum")
       ELSE /\ decl' = [decl EXCEPT !.toks = Append(@, tok), !.failed = Rejects(tok)]
            /\ UNCHANGED <<ctx, stopped, params, members>>

\* The members that StructOrUnionSpecAST finds in the scope of the structure:
\* those without a type are erased.
\* Mutant of Contained: the others stay as nullptr.
Contained_All(parts) == [i \in 1..Len(parts) |-> parts[i].ty]

Contained(parts) ==
    LET kept[i \in 0..Len(parts)] ==
            IF i = 0 THEN << >>
            ELSE IF parts[i].ty = NoType THEN kept[i - 1]
            ELSE Append(kept[i - 1], parts[i].ty)
    IN  kept[Len(parts)]

\* struct name { members }: the type is made, named and, if it is the first,
\* the type of the list.
StructBody(name) ==
    LET made == CreateStruct(ctx, Contained(members))
        terms == [i \in 1..Len(members) |-> members[i].term]
    IN  /\ InSpecs /\ Cardinality(Derived) < MaxDerived
        /\ IF name # Unnamed /\ NameTaken(ctx, name) THEN Stop("same tag")
           ELSE /\ ctx' = SetName(made.c, made.ty, name)
                /\ decl' = [decl EXCEPT
                      !.toks = Append(@, "struct"),
                      !.ret = IF @ = NoType THEN made.ty ELSE @,
                      !.retTerm =
                          IF NoTerm \in {terms[i] : i \in 1..Len(members)} THEN NoTerm
                          ELSE Term("struct", made.c.tys[made.ty].num, terms),
                      !.exact = \A i \in 1..Len(members) :
                                    members[i].exact /\ members[i].ty # NoType]
                /\ members' = << >>
                /\ UNCHANGED <<stopped, params>>

\* The end of the list.  After a diagnosed one a variable or a member finds
\* no type at the node, a function or a parameter takes the int returned.
EndSpecs(kind) ==
    /\ stopped = Running /\ decl.kind = "specifiers" /\ decl.toks \in Declared
    /\ LET t == IF ~decl.failed THEN SpecType
                ELSE IF kind \in {"function", "parameter"} THEN Prim("si32")
                ELSE NoType
       IN  decl' = [decl EXCEPT !.kind = kind, !.base = t, !.cur = t, !.term = CTerm]
    /\ UNCHANGED <<ctx, stopped, params, members>>

-----------------------------------------------------------------------------
(* Declarators, from the outside in.                                       *)

IsTerm(term, kinds) == term[1] \in kinds

CPointer(term) == IF term = NoTerm THEN NoTerm ELSE Term("pointer", 0, <<term>>)
CArray(term, n) ==
    IF IsTerm(term, {"none", "void", "function"}) THEN NoTerm
    ELSE Term("array", n, <<term>>)
CBitField(term) == IF IsTerm(term, UInts \cup SInts) THEN term ELSE NoTerm
CParam(term) ==
    IF IsTerm(term, {"array"}) THEN CPointer(term[3][1])
    ELSE IF IsTerm(term, {"function"}) THEN CPointer(term)
    ELSE term
CFunction(term, parts) ==
    LET terms == [i \in 1..Len(parts) |-> CParam(parts[i].term)]
        none  == Len(terms) = 1 /\ terms[1][1] = "void"
    IN  IF \/ IsTerm(term, {"none", "array", "function"})
           \/ ~none /\ \E i \in 1..Len(terms) : IsTerm(terms[i], {"none", "void"})
        THEN NoTerm
        ELSE Term("function", 0, <<term>> \o (IF none THEN << >> ELSE terms))

InDeclarator(kinds) ==
    /\ stopped = Running /\ decl.kind \in kinds /\ ~decl.closed
    /\ Cardinality(Derived) < MaxDerived

Objects == {"variable", "parameter", "member"}

Onward(got, term, exact) ==
    /\ ctx' = got.c
    /\ decl' = [decl EXCEPT !.cur = got.ty, !.term = term, !.exact = exact]
    /\ UNCHANGED <<stopped, params, members>>

\* The ID gets no type.
Close(term) ==
    /\ decl' = [decl EXCEPT !.cur = NoType, !.closed = TRUE, !.term = term]
    /\ UNCHANGED <<ctx, stopped, params, members>>

\* An assertion fails in a constructor; term: what C makes of the declarator.
Assertion(why, term) ==
    /\ stopped' = why /\ decl' = [decl EXCEPT !.term = term]
    /\ UNCHANGED <<ctx, params, members>>

\* DecltrAST and FuncDecltrAST, with a star.
PointerDecltr ==
    /\ InDeclarator(Objects \cup {"function"})
    /\ IF decl.cur = NoType THEN Assertion("no type", CPointer(decl.term))
       ELSE IF ~ValidPointee(ctx, decl.cur)
       THEN Assertion("pointer to void", CPointer(decl.term))
       ELSE Onward(GetPointer(ctx, decl.cur), CPointer(decl.term), decl.exact)

\* DirDecltrAST of four children.  literal: the size is one unsigned literal,
\* and not 1 + 1, (2), 'a', sizeof or a name.  What is not is reported, and the
\* value then taken from a node that has none, in a method that is noexcept.
ArrayDecltr(n, literal) ==
    LET term == CArray(decl.term, n)
    IN  /\ InDeclarator(Objects)
        /\ IF decl.cur = NoType THEN Close(term)
           ELSE IF ~literal THEN Assertion("array size", term)
           ELSE IF ~ValidArrayElem(ctx, decl.cur) THEN Assertion("array element", term)
           ELSE Onward(GetArray(ctx, decl.cur, n), term, decl.exact)

\* DirDecltrAST of three children: an array without a size is diagnosed, if
\* there is a type to make one of.
UnsizedDecltr ==
    /\ InDeclarator(Objects)
    /\ Close(IF decl.cur = NoType THEN CArray(decl.term, 0) ELSE NoTerm)

\* DirDecltrAST of a parenthesised declarator and a list of parameters, and
\* DirFuncDecltrAST, which is the last of its declarator and goes on without
\* a type.  ParamListAST asserts that every parameter has one.
FuncDecltr ==
    LET ps == [i \in 1..Len(params) |-> params[i].ty]
        term == CFunction(decl.term, params)
        exact == decl.exact /\ \A i \in 1..Len(params) :
                                   params[i].exact /\ ~IsTerm(params[i].term, {"array"})
    IN  /\ InDeclarator(Objects \cup {"function"})
        /\ IF decl.cur = NoType /\ decl.kind # "function" THEN Close(term)
           ELSE IF decl.cur = NoType \/ \E i \in 1..Len(ps) : ps[i] = NoType
           THEN Assertion("no type", term)
           ELSE IF ~ValidReturn(ctx, decl.cur) THEN Assertion("result", term)
           ELSE IF \E i \in 1..Len(ps) : ~ValidArgument(ctx, ps[i])
           THEN Assertion("argument", term)
           ELSE LET got == GetFunction(ctx, decl.cur, ps)
                IN  /\ ctx' = got.c
                    /\ decl' = [decl EXCEPT !.cur = got.ty, !.exact = exact,
                                    !.term = term, !.closed = (decl.kind = "function")]
                    /\ params' = << >>
                    /\ UNCHANGED <<stopped, members>>

\* int f(int *): the AbsDecltr is a plain AST, which has no type to compute.
AbstractDecltr ==
    /\ InDeclarator({"parameter"})
    /\ decl.cur = decl.base
    /\ Stop("abstract declarator")

\* struct { int : 3; }: StructDecltrAST asserts that a declarator comes first.
UnnamedBitField ==
    /\ InDeclarator({"member"})
    /\ decl.cur = decl.base
    /\ Assertion("unnamed bit-field", CBitField(decl.term))

-----------------------------------------------------------------------------
(* The end of a declaration.                                               *)

EndParam ==
    LET t == IF decl.cur = NoType THEN decl.base ELSE decl.cur
    IN  /\ stopped = Running /\ decl.kind = "parameter"
        /\ Len(params) + Len(members) < MaxParts
        /\ params' = Append(params, Part(t))
        /\ decl' = NewDecl
        /\ UNCHANGED <<ctx, stopped, members>>

\* bits: the member has a width, int a : 3, which is lost.
EndMember(bits) ==
    /\ stopped = Running /\ decl.kind = "member"
    /\ Len(params) + Len(members) < MaxParts
    /\ members' = Append(members,
           IF bits THEN [Part(decl.cur) EXCEPT !.term = CBitField(@), !.exact = FALSE]
           ELSE Part(decl.cur))
    /\ decl' = NewDecl
    /\ UNCHANGED <<ctx, stopped, params>>

\* ObjBuilder::getCvtType: a char is not among the primitive types.
Converts(c) ==
    LET ok[t \in 1..Newest(c)] ==
            /\ Kind(c, t) \notin {"ui8", "si8"}
            /\ \A i \in 1..Len(c.tys[t].subs) : ok[c.tys[t].subs[i]]
    IN  ok

\* A global variable is not converted (registerGlobalCtxMutableVar).
EndGlobal ==
    /\ stopped = Running /\ decl.kind = "variable"
    /\ decl' = NewDecl
    /\ UNCHANGED <<ctx, stopped, params, members>>
EndConverted ==
    /\ stopped = Running
    /\ \/ decl.kind = "variable"
       \/ decl.kind = "function" /\ decl.closed
    /\ IF decl.cur = NoType THEN Stop("no type")
       ELSE IF ~Converts(ctx)[decl.cur] THEN Stop("char")
       ELSE decl' = NewDecl /\ UNCHANGED <<ctx, stopped, params, members>>

-----------------------------------------------------------------------------
Init ==
    /\ TypesInit
    /\ decl = NewDecl /\ params = << >> /\ members = << >>

Next ==
    \/ \E tok \in Tokens : Specifier(tok)
    \/ \E name \in StructNames \cup {Unnamed} : StructBody(name)
    \/ \E kind \in Objects \cup {"function"} : EndSpecs(kind)
    \/ PointerDecltr
    \/ \E n \in ArraySizes, literal \in BOOLEAN : ArrayDecltr(n, literal)
    \/ UnsizedDecltr
    \/ FuncDecltr
    \/ AbstractDecltr
    \/ UnnamedBitField
    \/ EndParam
    \/ \E bits \in BOOLEAN : EndMember(bits)
    \/ EndGlobal
    \/ EndConverted

Spec == Init /\ [][Next]_vars

-----------------------------------------------------------------------------
(* Properties.                                                             *)

TypeOK ==
    /\ \A t \in 1..Newest(ctx) :
         \A i \in 1..Len(ctx.tys[t].subs) : ctx.tys[t].subs[i] \in 1..(t - 1)
    /\ \A t \in Derived : ctx.tys[t].name \in StructNames \cup {Unnamed}
    /\ {decl.ret, decl.base, decl.cur} \subseteq 0..Newest(ctx)
    /\ \A i \in 1..Len(params) : params[i].ty \in 0..Newest(ctx)
    /\ \A i \in 1..Len(members) : members[i].ty \in 0..Newest(ctx)

\* The verdict on a list of specifiers is that of C.  A list that C allows
\* has its type, or none when it names a floating type or only the tag of a
\* structure.  A list that is diagnosed cannot be completed to one that C
\* allows, or joins int with short or long, or long with double.  A list that
\* is let through against C begins with void, repeats a sign, or has a
\* structure or a tag beside others (AST::computeSimpleTypeSpec).
SpecifiersAgree ==
    decl.kind = "specifiers" /\ decl.toks # << >> =>
        IF decl.failed
        THEN \/ Repeated \/ ~\E s \in CSpecs : CSet \subseteq s
             \/ {"short", "int"} \subseteq CSet \/ {"long", "int"} \subseteq CSet
             \/ {"long", "double"} \subseteq CSet
        ELSE IF CValid
        THEN CASE CSet \cap {"float", "double", "tag"} # {} -> SpecType = NoType
               [] CSet = {"struct"} -> SpecType = decl.ret /\ decl.ret # NoType
               [] OTHER -> SpecType = Prim(CMeaning(CSet))
        ELSE \/ "void" \in CSet
             \/ Count("signed") > 1 \/ Count("unsigned") > 1
             \/ CSet \cap {"struct", "tag", "enum"} # {}

\* A declaration that C allows and that was given a type has the type that C
\* gives it, down to the members, unless a member was lost or an array was
\* not made a pointer in a parameter (DerivedAST.cc, Type.cc).
DeclaredMeaning ==
    /\ stopped = Running /\ decl.kind # "specifiers" /\ decl.cur # NoType
    /\ decl.term # NoTerm /\ decl.exact
    => Structure(ctx)[decl.cur] = decl.term

\* At a declaration that C allows, the compiler ends in computing its type
\* or in converting it for these reasons only: a pointer to void, a parameter
\* list (void) or a parameter of function type, an abstract declarator, an
\* unnamed bit-field, a size of an array that is not one unsigned literal, an
\* enumeration, a char, two structures of one tag in different scopes, or no
\* type at all, because of float, double or a tag in the declaration or
\* because a parameter has none (ASTBaseType.cc, DerivedAST.cc, Type.cc).
StopExplained ==
    stopped # Running /\ (decl.kind = "specifiers" \/ decl.term # NoTerm) =>
        \/ stopped \in {"same tag", "enum", "abstract declarator"}
        \/ stopped = "unnamed bit-field" /\ decl.kind = "member"
        \/ stopped = "array size" /\ decl.cur # NoType
        \/ stopped = "char" /\ ~Converts(ctx)[decl.cur]
        \/ stopped = "pointer to void" /\ decl.cur = Prim("void")
        \/ /\ stopped = "no type"
           /\ \/ Has({"float", "double", "tag"})
              \/ \E i \in 1..Len(params) : params[i].ty = NoType
        \/ /\ stopped = "argument"
           /\ \E i \in 1..Len(params) : IsA(ctx, params[i].ty, {"function", "void"})
=============================================================================
