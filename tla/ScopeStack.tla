---------------------------- MODULE ScopeStack -----------------------------
(***************************************************************************)
(* The stack of open scopes of a translation unit: class                   *)
(* ASTContextManager and the wrappers TranslationManager puts around it.   *)
(* A scope is created by a push, numbered here in creation order, and      *)
(* remembers its depth and the scopes below it; a pop takes it off the     *)
(* stack but the scope lives on, attached to the node of the syntax tree   *)
(* it was opened for.                                                      *)
(***************************************************************************)
EXTENDS SymbolTable

CONSTANT MaxCtx     \* bound: scopes created in a translation unit

ASSUME MaxCtxIsNat == MaxCtx \in Nat

CtxIds == 1..MaxCtx

VARIABLES
    nCtx,           \* scopes created so far: the live ones are 1..nCtx
    contextStack,   \* the open scopes, innermost last
    depth,          \* ASTContext::depth
    parentContexts, \* ASTContext::parentContexts
    directChildren, \* ASTContext::directChildren
    symbolMap,      \* ASTContext::symbolMap
    symbolList,     \* ASTContext::symbolList
    diagnosed       \* <<scope, name>> pairs an error has been logged for

treeVars  == <<nCtx, contextStack, depth, parentContexts, directChildren>>
tableVars == <<symbolMap, symbolList, diagnosed>>
scopeVars == <<treeVars, tableVars>>

\* ASTContextManager::operator[]: idx counts from the top.
FromTop(idx) == contextStack[Len(contextStack) - idx]
Top          == FromTop(0)

ScopeInit ==
    /\ nCtx = 0
    /\ contextStack = << >>
    /\ depth = [c \in CtxIds |-> 0]
    /\ parentContexts = [c \in CtxIds |-> << >>]
    /\ directChildren = [c \in CtxIds |-> << >>]
    /\ symbolMap = [c \in CtxIds |-> EmptyMap]
    /\ symbolList = [c \in CtxIds |-> << >>]
    /\ diagnosed = {}

\* Mutant of PushNew: the depth taken from the scope that is on top.
PushNew_Shallow ==
    /\ nCtx < MaxCtx
    /\ nCtx' = nCtx + 1
    /\ contextStack' = Append(contextStack, nCtx + 1)
    /\ depth' = [depth EXCEPT ![nCtx + 1] = Len(contextStack) - 1]
    /\ parentContexts' = [parentContexts EXCEPT ![nCtx + 1] = contextStack]
    /\ directChildren' =
           IF contextStack = << >>
           THEN directChildren
           ELSE [directChildren EXCEPT ![Top] = Append(@, nCtx + 1)]

\* pushContext(): a fresh scope, child of the innermost one.
PushNew ==
    /\ nCtx < MaxCtx
    /\ nCtx' = nCtx + 1
    /\ contextStack' = Append(contextStack, nCtx + 1)
    /\ depth' = [depth EXCEPT ![nCtx + 1] = Len(contextStack)]
    /\ parentContexts' = [parentContexts EXCEPT ![nCtx + 1] = contextStack]
    /\ directChildren' =
           IF contextStack = << >>
           THEN directChildren
           ELSE [directChildren EXCEPT ![Top] = Append(@, nCtx + 1)]

\* popContext().  The code does not look whether the stack is empty.
Popped(stack) == SubSeq(stack, 1, Len(stack) - 1)
Pop ==
    /\ contextStack # << >>
    /\ contextStack' = Popped(contextStack)
    /\ UNCHANGED <<nCtx, depth, parentContexts, directChildren>>

\* Mutant of PushAgain: the scope is adopted, as a new one is.
PushAgain_Adopts(stack, c) ==
    /\ contextStack' = Append(stack, c)
    /\ directChildren' = [directChildren EXCEPT ![stack[Len(stack)]] = Append(@, c)]
    /\ UNCHANGED <<nCtx, depth, parentContexts>>

\* pushContext(ctx) when the stack is as given: an old scope, which keeps its
\* depth and its parents, and which nobody adopts.
PushAgain(stack, c) ==
    /\ contextStack' = Append(stack, c)
    /\ UNCHANGED <<nCtx, depth, parentContexts, directChildren>>

\* tryRegisterSymbol on scope c: registerSymbol, whose SemanticError is
\* caught and logged.
TryRegister(c, kind, n, ty, def) ==
    IF CanRegister(symbolMap[c], kind, n)
    THEN /\ symbolMap' = [symbolMap EXCEPT
                ![c] = MapWith(symbolMap[c], n, Entry(kind, ty, def))]
         /\ symbolList' = [symbolList EXCEPT
                ![c] = ListWith(symbolList[c], n, Entry(kind, ty, def))]
         /\ UNCHANGED diagnosed
    ELSE /\ diagnosed' = diagnosed \cup {<<c, n>>}
         /\ UNCHANGED <<symbolMap, symbolList>>

ScopeTypeOK ==
    /\ nCtx \in 0..MaxCtx
    /\ contextStack \in Seq(CtxIds)
    /\ depth \in [CtxIds -> Nat]
    /\ parentContexts \in [CtxIds -> Seq(CtxIds)]
    /\ directChildren \in [CtxIds -> Seq(CtxIds)]
    /\ symbolMap \in [CtxIds -> SymbolMaps]
    /\ symbolList \in [CtxIds -> Seq(ListItems)]
    /\ diagnosed \subseteq CtxIds \X IDs

-----------------------------------------------------------------------------
(* Properties.                                                            *)

\* The open scopes are pairwise different, and each one's depth and parents
\* are exactly the stack below it: pushContext() records them once, and they
\* must not be stale after FuncProto has popped a scope and pushed it again
\* with pushContext(ctx), which records nothing (ASTContextManager.hh).
ScopesNest ==
    \A i \in 1..Len(contextStack) :
        /\ contextStack[i] <= nCtx
        /\ depth[contextStack[i]] = i - 1
        /\ parentContexts[contextStack[i]] = SubSeq(contextStack, 1, i - 1)
        /\ \A j \in 1..(i - 1) : contextStack[j] # contextStack[i]

\* directChildren and parentContexts describe the same tree: a scope is listed
\* once by the last of its parents and by nobody else, also after FuncProto
\* has pushed it again.  The dump of the scopes (operator<< of ASTContext)
\* walks the children, lookups walk the parents.
ScopeTree ==
    \A p, c \in 1..nCtx :
        LET kids   == directChildren[p]
            listed == {i \in 1..Len(kids) : kids[i] = c}
            up     == parentContexts[c]
        IN  IF up # << >> /\ up[Len(up)] = p
            THEN \E i \in listed : listed = {i}
            ELSE listed = {}

\* symbolMap and symbolList hold the same entries, and the list holds a name
\* once, although they are two containers updated one after the other.
MapListAgree ==
    \A c \in CtxIds : Agree(symbolMap[c], symbolList[c])
=============================================================================
