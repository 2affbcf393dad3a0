-------------------------- MODULE LexicalScoping ---------------------------
(***************************************************************************)
(* What the scopes of a translation unit promise, whatever the parser      *)
(* does to keep the promise: every construct that opens a scope closes     *)
(* that scope, declarations go to the scope of the innermost construct or, *)
(* for what a construct itself declares, to the one around it, and a name  *)
(* that is defined in a scope keeps its meaning there.                     *)
(***************************************************************************)
EXTENDS SymbolTable

VARIABLES
    open,   \* kinds of the constructs being parsed, innermost last
    env     \* what the names mean in the scope of each of them

FrameKinds == {"unit", "struct", "params", "comp", "for"}

\* What a declaration may do to the meaning a name has in a scope.
Refines(old, new) ==
    \/ old = NoEntry
    \/ ~old.defined /\ new.symEntTy = old.symEntTy

\* Frame i of e gives n a new meaning.
Declares(e, i, n, ent) ==
    /\ Refines(e[i][n], ent)
    /\ env' = [e EXCEPT ![i] = MapWith(e[i], n, ent)]

Dropped(s) == SubSeq(s, 1, Len(s) - 1)

AInit == open = << >> /\ env = << >>

Open ==
    \E k \in FrameKinds :
        /\ open' = Append(open, k)
        /\ env' = Append(env, EmptyMap)

Close ==
    /\ open # << >>
    /\ open' = Dropped(open)
    /\ env' = Dropped(env)

Declare ==
    /\ UNCHANGED open
    /\ \E i \in {Len(env) - 1, Len(env)} \cap DOMAIN env :
           \E n \in IDs, ent \in Entries : Declares(env, i, n, ent)

\* A structure or a function is declared in the scope around its own.
CloseAndDeclare ==
    /\ Len(open) > 1
    /\ open' = Dropped(open)
    /\ \E n \in IDs, ent \in Entries :
           Declares(Dropped(env), Len(env) - 1, n, ent)

ANext == Open \/ Close \/ Declare \/ CloseAndDeclare

ASpec == AInit /\ [][ANext]_<<open, env>>
=============================================================================
