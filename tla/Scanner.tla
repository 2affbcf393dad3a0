------------------------------ MODULE Scanner ------------------------------
(***************************************************************************)
(* The scanner and preprocessor: class Scanner (IO/Scanner.cc), the rules  *)
(* of IO/Lexer.ll and the stack of TranslationContextManager.  Three       *)
(* stacks have to keep in step: the contexts (files and macros) that are   *)
(* being read, the buffers flex reads them through, and flex's start       *)
(* conditions.  Every action is the match of one rule; which rule matches, *)
(* and so the text of the files, is whatever TLC chooses.                  *)
(*                                                                         *)
(* flex is external.  A rule that changes nothing but the line and column  *)
(* has no action.                                                          *)
(***************************************************************************)
EXTENDS Naturals, Sequences, FiniteSets

CONSTANTS
    Macros,         \* names of macros
    Texts,          \* pieces of text: of file names, macros and strings
    NoName,         \* no macro
    MaxContexts,    \* bound: contexts created
    MaxStates,      \* bound: start conditions on the stack
    MaxText         \* bound: pieces of text collected

ASSUME NoNameIsNone == NoName \notin Macros
ASSUME BoundsAreNat ==
    MaxContexts \in Nat /\ MaxStates \in Nat /\ MaxText \in Nat

VARIABLES
    phase,          \* how the scan goes
    contextID,      \* TranslationContextManager: contexts created so far
    contextStack,   \* the contexts being read, innermost last, by number
    buffers,        \* flex's buffer stack: the contexts whose streams they read
    spent,          \* the stream of the topmost buffer has come to its end
    startStack,     \* flex's start conditions, the current one last
    macroVarMap,    \* the context and content a macro is registered with
    strVec,         \* text collected for a file name, a macro or a string
    hasLoc,         \* locVec is not empty
    internalFlag,   \* the #define being read defines something
    tmpStr,         \* the macro it defines
    locCtx,         \* the context yyloc names
    lastCtx,        \* history: the context the last token was read from
    unterminated    \* history: a line ended inside the name of an #include

flexVars == <<buffers, spent, startStack>>
ctxVars  == <<contextID, contextStack>>
textVars == <<strVec, hasLoc>>
defVars  == <<macroVarMap, internalFlag, tmpStr>>
locVars  == <<locCtx, lastCtx>>
vars == <<phase, ctxVars, flexVars, textVars, defVars, locVars, unterminated>>

Comments      == {"IN_SL_COMMENT", "IN_CL_COMMENT"}
FileNames     == {"IN_PPD_INCL_DQFN", "IN_PPD_INCL_ABFN"}
StartStates   == {"INITIAL", "IN_STRING", "IN_PPD", "IN_PPD_INCL",
                  "IN_PPD_DEFINE", "IN_PPD_DEFINE_BODY"} \cup Comments \cup FileNames
NotRegistered == [ctx |-> 0, content |-> << >>]

Reading == phase = "lexing" /\ ~spent
State   == startStack[Len(startStack)]
Top     == contextStack[Len(contextStack)]

-----------------------------------------------------------------------------
(* Start conditions.                                                       *)

\* yy_push_state
Push(s) ==
    /\ Len(startStack) < MaxStates  \* bound
    /\ startStack' = Append(startStack, s)

\* Mutant of Pop: flex does not look whether the stack is empty.
Pop_Unchecked(k) ==
    /\ startStack' = SubSeq(startStack, 1, Len(startStack) - k)
    /\ UNCHANGED phase

\* yy_pop_state, k times.  flex stops the program when its stack is empty.
Pop(k) ==
    IF k < Len(startStack)
    THEN /\ startStack' = SubSeq(startStack, 1, Len(startStack) - k)
         /\ UNCHANGED phase
    ELSE /\ phase' = "fatal"
         /\ UNCHANGED startStack

\* yy_pop_state and then yy_push_state
Switch(s) == startStack' = [startStack EXCEPT ![Len(startStack)] = s]

Collect(t) ==
    /\ Len(strVec) < MaxText  \* bound
    /\ strVec' = Append(strVec, t)
    /\ hasLoc' = TRUE

\* concatTmpStrVec and concatTmpLocVec
Collected == strVec' = << >> /\ hasLoc' = FALSE

\* Driver::parse: a context for the main file, and a buffer that reads it.
Init ==
    /\ phase = "lexing"
    /\ contextID = 1
    /\ contextStack = <<1>>
    /\ buffers = <<1>>
    /\ spent = FALSE
    /\ startStack = <<"INITIAL">>
    /\ macroVarMap = [m \in Macros |-> NotRegistered]
    /\ strVec = << >>
    /\ hasLoc = FALSE
    /\ internalFlag \in BOOLEAN  \* uninitialized
    /\ tmpStr = NoName
    /\ locCtx = 1
    /\ lastCtx = 0
    /\ unterminated = FALSE

-----------------------------------------------------------------------------
(* Comments.                                                               *)

\* The two rules that open a comment belong to every start condition: text
\* that starts with the two characters opens a comment inside a comment, a
\* string or the name of a file, unless a longer match exists.
OpenComment(s) ==
    /\ Reading
    /\ Push(s)
    /\ UNCHANGED <<phase, ctxVars, buffers, spent, textVars, defVars, locVars,
                   unterminated>>

\* Mutant of CloseComment: the newline pops twice.
CloseComment_PopsTwice ==
    /\ Reading
    /\ State \in Comments
    /\ Pop(2)
    /\ UNCHANGED <<ctxVars, buffers, spent, textVars, defVars, locVars,
                   unterminated>>

CloseComment ==
    /\ Reading
    /\ State \in Comments
    /\ Pop(1)
    /\ UNCHANGED <<ctxVars, buffers, spent, textVars, defVars, locVars,
                   unterminated>>

-----------------------------------------------------------------------------
(* Directives.                                                             *)

Hash ==
    /\ Reading
    /\ State = "INITIAL"
    /\ Push("IN_PPD")
    /\ UNCHANGED <<phase, ctxVars, buffers, spent, textVars, defVars, locVars,
                   unterminated>>

Dispatch(s) ==
    /\ Reading
    /\ State = "IN_PPD"
    /\ Switch(s)
    /\ UNCHANGED <<phase, ctxVars, buffers, spent, textVars, defVars, locVars,
                   unterminated>>

\* The line of a directive ends before an include, or the name of a define.
EndDirective ==
    /\ Reading
    /\ State \in {"IN_PPD", "IN_PPD_DEFINE"}
    /\ Pop(1)
    /\ UNCHANGED <<ctxVars, buffers, spent, textVars, defVars, locVars,
                   unterminated>>

OpenFileName(s) ==
    /\ Reading
    /\ State = "IN_PPD_INCL"
    /\ Switch(s)
    /\ UNCHANGED <<phase, ctxVars, buffers, spent, textVars, defVars, locVars,
                   unterminated>>

\* No rule but the last one, which calls splc_error, takes what is neither a
\* space nor the start of a name after include, nor a line end in a string.
InvalidLexeme ==
    /\ Reading
    /\ State \in {"IN_PPD_INCL", "IN_STRING"}
    /\ phase' = "aborted"
    /\ UNCHANGED <<ctxVars, flexVars, textVars, defVars, locVars, unterminated>>

FileNameText(t) ==
    /\ Reading
    /\ State \in FileNames
    /\ Collect(t)
    /\ UNCHANGED <<phase, ctxVars, flexVars, defVars, locVars, unterminated>>

\* What leaves only its location: a backslash and a line end, in a string or
\* at the start of a file name, and an escape sequence that is not valid.
SkipText ==
    /\ Reading
    /\ State \in FileNames \cup {"IN_STRING"}
    /\ hasLoc' = TRUE
    /\ UNCHANGED <<phase, ctxVars, flexVars, strVec, defVars, locVars,
                   unterminated>>

\* Mutants of CloseFileName: no buffer is made for the context, and the name
\* stays in strVec.
CloseFileName_NoBuffer ==
    /\ Reading
    /\ State \in FileNames
    /\ IF ~hasLoc
       THEN /\ phase' = "crashed"
            /\ UNCHANGED <<ctxVars, buffers, startStack, textVars>>
       ELSE /\ contextID < MaxContexts
            /\ contextID' = contextID + 1
            /\ contextStack' = Append(contextStack, contextID + 1)
            /\ Push("INITIAL")
            /\ Collected
            /\ UNCHANGED <<phase, buffers>>
    /\ UNCHANGED <<spent, defVars, locVars, unterminated>>

CloseFileName_KeepsText ==
    /\ Reading
    /\ State \in FileNames
    /\ IF ~hasLoc
       THEN /\ phase' = "crashed"
            /\ UNCHANGED <<ctxVars, buffers, startStack, textVars>>
       ELSE /\ contextID < MaxContexts
            /\ contextID' = contextID + 1
            /\ contextStack' = Append(contextStack, contextID + 1)
            /\ buffers' = Append(buffers, contextID + 1)
            /\ Push("INITIAL")
            /\ UNCHANGED <<phase, textVars>>
    /\ UNCHANGED <<spent, defVars, locVars, unterminated>>

\* The file is pushed as a context, and a buffer made for it.  A file that is
\* not there is a stream at its end: pushContext only looks at the pointer to
\* the stream.  An empty name makes concatTmpLocVec run past an empty vector.
CloseFileName ==
    /\ Reading
    /\ State \in FileNames
    /\ IF ~hasLoc
       THEN /\ phase' = "crashed"
            /\ UNCHANGED <<ctxVars, buffers, startStack, textVars>>
       ELSE /\ contextID < MaxContexts  \* bound
            /\ contextID' = contextID + 1
            /\ contextStack' = Append(contextStack, contextID + 1)
            /\ buffers' = Append(buffers, contextID + 1)
            /\ Push("INITIAL")
            /\ Collected
            /\ UNCHANGED phase
    /\ UNCHANGED <<spent, defVars, locVars, unterminated>>

\* The rule for the end of the line pops the start condition of the file name
\* and then the one below, although the one of the directive is gone already.
EndLineInFileName ==
    /\ Reading
    /\ State \in FileNames
    /\ Pop(2)
    /\ unterminated' = TRUE
    /\ UNCHANGED <<ctxVars, buffers, spent, textVars, defVars, locVars>>

\* Mutant of DefineName: the name is taken whatever is registered.
DefineName_NoTest(m) ==
    /\ Reading
    /\ State = "IN_PPD_DEFINE"
    /\ internalFlag' = TRUE
    /\ tmpStr' = m
    /\ Switch("IN_PPD_DEFINE_BODY")
    /\ UNCHANGED <<phase, ctxVars, buffers, spent, textVars, macroVarMap,
                   locVars, unterminated>>

\* A macro that is defined already is passed over without a word.
DefineName(m) ==
    /\ Reading
    /\ State = "IN_PPD_DEFINE"
    /\ IF macroVarMap[m] = NotRegistered
       THEN internalFlag' = TRUE /\ tmpStr' = m
       ELSE internalFlag' = FALSE /\ UNCHANGED tmpStr
    /\ Switch("IN_PPD_DEFINE_BODY")
    /\ UNCHANGED <<phase, ctxVars, buffers, spent, textVars, macroVarMap,
                   locVars, unterminated>>

DefineText(t) ==
    /\ Reading
    /\ State = "IN_PPD_DEFINE_BODY"
    /\ IF internalFlag THEN Collect(t) ELSE UNCHANGED textVars
    /\ UNCHANGED <<phase, ctxVars, flexVars, defVars, locVars, unterminated>>

\* registerMacroVarContext refuses a macro that is registered, and the rule
\* asserts that it does not.
EndDefine ==
    /\ Reading
    /\ State = "IN_PPD_DEFINE_BODY"
    /\ IF ~internalFlag
       THEN Pop(1) /\ UNCHANGED <<contextID, textVars, macroVarMap>>
       ELSE /\ Collected
            /\ IF macroVarMap[tmpStr] = NotRegistered
               THEN /\ contextID < MaxContexts  \* bound
                    /\ Pop(1)
                    /\ contextID' = contextID + 1
                    /\ macroVarMap' = [macroVarMap EXCEPT ![tmpStr] =
                           [ctx |-> contextID + 1, content |-> strVec]]
               ELSE /\ phase' = "aborted"
                    /\ UNCHANGED <<startStack, contextID, macroVarMap>>
    /\ UNCHANGED <<contextStack, buffers, spent, internalFlag, tmpStr, locVars,
                   unterminated>>

-----------------------------------------------------------------------------
(* Tokens.                                                                 *)

OpenString ==
    /\ Reading
    /\ State = "INITIAL"
    /\ Push("IN_STRING")
    /\ UNCHANGED <<phase, ctxVars, buffers, spent, textVars, defVars, locVars,
                   unterminated>>

StringText(t) ==
    /\ Reading
    /\ State = "IN_STRING"
    /\ Collect(t)
    /\ UNCHANGED <<phase, ctxVars, flexVars, defVars, locVars, unterminated>>

\* Mutant of ReturnToken: the location stays in the context it was in.
ReturnToken_KeepsContext ==
    lastCtx' = buffers[Len(buffers)] /\ UNCHANGED locCtx

\* A token is returned.  The next call of yylex starts by switching yyloc to
\* the innermost context; inside a call it is never switched.
ReturnToken ==
    lastCtx' = buffers[Len(buffers)] /\ locCtx' = Top

\* Mutant of CloseString: what was pushed before the string is popped too.
CloseString_PopsTwice ==
    /\ Reading
    /\ State = "IN_STRING"
    /\ Pop(2)
    /\ Collected
    /\ ReturnToken
    /\ UNCHANGED <<ctxVars, buffers, spent, defVars, unterminated>>

CloseString ==
    /\ Reading
    /\ State = "IN_STRING"
    /\ Pop(1)
    /\ Collected
    /\ ReturnToken
    /\ UNCHANGED <<ctxVars, buffers, spent, defVars, unterminated>>

\* Every other rule that returns a token, identifiers included.
Token ==
    /\ Reading
    /\ State = "INITIAL"
    /\ ReturnToken
    /\ UNCHANGED <<phase, ctxVars, flexVars, textVars, defVars, unterminated>>

\* An identifier that is a macro: its context is pushed, and a buffer made of
\* the context's stream, which registerMacroVarContext has left null.
UseMacro(m) ==
    /\ Reading
    /\ State = "INITIAL"
    /\ macroVarMap[m] # NotRegistered
    /\ contextStack' = Append(contextStack, macroVarMap[m].ctx)
    /\ phase' = "crashed"
    /\ UNCHANGED <<contextID, flexVars, textVars, defVars, locVars, unterminated>>

-----------------------------------------------------------------------------
(* Ends of streams.                                                        *)

\* flex calls yywrap, which pops the context but no buffer.  As long as that
\* leaves a context, flex goes on with the stream of the topmost buffer, which
\* is at its end still.  The rule for the end inside a string pops its state.
EndOfStream ==
    /\ phase = "lexing"
    /\ spent' = TRUE
    /\ contextStack' = SubSeq(contextStack, 1, Len(contextStack) - 1)
    /\ IF contextStack' # << >>
       THEN UNCHANGED <<phase, startStack>>
       ELSE /\ phase' = "ended"
            /\ IF State = "IN_STRING"
               THEN startStack' = SubSeq(startStack, 1, Len(startStack) - 1)
               ELSE UNCHANGED startStack
    /\ UNCHANGED <<contextID, buffers, textVars, defVars, locVars, unterminated>>

Stopped ==
    /\ phase # "lexing"
    /\ UNCHANGED vars

Next ==
    \/ \E s \in Comments : OpenComment(s)
    \/ CloseComment
    \/ Hash
    \/ \E s \in {"IN_PPD_INCL", "IN_PPD_DEFINE"} : Dispatch(s)
    \/ EndDirective
    \/ \E s \in FileNames : OpenFileName(s)
    \/ InvalidLexeme
    \/ \E t \in Texts : FileNameText(t)
    \/ SkipText
    \/ CloseFileName
    \/ EndLineInFileName
    \/ \E m \in Macros : DefineName(m)
    \/ \E t \in Texts : DefineText(t)
    \/ EndDefine
    \/ OpenString
    \/ \E t \in Texts : StringText(t)
    \/ CloseString
    \/ Token
    \/ \E m \in Macros : UseMacro(m)
    \/ EndOfStream
    \/ Stopped

Spec == Init /\ [][Next]_vars

-----------------------------------------------------------------------------
(* Properties.                                                             *)

TypeOK ==
    /\ phase \in {"lexing", "ended", "fatal", "aborted", "crashed"}
    /\ contextID \in Nat
    /\ contextStack \in Seq(1..contextID)
    /\ phase = "lexing" => contextStack # << >>
    /\ buffers \in Seq(1..contextID)
    /\ buffers # << >>
    /\ spent \in BOOLEAN
    /\ startStack \in Seq(StartStates)
    /\ startStack # << >>
    /\ macroVarMap \in [Macros -> [ctx : 0..contextID, content : Seq(Texts)]]
    /\ strVec \in Seq(Texts)
    /\ hasLoc \in BOOLEAN
    /\ internalFlag \in BOOLEAN
    /\ tmpStr \in Macros \cup {NoName}
    /\ locCtx \in 1..contextID
    /\ lastCtx \in 0..contextID
    /\ unterminated \in BOOLEAN

\* What is read is the innermost context: until a stream ends, the buffers of
\* flex are those of the open contexts, and what is pushed is never open twice.
ReadsInnermost ==
    Reading => /\ buffers = contextStack
               /\ \A i, j \in 1..Len(buffers) : i < j => buffers[i] < buffers[j]

\* Every context that has a buffer is scanned in an INITIAL of its own: what
\* a directive, comment or string pushes, it pops.
StatesFollowBuffers ==
    phase = "lexing" /\ ~unterminated =>
        Cardinality({i \in 1..Len(startStack) : startStack[i] = "INITIAL"})
            = Len(buffers)

\* flex's stack of start conditions only ever underflows after an #include
\* whose name is not closed before the end of its line.
UnderflowExplained == phase = "fatal" => unterminated

\* strVec and locVec serve file names, macros and strings in turn, and what
\* one of them collects is gone when the scanner is back in INITIAL.  (A file
\* whose last name is unterminated may bring back the start condition of the
\* name it was included by, with its text: no claim is made of that state.)
NothingLeftOver ==
    phase = "lexing" /\ State = "INITIAL" =>
        strVec = << >> /\ ~hasLoc

\* A macro is tested when its name is read and registered at the end of its
\* line: the assertion that this succeeds holds, with whatever comes between.
RegistrationSucceeds == [][EndDefine => phase' = "lexing"]_vars

\* A token is located in the context it is read from, unless it is the first
\* that is read from there.
OnlyFirstMislocated ==
    [][(Token \/ CloseString) /\ lastCtx = Top => locCtx = Top]_vars

\* The use of a macro is replaced by the content of the macro.
MacroIsReplaced == [][\A m \in Macros : UseMacro(m) => phase' = "lexing"]_vars
=============================================================================
