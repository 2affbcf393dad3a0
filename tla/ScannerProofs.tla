--------------------------- MODULE ScannerProofs ---------------------------
(***************************************************************************)
(* The safety properties of Scanner, for all macros, texts and bounds.     *)
(***************************************************************************)
EXTENDS Scanner, SequenceTheorems, FiniteSetTheorems, TLAPS

-----------------------------------------------------------------------------
(* The stack of start conditions.                                          *)

\* Start conditions on top of which only comments are pushed.
Held == StartStates \ ({"INITIAL"} \cup FileNames)

OnlyCommentsAbove(ss, i) == \A j \in (i + 1)..Len(ss) : ss[j] \in Comments

\* What is pushed on what: comments on anything, the INITIAL of a file on the
\* name of the file, and the rest on an INITIAL.
Follows(s, t) ==
    \/ t \in Comments
    \/ t = "INITIAL" /\ s \in FileNames
    \/ t # "INITIAL" /\ s = "INITIAL"

StackOK(ss) ==
    /\ ss \in Seq(StartStates)
    /\ ss # << >>
    /\ ss[1] = "INITIAL"
    /\ \A i \in 1..(Len(ss) - 1) : Follows(ss[i], ss[i + 1])
    /\ \A i \in 1..Len(ss) : ss[i] \in Held => OnlyCommentsAbove(ss, i)

\* What is pushed is a comment, or is pushed on something that is not held.
LEMMA StackPush ==
    ASSUME NEW ss, StackOK(ss), NEW s \in StartStates, Follows(ss[Len(ss)], s)
    PROVE  StackOK(Append(ss, s))
<1>0. s \in Comments \/ ss[Len(ss)] \notin Held
  BY DEF Follows, Held
<1>1. /\ ss \in Seq(StartStates) /\ ss[1] = "INITIAL"
      /\ Len(ss) \in Nat /\ Len(ss) > 0
  BY DEF StackOK
<1>2. /\ Append(ss, s) \in Seq(StartStates)
      /\ Len(Append(ss, s)) = Len(ss) + 1
      /\ \A i \in 1..Len(ss) : Append(ss, s)[i] = ss[i]
      /\ Append(ss, s)[Len(ss) + 1] = s
  BY <1>1
<1>3. ASSUME NEW i \in 1..Len(ss), ss[i] \in Held
      PROVE  s \in Comments /\ OnlyCommentsAbove(ss, i)
  <2>1. OnlyCommentsAbove(ss, i)
    BY <1>3 DEF StackOK
  <2>2. CASE i = Len(ss)
    BY <1>0, <1>3, <2>1, <2>2
  <2>3. CASE i < Len(ss)
    <3>1. ss[Len(ss)] \in Comments
      BY <1>1, <2>1, <2>3 DEF OnlyCommentsAbove
    <3>2. ss[Len(ss)] \in Held
      BY <3>1 DEF Held, FileNames, Comments, StartStates
    <3>3. QED
      BY <1>0, <2>1, <3>2
  <2>4. QED
    BY <1>1, <2>2, <2>3
<1>4. ASSUME NEW i \in 1..Len(Append(ss, s)), Append(ss, s)[i] \in Held
      PROVE  OnlyCommentsAbove(Append(ss, s), i)
  <2>1. CASE i = Len(ss) + 1
    BY <1>1, <1>2, <2>1 DEF OnlyCommentsAbove
  <2>2. CASE i \in 1..Len(ss)
    <3>1. s \in Comments /\ OnlyCommentsAbove(ss, i)
      BY <1>2, <1>3, <1>4, <2>2
    <3>2. QED
      BY <1>1, <1>2, <2>2, <3>1 DEF OnlyCommentsAbove
  <2>3. QED
    BY <1>1, <1>2, <2>1, <2>2
<1>5. ASSUME NEW i \in 1..(Len(Append(ss, s)) - 1)
      PROVE  Follows(Append(ss, s)[i], Append(ss, s)[i + 1])
  <2>1. CASE i = Len(ss)
    BY <1>1, <1>2, <2>1
  <2>2. CASE i \in 1..(Len(ss) - 1)
    BY <1>1, <1>2, <2>2 DEF StackOK
  <2>3. QED
    BY <1>1, <1>2, <2>1, <2>2
<1>6. QED
  BY <1>1, <1>2, <1>4, <1>5 DEF StackOK

\* Any number of start conditions that leaves one may be popped.
LEMMA StackPop ==
    ASSUME NEW ss, StackOK(ss), NEW k \in Nat, k < Len(ss)
    PROVE  /\ StackOK(SubSeq(ss, 1, Len(ss) - k))
           /\ Len(SubSeq(ss, 1, Len(ss) - k)) = Len(ss) - k
           /\ \A i \in 1..(Len(ss) - k) : SubSeq(ss, 1, Len(ss) - k)[i] = ss[i]
<1> DEFINE tt == SubSeq(ss, 1, Len(ss) - k)
<1>1. /\ ss \in Seq(StartStates) /\ ss[1] = "INITIAL"
      /\ Len(ss) \in Nat
  BY DEF StackOK
<1>2. /\ tt \in Seq(StartStates)
      /\ Len(tt) = Len(ss) - k
      /\ \A i \in 1..(Len(ss) - k) : tt[i] = ss[i]
  BY <1>1
<1> HIDE DEF tt
<1>3. \A i \in 1..Len(tt) : tt[i] \in Held => OnlyCommentsAbove(tt, i)
  <2>1. \A i \in 1..Len(ss) : ss[i] \in Held => OnlyCommentsAbove(ss, i)
    BY DEF StackOK
  <2>2. QED
    BY <1>1, <1>2, <2>1 DEF OnlyCommentsAbove
<1>4. tt # << >> /\ tt[1] = "INITIAL"
  BY <1>1, <1>2
<1>5. ASSUME NEW i \in 1..(Len(tt) - 1) PROVE Follows(tt[i], tt[i + 1])
  <2>0. k \in Nat /\ k < Len(ss)
    OBVIOUS
  <2>1. /\ i \in 1..(Len(ss) - k) /\ i + 1 \in 1..(Len(ss) - k)
        /\ i \in 1..(Len(ss) - 1)
    BY <1>1, <1>2, <2>0
  <2>2. Follows(ss[i], ss[i + 1])
    BY <2>1 DEF StackOK
  <2>3. QED
    BY <1>2, <2>1, <2>2
<1>6. StackOK(tt)
  BY <1>2, <1>3, <1>4, <1>5 DEF StackOK
<1>7. QED
  BY <1>2, <1>6 DEF tt

\* A held start condition that is not a comment may be replaced by any other.
LEMMA StackSwitch ==
    ASSUME NEW ss, StackOK(ss), NEW s \in StartStates,
           s # "INITIAL", ss[Len(ss)] \in Held \ Comments
    PROVE  StackOK([ss EXCEPT ![Len(ss)] = s])
<1> DEFINE tt == [ss EXCEPT ![Len(ss)] = s]
<1>1. /\ ss \in Seq(StartStates) /\ ss[1] = "INITIAL"
      /\ Len(ss) \in Nat /\ Len(ss) > 0
  BY DEF StackOK
<1>2. Len(ss) # 1
  BY <1>1 DEF Held
<1>3. /\ tt \in Seq(StartStates)
      /\ Len(tt) = Len(ss)
      /\ \A i \in 1..Len(ss) : i # Len(ss) => tt[i] = ss[i]
      /\ tt[Len(ss)] = s
  BY <1>1
<1> HIDE DEF tt
<1>4. \A i \in 1..Len(ss) : i # Len(ss) => ss[i] \notin Held
  BY <1>1 DEF StackOK, OnlyCommentsAbove
<1>5. \A i \in 1..Len(tt) : tt[i] \in Held => OnlyCommentsAbove(tt, i)
  BY <1>1, <1>3, <1>4 DEF OnlyCommentsAbove
<1>6. tt[1] = "INITIAL" /\ tt # << >>
  BY <1>1, <1>2, <1>3
<1>7. ASSUME NEW i \in 1..(Len(tt) - 1) PROVE Follows(tt[i], tt[i + 1])
  <2>1. Follows(ss[i], ss[i + 1])
    BY <1>1, <1>3 DEF StackOK
  <2>2. CASE i = Len(ss) - 1
    <3>1. ss[i] = "INITIAL"
      BY <1>1, <2>1, <2>2 DEF Follows, Held
    <3>2. QED
      BY <1>1, <1>3, <2>2, <3>1 DEF Follows
  <2>3. CASE i < Len(ss) - 1
    BY <1>1, <1>3, <2>1, <2>3
  <2>4. QED
    BY <1>1, <1>3, <2>2, <2>3
<1>8. QED
  BY <1>3, <1>5, <1>6, <1>7 DEF StackOK, tt

\* Only the innermost start condition is held, unless it is a comment.
LEMMA HeldIsTop ==
    ASSUME NEW ss, StackOK(ss), ss[Len(ss)] \notin Comments
    PROVE  \A i \in 1..Len(ss) : ss[i] \in Held => i = Len(ss)
BY DEF StackOK, OnlyCommentsAbove

-----------------------------------------------------------------------------
(* The inductive invariant.                                                *)

\* Contexts are numbered as they are created, and read innermost first.
CtxOK ==
    /\ contextID \in Nat
    /\ contextStack \in Seq(1..contextID)
    /\ buffers \in Seq(1..contextID)
    /\ buffers # << >>
    /\ \A i, j \in 1..Len(buffers) : i < j => buffers[i] < buffers[j]
    /\ locCtx \in 1..contextID
    /\ lastCtx \in 0..contextID
    /\ phase = "lexing" => contextStack # << >>
    /\ Reading => buffers = contextStack
    /\ Reading /\ lastCtx = Top => locCtx = Top

\* A macro whose body is being read is not registered yet.
DefOK ==
    /\ macroVarMap \in [Macros -> [ctx : 0..contextID, content : Seq(Texts)]]
    /\ \A m \in Macros :
           macroVarMap[m] # NotRegistered => macroVarMap[m].ctx # 0
    /\ internalFlag \in BOOLEAN
    /\ tmpStr \in Macros \cup {NoName}
    /\ \A i \in 1..Len(startStack) :
           startStack[i] = "IN_PPD_DEFINE_BODY" /\ internalFlag =>
               tmpStr \in Macros /\ macroVarMap[tmpStr] = NotRegistered

\* Text is collected in start condition i.
Collecting(i) ==
    \/ startStack[i] \in FileNames \cup {"IN_STRING"}
    \/ startStack[i] = "IN_PPD_DEFINE_BODY" /\ internalFlag

\* Text that has been collected belongs to what is being scanned.
TextOK ==
    /\ strVec \in Seq(Texts)
    /\ hasLoc \in BOOLEAN
    /\ phase = "lexing" /\ (strVec # << >> \/ hasLoc) =>
           \E i \in 1..Len(startStack) :
               Collecting(i) /\ OnlyCommentsAbove(startStack, i)

FlagOK ==
    /\ phase \in {"lexing", "ended", "fatal", "aborted", "crashed"}
    /\ spent \in BOOLEAN
    /\ unterminated \in BOOLEAN
    /\ phase = "fatal" => unterminated

Inv ==
    /\ StackOK(startStack)
    /\ CtxOK
    /\ DefOK
    /\ TextOK
    /\ FlagOK

LEMMA InvTypes == Inv => TypeOK
BY DEF Inv, TypeOK, StackOK, CtxOK, DefOK, TextOK, FlagOK

\* Initially.
LEMMA InvInit == Init => Inv
<1> SUFFICES ASSUME Init PROVE Inv
  OBVIOUS
<1>1. /\ startStack = <<"INITIAL">> /\ contextID = 1
      /\ contextStack = <<1>> /\ buffers = <<1>>
  BY DEF Init
<1>2. StackOK(startStack)
  BY <1>1 DEF StackOK, OnlyCommentsAbove, StartStates, Held, Follows
<1>3. CtxOK
  <2>1. <<1>> \in Seq(1..1) /\ Len(<<1>>) = 1 /\ <<1>>[1] = 1
    OBVIOUS
  <2>2. locCtx = 1 /\ lastCtx = 0
    BY DEF Init
  <2>3. QED
    BY <1>1, <2>1, <2>2 DEF CtxOK, Top
<1>4. DefOK
  <2>1. NotRegistered \in [ctx : 0..contextID, content : Seq(Texts)]
    BY <1>1 DEF NotRegistered
  <2>2. startStack[1] # "IN_PPD_DEFINE_BODY" /\ Len(startStack) = 1
    BY <1>1
  <2>3. macroVarMap = [m \in Macros |-> NotRegistered]
        /\ internalFlag \in BOOLEAN /\ tmpStr = NoName
    BY DEF Init
  <2>4. QED
    BY <2>1, <2>2, <2>3 DEF DefOK
<1>5. TextOK
  <2>1. << >> \in Seq(Texts)
    OBVIOUS
  <2>2. strVec = << >> /\ hasLoc = FALSE
    BY DEF Init
  <2>3. QED
    BY <2>1, <2>2 DEF TextOK
<1>6. FlagOK
  BY DEF Init, FlagOK
<1>7. QED
  BY <1>2, <1>3, <1>4, <1>5, <1>6 DEF Inv

-----------------------------------------------------------------------------
(* Facts about the parts of the steps.                                     *)

\* The stack is not empty, and its top is an element of it.
LEMMA StateType ==
    ASSUME Inv
    PROVE  /\ Len(startStack) \in Nat \ {0}
           /\ State \in StartStates
           /\ State # "INITIAL" => Len(startStack) > 1
BY DEF Inv, StackOK, State

\* What is neither INITIAL nor the name of a file can be popped.
LEMMA PopOne ==
    ASSUME Inv, State # "INITIAL", Pop(1)
    PROVE  /\ phase' = phase
           /\ StackOK(startStack')
           /\ Len(startStack') = Len(startStack) - 1
           /\ \A i \in 1..Len(startStack') : startStack'[i] = startStack[i]
<1>1. 1 < Len(startStack)
  BY StateType
<1>2. /\ phase' = phase
      /\ startStack' = SubSeq(startStack, 1, Len(startStack) - 1)
  BY <1>1 DEF Pop
<1>3. StackOK(startStack)
  BY DEF Inv
<1>4. Len(startStack) \in Nat
  BY StateType
<1>5. QED
  BY <1>1, <1>2, <1>3, <1>4, StackPop

\* A comment is pushed on anything, the rest only on INITIAL.
LEMMA PushOne ==
    ASSUME Inv, NEW s \in StartStates, Push(s), Follows(State, s)
    PROVE  /\ StackOK(startStack')
           /\ Len(startStack') = Len(startStack) + 1
           /\ \A i \in 1..Len(startStack) : startStack'[i] = startStack[i]
           /\ startStack'[Len(startStack) + 1] = s
<1>1. StackOK(startStack')
  BY StackPush DEF Inv, Push, State
<1>2. startStack \in Seq(StartStates)
  BY DEF Inv, StackOK
<1>3. QED
  BY <1>1, <1>2 DEF Push

\* A start condition that is held, and no comment, is switched.
LEMMA SwitchOne ==
    ASSUME Inv, NEW s \in StartStates, s # "INITIAL", Switch(s),
           State \in Held \ Comments
    PROVE  /\ StackOK(startStack')
           /\ Len(startStack') = Len(startStack)
           /\ \A i \in 1..(Len(startStack) - 1) : startStack'[i] = startStack[i]
           /\ startStack'[Len(startStack)] = s
<1>1. StackOK(startStack')
  BY StackSwitch DEF Inv, Switch, State
<1>2. startStack \in Seq(StartStates) /\ startStack # << >>
  BY DEF Inv, StackOK
<1>3. QED
  BY <1>1, <1>2 DEF Switch

\* Nothing is collected when the scanner is where nothing is.
LEMMA NothingCollected ==
    ASSUME Inv, phase = "lexing", State \notin Comments,
           ~Collecting(Len(startStack))
    PROVE  strVec = << >> /\ ~hasLoc
<1>1. ASSUME NEW i \in 1..Len(startStack), Collecting(i),
             OnlyCommentsAbove(startStack, i)
      PROVE  FALSE
  <2>1. CASE i = Len(startStack)
    BY <1>1, <2>1
  <2>2. CASE i < Len(startStack)
    BY <1>1, <2>2, StateType DEF OnlyCommentsAbove, State
  <2>3. QED
    BY <2>1, <2>2, StateType
<1>2. QED
  BY <1>1 DEF Inv, TextOK

\* The contexts, and what is registered, when only the stack changes.
LEMMA OthersStay ==
    ASSUME Inv, UNCHANGED <<phase, ctxVars, buffers, spent, locVars, unterminated>>
    PROVE  CtxOK' /\ FlagOK'
BY DEF Inv, CtxOK, FlagOK, Reading, Top, ctxVars, locVars

-----------------------------------------------------------------------------
(* The steps, one lemma for actions that change the same things.           *)

\* Comments and directives: the stack changes, and no text.
LEMMA DirectiveSteps ==
    ASSUME Inv,
           \/ \E s \in Comments : OpenComment(s)
           \/ CloseComment
           \/ Hash
           \/ OpenString
           \/ \E s \in {"IN_PPD_INCL", "IN_PPD_DEFINE"} : Dispatch(s)
           \/ EndDirective
           \/ \E s \in FileNames : OpenFileName(s)
    PROVE  Inv'
<1>1. UNCHANGED <<ctxVars, buffers, spent, textVars, defVars, locVars, unterminated>>
  BY DEF OpenComment, CloseComment, Hash, OpenString, Dispatch, EndDirective,
         OpenFileName
<1>2. Len(startStack) \in Nat \ {0} /\ Reading
  BY StateType DEF OpenComment, CloseComment, Hash, OpenString, Dispatch,
         EndDirective, OpenFileName
<1>3. strVec \in Seq(Texts) /\ hasLoc \in BOOLEAN
  BY DEF Inv, TextOK
\* The new stack is fine, and is the old one up to its top.
<1> DEFINE SameBelow ==
               /\ StackOK(startStack')
               /\ phase' = phase
               /\ Len(startStack') \in Nat
               /\ \A i \in 1..Len(startStack') :
                      \/ i <= Len(startStack) /\ startStack'[i] = startStack[i]
                      \/ startStack'[i] # "IN_PPD_DEFINE_BODY"
<1>4. ASSUME SameBelow PROVE DefOK'
  <2>1. ASSUME NEW i \in 1..Len(startStack'),
               startStack'[i] = "IN_PPD_DEFINE_BODY", internalFlag
        PROVE  tmpStr \in Macros /\ macroVarMap[tmpStr] = NotRegistered
    BY <1>2, <1>4, <2>1 DEF Inv, DefOK
  <2>2. QED
    BY <1>1, <2>1 DEF Inv, DefOK, defVars, ctxVars
<1>5. ASSUME SameBelow PROVE CtxOK' /\ FlagOK'
  BY <1>1, <1>5, OthersStay
<1>6. CASE (\E s \in Comments : OpenComment(s)) \/ CloseComment
  <2>1. CASE \E s \in Comments : OpenComment(s)
    <3>1. PICK s \in Comments : OpenComment(s)
      BY <2>1
    <3>2. /\ StackOK(startStack')
          /\ Len(startStack') = Len(startStack) + 1
          /\ \A i \in 1..Len(startStack) : startStack'[i] = startStack[i]
          /\ startStack'[Len(startStack) + 1] = s
          /\ phase' = phase
      BY <3>1, PushOne DEF OpenComment, StartStates, Follows
    <3>3. SameBelow
      BY <1>2, <3>2 DEF Comments
    <3>4. ASSUME NEW i \in 1..Len(startStack), Collecting(i),
                 OnlyCommentsAbove(startStack, i)
          PROVE  i \in 1..Len(startStack') /\ Collecting(i)'
                 /\ OnlyCommentsAbove(startStack', i)
      BY <1>1, <1>2, <3>2, <3>4 DEF Collecting, OnlyCommentsAbove, defVars
    <3>5. TextOK'
      BY <1>1, <1>3, <3>2, <3>4 DEF Inv, TextOK, textVars
    <3>6. QED
      BY <1>4, <1>5, <3>2, <3>3, <3>5 DEF Inv
  <2>2. CASE CloseComment
    <3>1. /\ phase' = phase
          /\ StackOK(startStack')
          /\ Len(startStack') = Len(startStack) - 1
          /\ \A i \in 1..Len(startStack') : startStack'[i] = startStack[i]
      BY <2>2, PopOne DEF CloseComment, Comments
    <3>2. SameBelow
      BY <1>2, <3>1
    <3>3. ASSUME NEW i \in 1..Len(startStack), Collecting(i),
                 OnlyCommentsAbove(startStack, i)
          PROVE  i \in 1..Len(startStack') /\ Collecting(i)'
                 /\ OnlyCommentsAbove(startStack', i)
      <4>1. i # Len(startStack)
        BY <2>2, <3>3
           DEF CloseComment, Collecting, State, Comments, FileNames
      <4>2. QED
        BY <1>1, <1>2, <3>1, <3>3, <4>1
           DEF Collecting, OnlyCommentsAbove, defVars
    <3>4. TextOK'
      BY <1>1, <1>3, <3>1, <3>3 DEF Inv, TextOK, textVars
    <3>5. QED
      BY <1>4, <1>5, <3>1, <3>2, <3>4 DEF Inv
  <2>3. QED
    BY <1>6, <2>1, <2>2
<1>7. ASSUME SameBelow, State \notin Comments, ~Collecting(Len(startStack))
      PROVE  Inv'
  <2>1. strVec = << >> /\ ~hasLoc
    BY <1>2, <1>7, NothingCollected DEF Reading
  <2>2. TextOK'
    BY <1>1, <1>3, <2>1 DEF TextOK, textVars
  <2>3. QED
    BY <1>4, <1>5, <1>7, <2>2 DEF Inv
<1>8. CASE Hash \/ OpenString
  <2>1. State = "INITIAL" /\ phase' = phase
        /\ \E s \in {"IN_PPD", "IN_STRING"} : Push(s)
    BY <1>8 DEF Hash, OpenString
  <2>2. PICK s \in {"IN_PPD", "IN_STRING"} : Push(s)
    BY <2>1
  <2>3. SameBelow
    BY <1>2, <2>1, <2>2, PushOne DEF StartStates, Follows
  <2>4. QED
    BY <1>7, <2>1, <2>3 DEF Comments, Collecting, FileNames, State
<1>9. CASE EndDirective
  <2>1. SameBelow
    BY <1>2, <1>9, PopOne DEF EndDirective
  <2>2. QED
    BY <1>7, <1>9, <2>1 DEF EndDirective, Comments, Collecting, FileNames, State
<1>10. CASE \/ \E s \in {"IN_PPD_INCL", "IN_PPD_DEFINE"} : Dispatch(s)
            \/ \E s \in FileNames : OpenFileName(s)
  <2>1. PICK s \in {"IN_PPD_INCL", "IN_PPD_DEFINE"} \cup FileNames :
            /\ State \in {"IN_PPD", "IN_PPD_INCL"}
            /\ Switch(s)
            /\ phase' = phase
    BY <1>10 DEF Dispatch, OpenFileName
  <2>2. s \in StartStates /\ s # "INITIAL" /\ State \in Held \ Comments
    BY <2>1 DEF StartStates, Held, Comments, FileNames
  <2>3. SameBelow
    BY <1>2, <2>1, <2>2, SwitchOne DEF FileNames
  <2>4. QED
    BY <1>7, <2>1, <2>3 DEF Comments, Collecting, FileNames, State
<1>11. QED
  BY <1>6, <1>8, <1>9, <1>10

\* Text is collected, or thrown away, and nothing else changes.
LEMMA TextSteps ==
    ASSUME Inv,
           \/ \E t \in Texts : FileNameText(t)
           \/ SkipText
           \/ \E t \in Texts : DefineText(t)
           \/ \E t \in Texts : StringText(t)
    PROVE  Inv'
<1>1. /\ UNCHANGED <<phase, ctxVars, flexVars, defVars, locVars, unterminated>>
      /\ Collecting(Len(startStack)) \/ UNCHANGED textVars
  BY DEF FileNameText, SkipText, DefineText, StringText, Collecting,
         State
<1>2. StackOK(startStack') /\ DefOK'
  BY <1>1 DEF Inv, DefOK, flexVars, defVars, ctxVars
<1>3. CtxOK' /\ FlagOK'
  BY <1>1, OthersStay DEF flexVars
<1>4. TextOK'
  <2>1. /\ strVec \in Seq(Texts) /\ hasLoc \in BOOLEAN
        /\ startStack' = startStack /\ internalFlag' = internalFlag
        /\ phase' = phase /\ unterminated' = unterminated
    BY <1>1 DEF Inv, TextOK, flexVars, defVars
  <2>2. strVec' \in Seq(Texts) /\ hasLoc' \in BOOLEAN
    <3>1. \/ \E t \in Texts : Collect(t)
          \/ UNCHANGED textVars
          \/ strVec' = strVec /\ hasLoc' = TRUE
      BY DEF FileNameText, SkipText, DefineText, StringText
    <3>2. ASSUME NEW t \in Texts, Collect(t)
          PROVE  strVec' \in Seq(Texts) /\ hasLoc' \in BOOLEAN
      BY <2>1, <3>2 DEF Collect
    <3>3. QED
      BY <2>1, <3>1, <3>2 DEF textVars
  <2>3. CASE UNCHANGED textVars
    BY <2>1, <2>3 DEF Inv, TextOK, textVars, Collecting
  <2>4. CASE Collecting(Len(startStack))
    <3>1. OnlyCommentsAbove(startStack, Len(startStack))
      BY StateType DEF OnlyCommentsAbove
    <3>2. Collecting(Len(startStack))' /\ Len(startStack') \in 1..Len(startStack')
          /\ OnlyCommentsAbove(startStack', Len(startStack'))
      BY <2>1, <2>4, <3>1, StateType DEF Collecting
    <3>3. QED
      BY <2>1, <2>2, <3>2 DEF TextOK
  <2>5. QED
    BY <1>1, <2>3, <2>4
<1>5. QED
  BY <1>2, <1>3, <1>4 DEF Inv

\* The program stops: only the contexts may have changed, to be read no more.
LEMMA StopSteps ==
    ASSUME Inv,
           \/ InvalidLexeme
           \/ \E m \in Macros : UseMacro(m)
           \/ Stopped
    PROVE  Inv'
<1>1. CASE Stopped
  <2>1. UNCHANGED <<ctxVars, flexVars, textVars, defVars, locVars, phase, unterminated>>
    BY <1>1 DEF Stopped, vars, flexVars
  <2>2. CtxOK' /\ FlagOK'
    BY <2>1, OthersStay DEF flexVars
  <2>3. StackOK(startStack') /\ DefOK' /\ TextOK'
    BY <2>1 DEF Inv, DefOK, TextOK, flexVars, defVars, ctxVars, textVars, Collecting
  <2>4. QED
    BY <2>2, <2>3 DEF Inv
<1>2. CASE InvalidLexeme \/ \E m \in Macros : UseMacro(m)
  <2>1. /\ UNCHANGED <<contextID, flexVars, textVars, defVars, locVars, unterminated>>
        /\ phase' \in {"aborted", "crashed"}
    BY <1>2 DEF InvalidLexeme, UseMacro, ctxVars
  <2>2. contextStack' \in Seq(1..contextID)
    <3>1. contextStack \in Seq(1..contextID)
      BY DEF Inv, CtxOK
    <3>2. CASE InvalidLexeme
      BY <3>1, <3>2 DEF InvalidLexeme, ctxVars
    <3>3. CASE \E m \in Macros : UseMacro(m)
      <4>1. PICK m \in Macros : UseMacro(m)
        BY <3>3
      <4>2. macroVarMap[m].ctx \in 1..contextID
        BY <4>1 DEF UseMacro, Inv, DefOK, CtxOK
      <4>3. QED
        BY <3>1, <4>1, <4>2 DEF UseMacro
    <3>4. QED
      BY <1>2, <3>2, <3>3
  <2>3. CtxOK'
    BY <2>1, <2>2 DEF Inv, CtxOK, Reading, flexVars, locVars
  <2>4. StackOK(startStack') /\ DefOK' /\ TextOK' /\ FlagOK'
    BY <2>1 DEF Inv, DefOK, TextOK, FlagOK, flexVars, defVars, textVars
  <2>5. QED
    BY <2>3, <2>4 DEF Inv
<1>3. QED
  BY <1>1, <1>2

\* A token is returned: yyloc is in the innermost context from then on.
LEMMA TokenSteps ==
    ASSUME Inv, Token \/ CloseString
    PROVE  Inv'
<1>1. /\ UNCHANGED <<ctxVars, buffers, spent, defVars, unterminated>>
      /\ Reading /\ ReturnToken
      /\ State \in {"INITIAL", "IN_STRING"}
  BY DEF Token, CloseString, flexVars
<1>2. /\ phase' = phase
      /\ StackOK(startStack')
      /\ Len(startStack') \in Nat /\ Len(startStack') <= Len(startStack)
      /\ \A i \in 1..Len(startStack') : startStack'[i] = startStack[i]
  <2>1. CASE Token
    BY <2>1, StateType DEF Token, flexVars, Inv
  <2>2. CASE CloseString
    BY <2>2, PopOne, StateType DEF CloseString
  <2>3. QED
    BY <2>1, <2>2
<1>3. CtxOK'
  <2>1. buffers = contextStack /\ contextStack # << >>
        /\ contextStack \in Seq(1..contextID) /\ contextID \in Nat
    BY <1>1 DEF Inv, CtxOK, Reading
  <2>2. locCtx' = Top /\ lastCtx' = Top /\ Top' = Top
    BY <1>1, <2>1 DEF ReturnToken, Top, ctxVars
  <2>3. Top \in 1..contextID
    BY <2>1 DEF Top
  <2>4. QED
    BY <1>1, <1>2, <2>1, <2>2, <2>3 DEF Inv, CtxOK, Reading, ctxVars
<1>4. DefOK'
  BY <1>1, <1>2, StateType DEF Inv, DefOK, defVars, ctxVars
<1>5. TextOK'
  <2>1. CASE CloseString
    <3>1. << >> \in Seq(Texts)
      OBVIOUS
    <3>2. QED
      BY <2>1, <3>1 DEF CloseString, Collected, TextOK
  <2>2. CASE Token
    <3>1. strVec = << >> /\ ~hasLoc
      BY <1>1, <2>2, NothingCollected
         DEF Token, Reading, Collecting, State, Comments, FileNames
    <3>2. QED
      BY <1>1, <2>2, <3>1 DEF Inv, TextOK, Token, textVars
  <2>3. QED
    BY <2>1, <2>2
<1>6. FlagOK'
  BY <1>1, <1>2 DEF Inv, FlagOK
<1>7. QED
  BY <1>2, <1>3, <1>4, <1>5, <1>6 DEF Inv

\* The contexts there were are contexts when there is one more.
LEMMA SeqWider ==
    ASSUME NEW n \in Nat, NEW q \in Seq(1..n)
    PROVE  q \in Seq(1..(n + 1))
<1>1. \A i \in 1..Len(q) : q[i] \in 1..(n + 1)
  OBVIOUS
<1>2. QED
  BY <1>1

\* A number that is larger than all of them extends an increasing sequence.
LEMMA AppendNewest ==
    ASSUME NEW n \in Nat, NEW q \in Seq(1..n),
           \A i, j \in 1..Len(q) : i < j => q[i] < q[j]
    PROVE  /\ Append(q, n + 1) \in Seq(1..(n + 1))
           /\ Append(q, n + 1) # << >>
           /\ Append(q, n + 1)[Len(Append(q, n + 1))] = n + 1
           /\ \A i, j \in 1..Len(Append(q, n + 1)) :
                  i < j => Append(q, n + 1)[i] < Append(q, n + 1)[j]
<1> DEFINE a == Append(q, n + 1)
<1>1. /\ \A i \in 1..Len(q) : q[i] \in 1..n
      /\ Len(q) \in Nat
  OBVIOUS
<1>2. /\ Len(a) = Len(q) + 1
      /\ \A i \in 1..Len(q) : a[i] = q[i]
      /\ a[Len(q) + 1] = n + 1
  OBVIOUS
<1>3. a \in Seq(1..(n + 1))
  <2>1. q \in Seq(1..(n + 1))
    BY SeqWider
  <2>2. QED
    BY <2>1
<1> HIDE DEF a
<1>4. ASSUME NEW i \in 1..Len(a), NEW j \in 1..Len(a), i < j
      PROVE  a[i] < a[j]
  <2>1. CASE j = Len(q) + 1
    BY <1>1, <1>2, <1>4, <2>1
  <2>2. CASE j \in 1..Len(q)
    <3>1. i \in 1..Len(q)
      BY <1>1, <1>2, <1>4, <2>2
    <3>2. q[i] < q[j]
      BY <1>4, <2>2, <3>1
    <3>3. QED
      BY <1>2, <2>2, <3>1, <3>2
  <2>3. QED
    BY <1>1, <1>2, <2>1, <2>2
<1>5. a # << >> /\ a[Len(a)] = n + 1
  BY <1>1, <1>2
<1>6. QED
  BY <1>3, <1>4, <1>5 DEF a

\* A file is included: its context is the newest, and read from then on.
LEMMA CloseFileNameStep ==
    ASSUME Inv, CloseFileName PROVE Inv'
<1>1. Reading /\ State \in FileNames
      /\ UNCHANGED <<spent, defVars, locVars, unterminated>>
  BY DEF CloseFileName
<1>2. CASE ~hasLoc
  <2>1. phase' = "crashed" /\ UNCHANGED <<ctxVars, buffers, startStack, textVars>>
    BY <1>2 DEF CloseFileName
  <2>2. CtxOK'
    BY <1>1, <2>1 DEF Inv, CtxOK, Reading, ctxVars, locVars
  <2>3. StackOK(startStack') /\ DefOK' /\ TextOK' /\ FlagOK'
    BY <1>1, <2>1 DEF Inv, DefOK, TextOK, FlagOK, ctxVars, defVars, textVars
  <2>4. QED
    BY <2>2, <2>3 DEF Inv
<1>3. CASE hasLoc
  <2>1. /\ contextID' = contextID + 1
        /\ contextStack' = Append(contextStack, contextID + 1)
        /\ buffers' = Append(buffers, contextID + 1)
        /\ Push("INITIAL") /\ Collected /\ phase' = phase
    BY <1>3 DEF CloseFileName
  <2>2. buffers = contextStack /\ contextID \in Nat /\ buffers \in Seq(1..contextID)
        /\ \A i, j \in 1..Len(buffers) : i < j => buffers[i] < buffers[j]
    BY <1>1 DEF Inv, CtxOK
  <2>3. /\ buffers' \in Seq(1..contextID') /\ buffers' # << >>
        /\ buffers'[Len(buffers')] = contextID + 1
        /\ \A i, j \in 1..Len(buffers') : i < j => buffers'[i] < buffers'[j]
        /\ contextStack' = buffers'
    BY <2>1, <2>2, AppendNewest
  <2>4. /\ locCtx \in 1..contextID /\ lastCtx \in 0..contextID
        /\ locCtx' = locCtx /\ lastCtx' = lastCtx
    BY <1>1 DEF Inv, CtxOK, locVars
  <2>5. CtxOK'
    <3>1. Top' = contextID + 1
      BY <2>3 DEF Top
    <3>2. lastCtx' # Top' /\ locCtx' \in 1..contextID' /\ lastCtx' \in 0..contextID'
          /\ contextID' \in Nat
      BY <2>1, <2>2, <2>4, <3>1
    <3>3. QED
      BY <2>3, <3>2 DEF CtxOK
  <2>6. /\ StackOK(startStack')
        /\ Len(startStack') = Len(startStack) + 1
        /\ \A i \in 1..Len(startStack) : startStack'[i] = startStack[i]
        /\ startStack'[Len(startStack) + 1] = "INITIAL"
    BY <1>1, <2>1, PushOne DEF StartStates, Follows
  <2>7. DefOK'
    <3>1. \A c \in 0..contextID : c \in 0..contextID'
      BY <2>1, <2>2
    <3>2. ASSUME NEW i \in 1..Len(startStack'),
                 startStack'[i] = "IN_PPD_DEFINE_BODY", internalFlag
          PROVE  tmpStr \in Macros /\ macroVarMap[tmpStr] = NotRegistered
      BY <2>6, <3>2, StateType DEF Inv, DefOK
    <3>3. macroVarMap \in [Macros -> [ctx : 0..contextID', content : Seq(Texts)]]
      BY <3>1 DEF Inv, DefOK
    <3>4. QED
      BY <1>1, <3>2, <3>3 DEF Inv, DefOK, defVars
  <2>8. TextOK'
    <3>1. << >> \in Seq(Texts)
      OBVIOUS
    <3>2. QED
      BY <2>1, <3>1 DEF Collected, TextOK
  <2>9. FlagOK'
    BY <1>1, <2>1 DEF Inv, FlagOK
  <2>10. QED
    BY <2>5, <2>6, <2>7, <2>8, <2>9 DEF Inv
<1>4. QED
  BY <1>2, <1>3

\* A line ends in the name of a file: flex's stack loses two, or is short of it.
LEMMA EndLineInFileNameStep ==
    ASSUME Inv, EndLineInFileName PROVE Inv'
<1>1. /\ UNCHANGED <<ctxVars, buffers, spent, textVars, defVars, locVars>>
      /\ unterminated' = TRUE /\ Pop(2) /\ phase = "lexing"
  BY DEF EndLineInFileName, Reading
<1>2. CASE 2 < Len(startStack)
  <2>1. phase' = phase /\ startStack' = SubSeq(startStack, 1, Len(startStack) - 2)
    BY <1>1, <1>2 DEF Pop
  <2>2. /\ StackOK(startStack')
        /\ Len(startStack') = Len(startStack) - 2
        /\ \A i \in 1..Len(startStack') : startStack'[i] = startStack[i]
    BY <1>2, <2>1, StateType, StackPop DEF Inv
  <2>3. CtxOK'
    BY <1>1, <2>1 DEF Inv, CtxOK, Reading, Top, ctxVars, locVars
  <2>4. DefOK'
    BY <1>1, <2>2, StateType DEF Inv, DefOK, ctxVars, defVars
  <2>5. TextOK'
    <3>1. startStack'[Len(startStack')] \in FileNames
      <4>1. startStack[Len(startStack)] \in FileNames
        BY DEF EndLineInFileName, State
      <4>2. /\ Len(startStack) \in Nat
            /\ Follows(startStack[Len(startStack) - 2], startStack[Len(startStack) - 1])
            /\ Follows(startStack[Len(startStack) - 1], startStack[Len(startStack)])
        BY <1>2, StateType DEF Inv, StackOK
      <4>3. startStack[Len(startStack) - 2] \in FileNames
        BY <4>1, <4>2 DEF Follows, FileNames, Comments
      <4>4. QED
        BY <1>2, <2>2, <4>2, <4>3
    <3>2. OnlyCommentsAbove(startStack', Len(startStack'))
          /\ Len(startStack') \in 1..Len(startStack')
      BY <1>2, <2>2, StateType DEF OnlyCommentsAbove
    <3>3. QED
      BY <1>1, <3>1, <3>2 DEF Inv, TextOK, textVars, Collecting
  <2>6. FlagOK'
    BY <1>1, <2>1 DEF Inv, FlagOK
  <2>7. QED
    BY <2>2, <2>3, <2>4, <2>5, <2>6 DEF Inv
<1>3. CASE ~(2 < Len(startStack))
  <2>1. phase' = "fatal" /\ startStack' = startStack
    BY <1>1, <1>3 DEF Pop
  <2>2. CtxOK'
    BY <1>1, <2>1 DEF Inv, CtxOK, Reading, ctxVars, locVars
  <2>3. StackOK(startStack') /\ DefOK' /\ TextOK' /\ FlagOK'
    BY <1>1, <2>1 DEF Inv, DefOK, TextOK, FlagOK, ctxVars, defVars, textVars
  <2>4. QED
    BY <2>2, <2>3 DEF Inv
<1>4. QED
  BY <1>2, <1>3

\* The name of a macro is read: it is not registered if it is to be defined.
LEMMA DefineNameStep ==
    ASSUME Inv, NEW m \in Macros, DefineName(m) PROVE Inv'
<1>1. /\ UNCHANGED <<phase, ctxVars, buffers, spent, textVars, macroVarMap,
                     locVars, unterminated>>
      /\ Reading /\ State = "IN_PPD_DEFINE" /\ Switch("IN_PPD_DEFINE_BODY")
  BY DEF DefineName
<1>2. /\ StackOK(startStack')
      /\ Len(startStack') = Len(startStack)
      /\ startStack'[Len(startStack)] = "IN_PPD_DEFINE_BODY"
  BY <1>1, SwitchOne DEF StartStates, Held, Comments, FileNames
<1>3. CtxOK' /\ FlagOK'
  BY <1>1, OthersStay
<1>4. /\ internalFlag' \in BOOLEAN
      /\ tmpStr' \in Macros \cup {NoName}
      /\ internalFlag' => tmpStr' \in Macros /\ macroVarMap[tmpStr'] = NotRegistered
  BY DEF DefineName, Inv, DefOK
<1>5. DefOK'
  BY <1>1, <1>4 DEF Inv, DefOK, ctxVars
<1>6. TextOK'
  <2>1. strVec = << >> /\ ~hasLoc
    BY <1>1, NothingCollected
       DEF Reading, Collecting, State, Comments, FileNames
  <2>2. QED
    BY <1>1, <2>1 DEF Inv, TextOK, textVars
<1>7. QED
  BY <1>2, <1>3, <1>5, <1>6 DEF Inv

\* The line of a define ends: the macro was not registered, and is now.
LEMMA EndDefineStep ==
    ASSUME Inv, EndDefine PROVE Inv' /\ phase' = "lexing"
<1>1. /\ UNCHANGED <<contextStack, buffers, spent, internalFlag, tmpStr, locVars,
                     unterminated>>
      /\ Reading /\ State = "IN_PPD_DEFINE_BODY"
  BY DEF EndDefine
<1>2. internalFlag => tmpStr \in Macros /\ macroVarMap[tmpStr] = NotRegistered
  BY <1>1, StateType DEF Inv, DefOK, State
<1>3. Pop(1)
  BY <1>1, <1>2 DEF EndDefine
<1>4. /\ phase' = "lexing"
      /\ StackOK(startStack')
      /\ Len(startStack') = Len(startStack) - 1
      /\ \A i \in 1..Len(startStack') : startStack'[i] = startStack[i]
  BY <1>1, <1>3, PopOne DEF Reading
<1>5. \A i \in 1..Len(startStack') : startStack'[i] # "IN_PPD_DEFINE_BODY"
  <2>1. \A i \in 1..Len(startStack) : startStack[i] \in Held => i = Len(startStack)
    BY <1>1, HeldIsTop DEF Inv, State, Comments
  <2>2. "IN_PPD_DEFINE_BODY" \in Held
    BY DEF Held, StartStates, FileNames
  <2>3. Len(startStack) \in Nat
    BY StateType
  <2>4. QED
    BY <1>4, <2>1, <2>2, <2>3
<1>6. /\ contextID' \in {contextID, contextID + 1} /\ contextID \in Nat
      /\ macroVarMap' \in [Macros -> [ctx : 0..contextID', content : Seq(Texts)]]
      /\ \A m \in Macros :
             macroVarMap'[m] # NotRegistered => macroVarMap'[m].ctx # 0
  <2>1. /\ contextID \in Nat /\ strVec \in Seq(Texts)
        /\ macroVarMap \in [Macros -> [ctx : 0..contextID, content : Seq(Texts)]]
        /\ \A m \in Macros :
               macroVarMap[m] # NotRegistered => macroVarMap[m].ctx # 0
    BY DEF Inv, CtxOK, DefOK, TextOK
  <2>2. CASE ~internalFlag
    BY <2>1, <2>2 DEF EndDefine
  <2>3. CASE internalFlag
    <3>1. /\ contextID' = contextID + 1
          /\ macroVarMap' = [macroVarMap EXCEPT ![tmpStr] =
                 [ctx |-> contextID + 1, content |-> strVec]]
      BY <1>2, <2>3 DEF EndDefine
    <3>2. 0..contextID \subseteq 0..contextID' /\ contextID + 1 \in 0..contextID'
          /\ contextID + 1 # 0
      BY <2>1, <3>1
    <3>3. QED
      BY <2>1, <3>1, <3>2
  <2>4. QED
    BY <2>2, <2>3
<1>7. CtxOK'
  <2>1. \A c \in 0..contextID : c \in 0..contextID'
    BY <1>6
  <2>2. \A c \in 1..contextID : c \in 1..contextID'
    BY <1>6
  <2>3. /\ contextID \in Nat /\ contextID' \in {contextID, contextID + 1}
        /\ contextStack \in Seq(1..contextID) /\ buffers \in Seq(1..contextID)
        /\ contextStack' = contextStack /\ buffers' = buffers
    BY <1>1, <1>6 DEF Inv, CtxOK
  <2>4. contextStack' \in Seq(1..contextID') /\ buffers' \in Seq(1..contextID')
    BY <2>3, SeqWider
  <2>5. QED
    BY <1>1, <1>4, <1>6, <2>1, <2>2, <2>4 DEF Inv, CtxOK, Reading, Top, locVars
<1>8. DefOK'
  BY <1>1, <1>5, <1>6 DEF Inv, DefOK
<1>9. TextOK'
  <2>1. CASE internalFlag
    <3>1. << >> \in Seq(Texts)
      OBVIOUS
    <3>2. QED
      BY <2>1, <3>1 DEF EndDefine, Collected, TextOK
  <2>2. CASE ~internalFlag
    <3>1. strVec = << >> /\ ~hasLoc
      BY <1>1, <2>2, NothingCollected
         DEF Reading, Collecting, State, Comments, FileNames
    <3>2. QED
      BY <1>1, <2>2, <3>1 DEF Inv, TextOK, EndDefine, textVars
  <2>3. QED
    BY <2>1, <2>2
<1>10. FlagOK'
  BY <1>1, <1>4 DEF Inv, FlagOK
<1>11. QED
  BY <1>4, <1>7, <1>8, <1>9, <1>10 DEF Inv

\* What is left of a sequence without its last element.
LEMMA FrontType ==
    ASSUME NEW T, NEW q \in Seq(T), q # << >>
    PROVE  SubSeq(q, 1, Len(q) - 1) \in Seq(T)
<1>1. Len(q) \in Nat /\ \A i \in 1..Len(q) : q[i] \in T
  OBVIOUS
<1>2. Len(q) - 1 \in Int /\ \A i \in 1..(Len(q) - 1) : q[i] \in T
  BY <1>1
<1>3. QED
  BY <1>2, SubSeqProperties

\* A stream ends: the context is dropped, and nothing is read any more.
LEMMA EndOfStreamStep ==
    ASSUME Inv, EndOfStream PROVE Inv'
<1>1. /\ UNCHANGED <<contextID, buffers, textVars, defVars, locVars, unterminated>>
      /\ spent' = TRUE /\ phase = "lexing"
      /\ contextStack' = SubSeq(contextStack, 1, Len(contextStack) - 1)
      /\ phase' \in {"lexing", "ended"}
      /\ phase' = "lexing" => contextStack' # << >> /\ startStack' = startStack
  BY DEF EndOfStream
<1>2. contextStack' \in Seq(1..contextID)
  <2>1. contextStack \in Seq(1..contextID) /\ contextStack # << >>
    BY <1>1 DEF Inv, CtxOK
  <2>2. QED
    BY <1>1, <2>1, FrontType
<1>3. CtxOK'
  BY <1>1, <1>2 DEF Inv, CtxOK, Reading, locVars
<1>4. /\ StackOK(startStack')
      /\ Len(startStack') \in Nat /\ Len(startStack') <= Len(startStack)
      /\ \A i \in 1..Len(startStack') : startStack'[i] = startStack[i]
  <2>1. CASE startStack' = startStack
    BY <2>1, StateType DEF Inv
  <2>2. CASE startStack' # startStack
    <3>1. /\ State = "IN_STRING"
          /\ startStack' = SubSeq(startStack, 1, Len(startStack) - 1)
      BY <2>2 DEF EndOfStream
    <3>2. 1 < Len(startStack) /\ Len(startStack) \in Nat
      BY <3>1, StateType
    <3>3. QED
      BY <3>1, <3>2, StackPop DEF Inv
  <2>3. QED
    BY <2>1, <2>2
<1>5. DefOK'
  BY <1>1, <1>4, StateType DEF Inv, DefOK, defVars
<1>6. TextOK'
  BY <1>1 DEF Inv, TextOK, textVars, defVars, Collecting
<1>7. FlagOK'
  BY <1>1 DEF Inv, FlagOK
<1>8. QED
  BY <1>3, <1>4, <1>5, <1>6, <1>7 DEF Inv

-----------------------------------------------------------------------------
(* The theorems.                                                           *)

LEMMA InvStep == Inv /\ [Next]_vars => Inv'
<1> SUFFICES ASSUME Inv, [Next]_vars PROVE Inv'
  OBVIOUS
<1>1. CASE \/ \E s \in Comments : OpenComment(s)
           \/ CloseComment
           \/ Hash
           \/ OpenString
           \/ \E s \in {"IN_PPD_INCL", "IN_PPD_DEFINE"} : Dispatch(s)
           \/ EndDirective
           \/ \E s \in FileNames : OpenFileName(s)
  BY <1>1, DirectiveSteps
<1>2. CASE \/ \E t \in Texts : FileNameText(t)
           \/ SkipText
           \/ \E t \in Texts : DefineText(t)
           \/ \E t \in Texts : StringText(t)
  BY <1>2, TextSteps
<1>3. CASE InvalidLexeme \/ (\E m \in Macros : UseMacro(m)) \/ Stopped
  BY <1>3, StopSteps
<1>4. CASE Token \/ CloseString
  BY <1>4, TokenSteps
<1>5. CASE CloseFileName
  BY <1>5, CloseFileNameStep
<1>6. CASE EndLineInFileName
  BY <1>6, EndLineInFileNameStep
<1>7. CASE \E m \in Macros : DefineName(m)
  BY <1>7, DefineNameStep
<1>8. CASE EndDefine
  BY <1>8, EndDefineStep
<1>9. CASE EndOfStream
  BY <1>9, EndOfStreamStep
<1>10. CASE UNCHANGED vars
  <2>1. CtxOK' /\ FlagOK'
    BY <1>10, OthersStay DEF vars, flexVars
  <2>2. StackOK(startStack') /\ DefOK' /\ TextOK'
    BY <1>10 DEF vars, Inv, DefOK, TextOK, flexVars, defVars, ctxVars, textVars,
       Collecting
  <2>3. QED
    BY <2>1, <2>2 DEF Inv
<1>11. QED
  BY <1>1, <1>2, <1>3, <1>4, <1>5, <1>6, <1>7, <1>8, <1>9, <1>10 DEF Next

\* The invariant holds of every state the scanner can be in.
THEOREM ScannerInv == Spec => []Inv
<1>1. QED
  BY InvInit, InvStep, PTL DEF Spec

\* The state of the scanner has its type; flex's stack is never empty.
THEOREM ScannerTypes == Spec => []TypeOK
<1>1. QED
  BY ScannerInv, InvTypes, PTL

\* What is read is the innermost context that is open.
THEOREM InnermostIsRead == Spec => []ReadsInnermost
<1>1. Inv => ReadsInnermost
  BY DEF Inv, CtxOK, ReadsInnermost
<1>2. QED
  BY <1>1, ScannerInv, PTL

\* flex stops for want of a start condition after an unterminated name only.
THEOREM UnderflowIsExplained == Spec => []UnderflowExplained
<1>1. Inv => UnderflowExplained
  BY DEF Inv, FlagOK, UnderflowExplained
<1>2. QED
  BY <1>1, ScannerInv, PTL

\* In INITIAL no text is left of any file name, macro or string, whatever came
\* between; of the other start conditions nothing is said.
THEOREM NothingIsLeftOver == Spec => []NothingLeftOver
<1>1. Inv => NothingLeftOver
  <2>1. State = "INITIAL" =>
            State \notin Comments /\ ~Collecting(Len(startStack))
    BY DEF Comments, Collecting, FileNames, State
  <2>2. QED
    BY <2>1, NothingCollected DEF NothingLeftOver
<1>2. QED
  BY <1>1, ScannerInv, PTL

\* The assertion that a macro is registered holds.
THEOREM RegistrationIsSafe == Spec => RegistrationSucceeds
<1>1. Inv /\ [Next]_vars => [EndDefine => phase' = "lexing"]_vars
  BY EndDefineStep
<1>2. QED
  BY <1>1, ScannerInv, PTL DEF Spec, RegistrationSucceeds

\* The location of a token that is not the first of its context is right.
THEOREM LocationsAreRight == Spec => OnlyFirstMislocated
<1>1. Inv /\ [Next]_vars =>
          [(Token \/ CloseString) /\ lastCtx = Top => locCtx = Top]_vars
  BY DEF Inv, CtxOK, Token, CloseString
<1>2. QED
  BY <1>1, ScannerInv, PTL DEF Spec, OnlyFirstMislocated

-----------------------------------------------------------------------------
(* A start condition INITIAL for every buffer.                             *)

Initials(ss) == {i \in 1..Len(ss) : ss[i] = "INITIAL"}

LEMMA InitialsFinite ==
    ASSUME NEW ss, StackOK(ss)
    PROVE  IsFiniteSet(Initials(ss)) /\ Cardinality(Initials(ss)) \in Nat
<1>1. Len(ss) \in Nat
  BY DEF StackOK
<1>2. IsFiniteSet(1..Len(ss))
  BY <1>1, FS_Interval
<1>3. IsFiniteSet(Initials(ss))
  BY <1>2, FS_Subset DEF Initials
<1> QED BY <1>3, FS_CardinalityType

\* One more is pushed with the INITIAL of a file.
LEMMA InitialPushed ==
    ASSUME NEW ss, StackOK(ss)
    PROVE  Cardinality(Initials(Append(ss, "INITIAL"))) = Cardinality(Initials(ss)) + 1
<1>1. ss \in Seq(StartStates) /\ Len(ss) \in Nat
  BY DEF StackOK
<1>2. /\ Len(Append(ss, "INITIAL")) = Len(ss) + 1
      /\ \A i \in 1..Len(ss) : Append(ss, "INITIAL")[i] = ss[i]
      /\ Append(ss, "INITIAL")[Len(ss) + 1] = "INITIAL"
  BY <1>1
<1>3. Initials(Append(ss, "INITIAL")) = Initials(ss) \cup {Len(ss) + 1}
  BY <1>1, <1>2 DEF Initials
<1>4. Len(ss) + 1 \notin Initials(ss)
  BY <1>1 DEF Initials
<1> QED BY <1>3, <1>4, InitialsFinite, FS_AddElement

\* No other part of a step touches an INITIAL.
LEMMA InitialsStay ==
    ASSUME Inv,
           \/ UNCHANGED startStack
           \/ \E s \in StartStates \ {"INITIAL"} : Push(s)
           \/ State # "INITIAL" /\ Pop(1)
           \/ \E s \in StartStates \ {"INITIAL"} : State # "INITIAL" /\ Switch(s)
    PROVE  Initials(startStack') = Initials(startStack)
<1>1. /\ startStack \in Seq(StartStates)
      /\ Len(startStack) \in Nat \ {0}
      /\ State # "INITIAL" => Len(startStack) > 1
  BY StateType DEF Inv, StackOK
<1>2. CASE UNCHANGED startStack
  BY <1>2
<1>3. CASE \E s \in StartStates \ {"INITIAL"} : Push(s)
  <2>1. PICK s \in StartStates \ {"INITIAL"} : startStack' = Append(startStack, s)
    BY <1>3 DEF Push
  <2>2. /\ Len(startStack') = Len(startStack) + 1
        /\ \A i \in 1..Len(startStack) : startStack'[i] = startStack[i]
        /\ startStack'[Len(startStack) + 1] = s
    BY <1>1, <2>1
  <2> QED BY <1>1, <2>2 DEF Initials
<1>4. CASE State # "INITIAL" /\ Pop(1)
  <2>1. /\ Len(startStack') = Len(startStack) - 1
        /\ \A i \in 1..Len(startStack') : startStack'[i] = startStack[i]
    BY <1>4, PopOne
  <2> QED BY <1>1, <1>4, <2>1 DEF Initials, State
<1>5. CASE \E s \in StartStates \ {"INITIAL"} : State # "INITIAL" /\ Switch(s)
  <2>1. PICK s \in StartStates \ {"INITIAL"} :
            startStack' = [startStack EXCEPT ![Len(startStack)] = s]
    BY <1>5 DEF Switch
  <2>2. /\ Len(startStack') = Len(startStack)
        /\ \A i \in 1..Len(startStack) :
               startStack'[i] = IF i = Len(startStack) THEN s ELSE startStack[i]
    BY <1>1, <2>1
  <2> QED BY <1>1, <1>5, <2>2 DEF Initials, State
<1> QED BY <1>2, <1>3, <1>4, <1>5

\* A buffer and an INITIAL are pushed together.
LEMMA CloseFileNameFollows ==
    ASSUME Inv, StatesFollowBuffers, CloseFileName
    PROVE  StatesFollowBuffers'
<1>1. SUFFICES ASSUME phase' = "lexing", ~unterminated'
               PROVE  Cardinality(Initials(startStack')) = Len(buffers')
  BY DEF StatesFollowBuffers, Initials
<1>2. Cardinality(Initials(startStack)) = Len(buffers)
  BY <1>1 DEF CloseFileName, Reading, StatesFollowBuffers, Initials
<1>3. /\ buffers' = Append(buffers, contextID + 1)
      /\ startStack' = Append(startStack, "INITIAL")
  BY <1>1 DEF CloseFileName, Push
<1>4. StackOK(startStack) /\ buffers \in Seq(1..contextID)
  BY DEF Inv, CtxOK
<1>5. Len(buffers') = Len(buffers) + 1
  BY <1>3, <1>4
<1> QED BY <1>2, <1>3, <1>4, <1>5, InitialPushed

\* What leaves the buffers alone leaves every INITIAL where it is, unless the
\* scan stops or the name of a file was not closed.
LEMMA OthersFollow ==
    ASSUME Inv, StatesFollowBuffers, [Next]_vars, ~CloseFileName,
           phase' = "lexing", ~unterminated'
    PROVE  /\ phase = "lexing" /\ ~unterminated /\ buffers' = buffers
           /\ \/ UNCHANGED startStack
              \/ \E s \in StartStates \ {"INITIAL"} : Push(s)
              \/ State # "INITIAL" /\ Pop(1)
              \/ \E s \in StartStates \ {"INITIAL"} : State # "INITIAL" /\ Switch(s)
<1> DEFINE Goal ==
               /\ phase = "lexing" /\ ~unterminated /\ buffers' = buffers
               /\ \/ UNCHANGED startStack
                  \/ \E s \in StartStates \ {"INITIAL"} : Push(s)
                  \/ State # "INITIAL" /\ Pop(1)
                  \/ \E s \in StartStates \ {"INITIAL"} : State # "INITIAL" /\ Switch(s)
<1>1. CASE (\E s \in Comments : OpenComment(s)) \/ Hash \/ OpenString
  <2>1. Comments \cup {"IN_PPD", "IN_STRING"} \subseteq StartStates \ {"INITIAL"}
    BY DEF Comments, StartStates
  <2> QED BY <1>1, <2>1 DEF OpenComment, Hash, OpenString, Reading
<1>2. CASE CloseComment \/ EndDirective \/ CloseString
  BY <1>2 DEF CloseComment, EndDirective, CloseString, Reading, Comments
<1>3. CASE \/ \E s \in {"IN_PPD_INCL", "IN_PPD_DEFINE"} : Dispatch(s)
           \/ \E s \in FileNames : OpenFileName(s)
  <2>1. FileNames \cup {"IN_PPD_INCL", "IN_PPD_DEFINE"} \subseteq StartStates \ {"INITIAL"}
    BY DEF FileNames, StartStates
  <2> QED BY <1>3, <2>1 DEF Dispatch, OpenFileName, Reading
<1>4. CASE \E m \in Macros : DefineName(m)
  BY <1>4 DEF DefineName, Reading, StartStates
<1>5. CASE EndDefine
  BY <1>5 DEF EndDefine, Reading
<1>6. CASE \/ \E t \in Texts : FileNameText(t) \/ DefineText(t) \/ StringText(t)
           \/ SkipText
           \/ Token
  BY <1>6 DEF FileNameText, DefineText, StringText, SkipText, Token, Reading, flexVars
<1>7. CASE InvalidLexeme \/ EndLineInFileName \/ Stopped \/ \E m \in Macros : UseMacro(m)
  BY <1>7 DEF InvalidLexeme, EndLineInFileName, Stopped, UseMacro, vars
<1>8. CASE EndOfStream
  BY <1>8 DEF EndOfStream
<1>9. CASE UNCHANGED vars
  BY <1>9 DEF vars, flexVars
<1>10. CASE Next
  BY <1>10, <1>1, <1>2, <1>3, <1>4, <1>5, <1>6, <1>7, <1>8 DEF Next
<1> QED BY <1>9, <1>10

\* Every buffer is scanned in an INITIAL of its own.
THEOREM StatesAreOfBuffers == Spec => []StatesFollowBuffers
<1>1. Init => StatesFollowBuffers
  <2>1. SUFFICES ASSUME Init PROVE Cardinality(Initials(startStack)) = Len(buffers)
    BY DEF StatesFollowBuffers, Initials
  <2>2. startStack = <<"INITIAL">> /\ buffers = <<1>>
    BY <2>1 DEF Init
  <2>3. Initials(startStack) = {1} /\ Len(buffers) = 1
    BY <2>2 DEF Initials
  <2> QED BY <2>3, FS_Singleton
<1>2. Inv /\ StatesFollowBuffers /\ [Next]_vars => StatesFollowBuffers'
  <2>1. SUFFICES ASSUME Inv, StatesFollowBuffers, [Next]_vars, ~CloseFileName,
                        phase' = "lexing", ~unterminated'
                 PROVE  Cardinality(Initials(startStack')) = Len(buffers')
    BY CloseFileNameFollows DEF StatesFollowBuffers, Initials
  <2>2. /\ phase = "lexing" /\ ~unterminated /\ buffers' = buffers
        /\ \/ UNCHANGED startStack
           \/ \E s \in StartStates \ {"INITIAL"} : Push(s)
           \/ State # "INITIAL" /\ Pop(1)
           \/ \E s \in StartStates \ {"INITIAL"} : State # "INITIAL" /\ Switch(s)
    BY <2>1, OthersFollow
  <2>3. Initials(startStack') = Initials(startStack)
    BY <2>1, <2>2, InitialsStay
  <2>4. Cardinality(Initials(startStack)) = Len(buffers)
    BY <2>1, <2>2 DEF StatesFollowBuffers, Initials
  <2> QED BY <2>2, <2>3, <2>4
<1> QED BY <1>1, <1>2, ScannerInv, PTL DEF Spec
=============================================================================
