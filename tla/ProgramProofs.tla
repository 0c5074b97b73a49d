---------------------------- MODULE ProgramProofs ----------------------------
(***************************************************************************)
(* Proofs about a program that is served, for any programs, search paths   *)
(* and ways to evaluate an expression or an invocation of a macro: what    *)
(* its names mean once it is loaded from its files (Modules), and that     *)
(* concurrent requests never take a route back to the baseline bytecode    *)
(* (JIT), for any requests and thresholds.                                 *)
(***************************************************************************)
EXTENDS JIT, Modules, TLAPS

-----------------------------------------------------------------------------
(* Loading: the inductive invariant.  A name that is not bound when it      *)
(* should be is one that a file on the stack has still to register, and     *)
(* each file on the stack is the one that the import statement below it     *)
(* names.                                                                   *)

FrameType == [file : DOMAIN program.files, at : Nat \ {0}, left : SUBSET UNION {Exports(p) : p \in DOMAIN program.files}, named : Nat]

\* What the globals are while the program is loaded, and were at its end.
Environment == IF status = "loaded" THEN atLoad ELSE globals

Shape ==
  /\ program \in Programs
  /\ stack \in Seq(FrameType) /\ Len(stack) > 0
  /\ stack[1].file = program.main
  /\ cache \subseteq DOMAIN program.files
  /\ status = "loaded" => Len(stack) = 1 /\ ~AtItem

\* A frame that is not the innermost is at an import statement, and the next is the file it names.
Awaits ==
  /\ \A i \in 2..Len(stack) : stack[i].file \in cache /\ stack[i].left \subseteq Exports(stack[i].file)
  /\ \A i \in 1..(Len(stack) - 1) : stack[i].at \in DOMAIN ItemsOf(i) /\ IsImport(ItemsOf(i)[stack[i].at])
  /\ Len(stack) > 1 => /\ stack[2].file = Resolved(Main[stack[1].at], program.main)
                       /\ stack[2].named <= Len(Main[stack[1].at][3])

FunctionsBound == DOMAIN functions \subseteq DOMAIN Environment

\* A frame has still to register a function of this name.
Pending(n) == \E i \in 2..Len(stack) : n \in stack[i].left /\ IsFunction(Exported(stack[i].file, n))

Siblings == \A n \in FunctionNames : n \in DOMAIN functions \/ Pending(n)

LoadInv == Shape /\ Awaits /\ FunctionsBound /\ Siblings

-----------------------------------------------------------------------------
\* How many frames there are.
LEMMA Numbers == \A n \in Nat : 0 <= n /\ (n > 0 => n = 1 \/ n > 1) /\ (n > 1 => n = 2 \/ n > 2)
  OBVIOUS

LEMMA BeyondTwo == \A n \in Nat : n > 2 => n # 2 /\ (n # 3 => 2 \in 1..(n - 2))
  OBVIOUS

\* The files say the same throughout.
LEMMA SameProgram ==
  ASSUME program' = program
  PROVE  /\ Main' = Main
         /\ \A f : Exports(f)' = Exports(f)
         /\ \A f, n : Exported(f, n)' = Exported(f, n)
         /\ \A f : ImportsOf(f)' = ImportsOf(f)
         /\ \A item, f : Resolved(item, f)' = Resolved(item, f)
         /\ \A f : NamespaceOf(f)' = NamespaceOf(f)
<1>1. Main' = Main
  BY DEF Main
<1>2. ASSUME NEW f PROVE Exporting(f)' = Exporting(f)
  BY DEF Exporting
<1>3. ASSUME NEW f PROVE Exports(f)' = Exports(f)
  BY <1>2 DEF Exports
<1>4. ASSUME NEW f, NEW n PROVE Exported(f, n)' = Exported(f, n)
  BY <1>2 DEF Exported
<1>5. ASSUME NEW f PROVE ImportsOf(f)' = ImportsOf(f)
  BY DEF ImportsOf
<1>6. ASSUME NEW item, NEW f PROVE Resolved(item, f)' = Resolved(item, f)
  <2>1. ASSUME NEW p PROVE FindGlyphFile(p)' = FindGlyphFile(p)
    BY DEF FindGlyphFile
  <2>2. ASSUME NEW s PROVE Searched(s)' = Searched(s)
    BY <2>1 DEF Searched
  <2> QED BY <2>1, <2>2 DEF Resolved, ResolvePath
<1>7. ASSUME NEW f PROVE NamespaceOf(f)' = NamespaceOf(f)
  BY <1>3, <1>4 DEF NamespaceOf
<1> QED BY <1>1, <1>3, <1>4, <1>5, <1>6, <1>7

\* Nothing is loaded at first.
LEMMA InitLoadInv == LoadInit => LoadInv
<1> SUFFICES ASSUME LoadInit PROVE LoadInv
  OBVIOUS
<1>1. Len(stack) = 1 /\ stack[1].file = program.main /\ status = "loading"
  BY DEF LoadInit
<1>2. program.main \in DOMAIN program.files
  BY ProgramsAssumption DEF LoadInit
<1>3. stack \in Seq(FrameType)
  BY <1>2 DEF LoadInit, FrameType
<1>4. Shape /\ Awaits
  BY <1>1, <1>3 DEF LoadInit, Shape, Awaits
<1>5. FunctionsBound /\ Siblings
  BY <1>1 DEF LoadInit, FunctionsBound, Siblings, Environment, FunctionNames, NoFields
<1> QED BY <1>4, <1>5 DEF LoadInv

\* What is known of the innermost frame, and of the import statement it was loaded for.
LEMMA InnermostFrame ==
  ASSUME Shape, Awaits
  PROVE  /\ Len(stack) \in Nat /\ DOMAIN stack = 1..Len(stack)
         /\ \A i \in 1..Len(stack) : stack[i] \in FrameType
         /\ Frame = stack[Len(stack)] /\ Frame \in FrameType
         /\ \A i \in 1..Len(stack) : IsSequence(ItemsOf(i))
         /\ IsSequence(Main) /\ ItemsOf(1) = Main
         /\ Len(stack) > 1 => Importing \in ImportsOf(stack[Len(stack) - 1].file) /\ IsSequence(Importing[3])
         /\ Len(stack) = 2 => Importing = Main[stack[1].at]
         /\ \A i \in DOMAIN Main : IsImport(Main[i]) => IsSequence(Main[i][3])
<1>1. Len(stack) \in Nat /\ DOMAIN stack = 1..Len(stack) /\ \A i \in 1..Len(stack) : stack[i] \in FrameType
  BY DEF Shape
<1>2. Frame = stack[Len(stack)] /\ Frame \in FrameType
  BY <1>1 DEF Shape, Frame, Last
<1>3. \A i \in 1..Len(stack) : stack[i].file \in DOMAIN program.files
  BY <1>1 DEF FrameType
<1>4. \A p \in DOMAIN program.files :
        /\ IsSequence(program.files[p])
        /\ \A i \in DOMAIN program.files[p] : IsImport(program.files[p][i]) => IsSequence(program.files[p][i][3])
  BY ProgramsAssumption DEF Shape
<1>5. \A i \in 1..Len(stack) : IsSequence(ItemsOf(i))
  BY <1>3, <1>4 DEF ItemsOf
<1>6. ItemsOf(1) = Main /\ IsSequence(Main)
  BY <1>1, <1>5 DEF Shape, ItemsOf, Main
<1>7. ASSUME Len(stack) > 1
      PROVE  Importing \in ImportsOf(stack[Len(stack) - 1].file) /\ IsSequence(Importing[3])
  <2> DEFINE below == Len(stack) - 1
  <2>1. below \in 1..(Len(stack) - 1) /\ below \in 1..Len(stack)
    BY <1>1, <1>7
  <2>2. stack[below].at \in DOMAIN ItemsOf(below) /\ IsImport(ItemsOf(below)[stack[below].at])
    BY <2>1 DEF Awaits
  <2>3. Importing = ItemsOf(below)[stack[below].at]
    BY DEF Importing
  <2> HIDE DEF below
  <2> QED BY <1>3, <1>4, <2>1, <2>2, <2>3 DEF ItemsOf, ImportsOf, below
<1>8. Len(stack) = 2 => Importing = Main[stack[1].at]
  BY <1>6 DEF Importing
<1>9. \A i \in DOMAIN Main : IsImport(Main[i]) => IsSequence(Main[i][3])
  BY <1>4, ProgramsAssumption DEF Main, Shape
<1> QED BY <1>1, <1>2, <1>5, <1>6, <1>7, <1>8, <1>9

\* The innermost frame becomes this; the others stay.
TopIs(top) ==
  /\ Len(stack') = Len(stack) /\ stack'[Len(stack)] = top
  /\ \A i \in 1..(Len(stack) - 1) : stack'[i] = stack[i]
  /\ \A i \in 1..Len(stack) : stack'[i].file = stack[i].file

\* A step that changes the innermost frame only.
LEMMA TopStep ==
  ASSUME Shape, Awaits, program' = program, cache' = cache, status' = "loading",
         NEW top \in FrameType,
         stack' = [stack EXCEPT ![Len(stack)] = top],
         top.file = Frame.file, top.left \subseteq Frame.left,
         Len(stack) = 2 => top.named <= Len(Importing[3])
  PROVE  Shape' /\ Awaits' /\ TopIs(top)
<1>1. Len(stack) \in Nat /\ Frame = stack[Len(stack)]
  BY InnermostFrame
<1>2. Main' = Main /\ \A p : Exports(p)' = Exports(p)
  BY SameProgram
<1>3. FrameType' = FrameType
  BY <1>2 DEF FrameType
<1>a. stack \in Seq(FrameType) /\ Len(stack) > 0
  BY DEF Shape
<1>b. stack' \in Seq(FrameType) /\ Len(stack') = Len(stack)
  BY <1>1, <1>a
<1>c. stack'[Len(stack)] = top /\ \A i \in 1..(Len(stack) - 1) : stack'[i] = stack[i]
  BY <1>1, <1>a
<1>4. \A i \in 1..Len(stack) : stack'[i].file = stack[i].file /\ stack'[i].left \subseteq stack[i].left
  <2> SUFFICES ASSUME NEW i \in 1..Len(stack)
               PROVE  stack'[i].file = stack[i].file /\ stack'[i].left \subseteq stack[i].left
    OBVIOUS
  <2>1. CASE i = Len(stack)
    BY <1>1, <1>c, <2>1
  <2>2. CASE i # Len(stack)
    <3>1. i \in 1..(Len(stack) - 1)
      BY <1>1, <2>2
    <3> QED BY <1>c, <3>1
  <2> QED BY <2>1, <2>2
<1>5. Shape'
  <2>1. stack'[1].file = stack[1].file
    BY <1>1, <1>4, <1>a
  <2>2. stack' \in Seq(FrameType)' /\ Len(stack') > 0
    BY <1>3, <1>a, <1>b
  <2> QED BY <2>1, <2>2 DEF Shape
<1>6. \A i \in 2..Len(stack) : stack'[i].file \in cache /\ stack'[i].left \subseteq Exports(stack'[i].file)
  BY <1>1, <1>4 DEF Awaits
<1>7. \A i \in 1..(Len(stack) - 1) : ItemsOf(i)' = ItemsOf(i)
  BY <1>c DEF ItemsOf
<1>8. Len(stack) > 1 => stack'[1] = stack[1] /\ stack'[2].file = stack[2].file
  BY <1>1, <1>4, <1>a, <1>c
<1>9. Len(stack) > 1 => stack'[2].named <= Len(Main[stack[1].at][3])
  <2>1. CASE Len(stack) = 2
    <3>1. Importing = Main[stack[1].at]
      BY <2>1, InnermostFrame
    <3>2. stack'[2] = top
      BY <1>c, <2>1
    <3> QED BY <2>1, <3>1, <3>2
  <2>2. CASE Len(stack) > 2
    BY <1>1, <1>c, <1>a, <2>2 DEF Awaits
  <2>3. Len(stack) > 1 => Len(stack) = 2 \/ Len(stack) > 2
    BY <1>1, Numbers
  <2> QED BY <2>1, <2>2, <2>3
<1>10. /\ \A i \in 1..(Len(stack) - 1) : stack'[i].at \in DOMAIN ItemsOf(i) /\ IsImport(ItemsOf(i)[stack'[i].at])
       /\ Len(stack) > 1 => stack'[2].file = Resolved(Main[stack'[1].at], program.main)
  BY <1>c, <1>8 DEF Awaits
<1>11. \A item, p : Resolved(item, p)' = Resolved(item, p)
  BY SameProgram
<1>12. Awaits'
  <2>1. \A i \in 2..Len(stack') : (stack[i].file \in cache /\ stack[i].left \subseteq Exports(stack[i].file))'
    BY <1>2, <1>b, <1>6
  <2>2. \A i \in 1..(Len(stack') - 1) : (stack[i].at \in DOMAIN ItemsOf(i) /\ IsImport(ItemsOf(i)[stack[i].at]))'
    <3> SUFFICES ASSUME NEW i \in 1..(Len(stack) - 1)
                 PROVE  (stack[i].at \in DOMAIN ItemsOf(i) /\ IsImport(ItemsOf(i)[stack[i].at]))'
      BY <1>b
    <3> QED BY <1>7, <1>10
  <2>3. Len(stack') > 1 => (stack[2].file = Resolved(Main[stack[1].at], program.main) /\ stack[2].named <= Len(Main[stack[1].at][3]))'
    BY <1>2, <1>b, <1>8, <1>9, <1>10, <1>11
  <2> QED BY <2>1, <2>2, <2>3 DEF Awaits
<1>13. TopIs(top)
  BY <1>4, <1>b, <1>c DEF TopIs
<1> QED BY <1>5, <1>12, <1>13

\* An item that is done.
LEMMA NextItemStep ==
  ASSUME Shape, Awaits, Loading, Proceeds, NextItem
  PROVE  Shape' /\ Awaits' /\ TopIs([Frame EXCEPT !.at = @ + 1])
<1> DEFINE top == [Frame EXCEPT !.at = @ + 1]
<1>1. Frame = stack[Len(stack)] /\ Frame \in FrameType /\ (Len(stack) = 2 => Importing = Main[stack[1].at])
  BY InnermostFrame
<1>2. top \in FrameType /\ top.file = Frame.file /\ top.left \subseteq Frame.left /\ top.named = Frame.named
  BY <1>1 DEF FrameType
<1>3. stack' = [stack EXCEPT ![Len(stack)] = top]
  BY <1>1 DEF NextItem
<1>4. Len(stack) = 2 => Frame.named <= Len(Importing[3])
  BY <1>1 DEF Awaits
<1> HIDE DEF top
<1>5. Shape' /\ Awaits' /\ TopIs(top)
  BY <1>2, <1>3, <1>4, TopStep DEF Loading, Proceeds
<1> QED BY <1>5 DEF top

\* An export that was registered or passed over.
LEMMA RegisterStep ==
  ASSUME Shape, Awaits, Loading, Proceeds, NEW n, stack' = [stack EXCEPT ![Len(stack)].left = @ \ {n}]
  PROVE  Shape' /\ Awaits' /\ TopIs([Frame EXCEPT !.left = @ \ {n}])
<1> DEFINE top == [Frame EXCEPT !.left = @ \ {n}]
<1>1. Frame = stack[Len(stack)] /\ Frame \in FrameType /\ (Len(stack) = 2 => Importing = Main[stack[1].at])
  BY InnermostFrame
<1>2. top \in FrameType /\ top.file = Frame.file /\ top.left \subseteq Frame.left /\ top.named = Frame.named
  BY <1>1 DEF FrameType
<1>3. stack' = [stack EXCEPT ![Len(stack)] = top]
  BY <1>1
<1>4. Len(stack) = 2 => Frame.named <= Len(Importing[3])
  BY <1>1 DEF Awaits
<1> HIDE DEF top
<1>5. Shape' /\ Awaits' /\ TopIs(top)
  BY <1>2, <1>3, <1>4, TopStep DEF Loading, Proceeds
<1> QED BY <1>5 DEF top

\* A name that was bound.
LEMMA NameStep ==
  ASSUME Shape, Awaits, Loading, Proceeds, Len(stack) > 1, Frame.named < Len(Importing[3]),
         stack' = [stack EXCEPT ![Len(stack)].named = @ + 1]
  PROVE  Shape' /\ Awaits' /\ TopIs([Frame EXCEPT !.named = @ + 1])
<1> DEFINE top == [Frame EXCEPT !.named = @ + 1]
<1>1. Frame = stack[Len(stack)] /\ Frame \in FrameType
  BY InnermostFrame
<1>2. top \in FrameType /\ top.file = Frame.file /\ top.left \subseteq Frame.left /\ top.named = Frame.named + 1
  BY <1>1 DEF FrameType
<1>3. stack' = [stack EXCEPT ![Len(stack)] = top]
  BY <1>1
<1>4. Frame.named + 1 <= Len(Importing[3])
  <2>1. Frame.named \in Nat
    BY <1>1 DEF FrameType
  <2>2. Len(Importing[3]) \in Nat
    BY InnermostFrame, Zenon DEF IsSequence
  <2> QED BY <2>1, <2>2
<1> HIDE DEF top
<1>5. Shape' /\ Awaits' /\ TopIs(top)
  BY <1>2, <1>3, <1>4, TopStep DEF Loading, Proceeds
<1> QED BY <1>5 DEF top

\* A step that leaves the frames alone.
LEMMA SameFrames ==
  ASSUME Shape, Awaits, program' = program, cache' = cache, stack' = stack,
         status' = "loaded" => Len(stack) = 1 /\ ~AtItem
  PROVE  Shape' /\ Awaits'
<1>1. FrameType' = FrameType
  <2>1. \A f : Exports(f)' = Exports(f)
    BY SameProgram
  <2> QED BY <2>1 DEF FrameType
<1>2. \A i : ItemsOf(i)' = ItemsOf(i)
  BY DEF ItemsOf
<1>3. AtItem' = AtItem
  BY <1>2 DEF AtItem, Frame
<1>4. Shape'
  BY <1>1, <1>3 DEF Shape
<1>5. Awaits'
  BY <1>2, SameProgram DEF Awaits
<1> QED BY <1>4, <1>5

\* An import that is begun.
LEMMA PushStep ==
  ASSUME Shape, Awaits, AtItem, IsImport(Item), program' = program, status' = "loading",
         NEW file \in DOMAIN program.files, file = Resolved(Item, Frame.file), cache' = cache \cup {file},
         stack' = Append(stack, [file |-> file, at |-> 1, left |-> Exports(file), named |-> 0])
  PROVE  /\ Shape' /\ Awaits'
         /\ Len(stack') = Len(stack) + 1
         /\ stack'[Len(stack) + 1] = [file |-> file, at |-> 1, left |-> Exports(file), named |-> 0]
         /\ \A i \in 1..Len(stack) : stack'[i] = stack[i]
<1> DEFINE new == [file |-> file, at |-> 1, left |-> Exports(file), named |-> 0]
           depth == Len(stack)
<1>1. depth \in Nat /\ depth > 0 /\ stack \in Seq(FrameType) /\ Frame = stack[depth]
  BY InnermostFrame DEF Shape
<1>2. Main' = Main /\ (\A p : Exports(p)' = Exports(p)) /\ (\A item, p : Resolved(item, p)' = Resolved(item, p))
  BY SameProgram
<1>3. FrameType' = FrameType
  BY <1>2 DEF FrameType
<1>4. new \in FrameType
  BY DEF FrameType
<1>5. /\ stack' \in Seq(FrameType) /\ Len(stack') = depth + 1
      /\ stack'[depth + 1] = new
      /\ \A i \in 1..depth : stack'[i] = stack[i]
  BY <1>1, <1>4
<1> HIDE DEF new, depth
<1>6. \A i \in 1..depth : ItemsOf(i)' = ItemsOf(i)
  BY <1>5 DEF ItemsOf
<1>7. 1 \in 1..depth
  BY <1>1
<1>8. Shape'
  <2>1. stack' \in Seq(FrameType)' /\ Len(stack') > 0
    BY <1>1, <1>3, <1>5
  <2>2. stack'[1].file = program.main /\ cache' \subseteq DOMAIN program.files
    BY <1>5, <1>7 DEF Shape
  <2> QED BY <2>1, <2>2 DEF Shape
<1>9. ASSUME NEW i \in 2..(depth + 1)
      PROVE  (stack[i].file \in cache /\ stack[i].left \subseteq Exports(stack[i].file))'
  <2>1. CASE i = depth + 1
    BY <1>2, <1>5, <2>1 DEF new
  <2>2. CASE i # depth + 1
    <3>1. i \in 2..depth /\ i \in 1..depth
      BY <1>1, <2>2
    <3>2. stack[i].file \in cache /\ stack[i].left \subseteq Exports(stack[i].file)
      BY <3>1 DEF Awaits, depth
    <3> QED BY <1>2, <1>5, <3>1, <3>2
  <2> QED BY <2>1, <2>2
<1>10. ASSUME NEW i \in 1..depth
       PROVE  (stack[i].at \in DOMAIN ItemsOf(i) /\ IsImport(ItemsOf(i)[stack[i].at]))'
  <2>1. CASE i = depth
    <3>1. stack[i].at \in DOMAIN ItemsOf(i) /\ IsImport(ItemsOf(i)[stack[i].at])
      BY <1>1, <2>1 DEF AtItem, Item, depth
    <3> QED BY <1>5, <1>6, <3>1
  <2>2. CASE i # depth
    <3>1. i \in 1..(depth - 1)
      BY <1>1, <2>2
    <3>2. stack[i].at \in DOMAIN ItemsOf(i) /\ IsImport(ItemsOf(i)[stack[i].at])
      BY <3>1 DEF Awaits, depth
    <3> QED BY <1>5, <1>6, <3>2
  <2> QED BY <2>1, <2>2
<1>11. (stack[2].file = Resolved(Main[stack[1].at], program.main) /\ stack[2].named <= Len(Main[stack[1].at][3]))'
  <2>1. CASE depth = 1
    <3>1. stack'[2] = new /\ stack'[1] = stack[1]
      BY <1>5, <1>7, <2>1
    <3>2. Item = Main[stack[1].at] /\ Frame.file = program.main /\ stack[1].at \in DOMAIN Main
      <4>1. Len(stack) = 1 /\ Frame = stack[1] /\ stack[1].file = program.main
        BY <1>1, <2>1 DEF Shape, depth
      <4>2. ItemsOf(Len(stack)) = Main
        BY <4>1, InnermostFrame
      <4> QED BY <4>1, <4>2 DEF Item, AtItem
    <3>3. 0 <= Len(Main[stack[1].at][3])
      <4>1. \A i \in DOMAIN Main : IsImport(Main[i]) => IsSequence(Main[i][3])
        BY InnermostFrame
      <4>2. IsSequence(Main[stack[1].at][3])
        BY <3>2, <4>1
      <4>3. Len(Main[stack[1].at][3]) \in Nat
        BY <4>2, Zenon DEF IsSequence
      <4> QED BY <4>3, Numbers
    <3>4. new.file = file /\ new.named = 0
      BY DEF new
    <3>5. file = Resolved(Main[stack[1].at], program.main)
      BY <3>2
    <3> QED BY <1>2, <3>1, <3>3, <3>4, <3>5
  <2>2. CASE depth > 1
    <3>1. 2 \in 1..depth
      BY <1>1, <2>2
    <3>2. stack'[2] = stack[2] /\ stack'[1] = stack[1]
      BY <1>5, <1>7, <3>1
    <3>3. stack[2].file = Resolved(Main[stack[1].at], program.main) /\ stack[2].named <= Len(Main[stack[1].at][3])
      BY <2>2 DEF Awaits, depth
    <3> QED BY <1>2, <3>2, <3>3
  <2>3. depth = 1 \/ depth > 1
    BY <1>1
  <2> QED BY <2>1, <2>2, <2>3
<1>12. Len(stack') - 1 = depth
  BY <1>1, <1>5
<1>13. Awaits'
  BY <1>5, <1>9, <1>10, <1>11, <1>12 DEF Awaits
<1> QED BY <1>5, <1>8, <1>13 DEF depth, new

\* An import that is finished.
LEMMA PopStep ==
  ASSUME Shape, Awaits, Len(stack) > 1, Return, program' = program, cache' = cache, status' = "loading"
  PROVE  /\ Shape' /\ Awaits'
         /\ Len(stack') = Len(stack) - 1
         /\ \A i \in 1..(Len(stack) - 1) : stack'[i].file = stack[i].file /\ stack'[i].left = stack[i].left
         /\ \A i \in 1..(Len(stack) - 2) : stack'[i] = stack[i]
         /\ stack'[Len(stack) - 1] = [stack[Len(stack) - 1] EXCEPT !.at = @ + 1]
<1> DEFINE depth == Len(stack)
           above == depth - 1
           next1 == [stack[above] EXCEPT !.at = @ + 1]
<1>1. depth \in Nat /\ stack \in Seq(FrameType) /\ above \in 1..depth /\ above \in Nat /\ above + 1 = depth
  BY InnermostFrame DEF Shape
<1>2. Main' = Main /\ (\A p : Exports(p)' = Exports(p)) /\ (\A item, p : Resolved(item, p)' = Resolved(item, p))
  BY SameProgram
<1>3. FrameType' = FrameType
  BY <1>2 DEF FrameType
<1>4. stack[above] \in FrameType
  BY <1>1
<1>5. next1 \in FrameType /\ next1.file = stack[above].file /\ next1.left = stack[above].left /\ next1.named = stack[above].named
  <2>1. ASSUME NEW frame \in FrameType
        PROVE  LET later == [frame EXCEPT !.at = @ + 1]
               IN  later \in FrameType /\ later.file = frame.file /\ later.left = frame.left /\ later.named = frame.named
    BY DEF FrameType
  <2> QED
    BY <1>4, <2>1
<1>6. /\ Front(stack) \in Seq(FrameType) /\ Len(Front(stack)) = above
      /\ \A i \in 1..above : Front(stack)[i] = stack[i]
  BY <1>1 DEF Front
<1>7. stack' = [Front(stack) EXCEPT ![above] = next1]
  <2>1. Front(stack)[above] = stack[above]
    BY <1>1, <1>6
  <2> QED BY <2>1 DEF Return
<1> HIDE DEF next1, above, depth
<1>8. /\ stack' \in Seq(FrameType) /\ Len(stack') = above
      /\ stack'[above] = next1
      /\ \A i \in 1..(above - 1) : stack'[i] = stack[i]
  BY <1>1, <1>5, <1>6, <1>7
<1>9. ASSUME NEW i \in 1..above
      PROVE  stack'[i].file = stack[i].file /\ stack'[i].left = stack[i].left /\ stack'[i].named = stack[i].named
  <2>1. CASE i = above
    BY <1>5, <1>8, <2>1
  <2>2. CASE i # above
    <3>1. i \in 1..(above - 1)
      BY <1>1, <2>2
    <3> QED BY <1>8, <3>1
  <2> QED BY <2>1, <2>2
<1>10. Shape'
  <2>1. stack' \in Seq(FrameType)' /\ Len(stack') > 0 /\ 1 \in 1..above
    BY <1>1, <1>3, <1>8
  <2> QED BY <1>9, <2>1 DEF Shape
<1>11. ASSUME NEW i \in 2..above
       PROVE  (stack[i].file \in cache /\ stack[i].left \subseteq Exports(stack[i].file))'
  <2>1. i \in 2..depth /\ i \in 1..above
    BY <1>1
  <2>2. stack[i].file \in cache /\ stack[i].left \subseteq Exports(stack[i].file)
    BY <2>1 DEF Awaits, depth
  <2> QED BY <1>2, <1>9, <2>1, <2>2
<1>12. ASSUME NEW i \in 1..(above - 1)
       PROVE  (stack[i].at \in DOMAIN ItemsOf(i) /\ IsImport(ItemsOf(i)[stack[i].at]))'
  <2>1. i \in 1..(depth - 1) /\ stack'[i] = stack[i]
    BY <1>1, <1>8
  <2>2. stack[i].at \in DOMAIN ItemsOf(i) /\ IsImport(ItemsOf(i)[stack[i].at])
    BY <2>1 DEF Awaits, depth
  <2>3. ItemsOf(i)' = ItemsOf(i)
    BY <2>1 DEF ItemsOf
  <2> QED BY <2>1, <2>2, <2>3
<1>13. ASSUME above > 1
       PROVE  (stack[2].file = Resolved(Main[stack[1].at], program.main) /\ stack[2].named <= Len(Main[stack[1].at][3]))'
  <2>1. 1 \in 1..(above - 1) /\ 2 \in 1..above /\ depth > 1
    BY <1>1, <1>13
  <2>2. stack'[1] = stack[1] /\ stack'[2].file = stack[2].file /\ stack'[2].named = stack[2].named
    BY <1>8, <1>9, <2>1
  <2>3. stack[2].file = Resolved(Main[stack[1].at], program.main) /\ stack[2].named <= Len(Main[stack[1].at][3])
    BY <2>1 DEF Awaits, depth
  <2> QED BY <1>2, <2>2, <2>3
<1>14. Awaits'
  BY <1>8, <1>11, <1>12, <1>13 DEF Awaits
<1>15. depth - 2 = above - 1
  BY <1>1 DEF above
<1> QED BY <1>8, <1>9, <1>10, <1>14, <1>15 DEF depth, above, next1

\* Every step keeps the stack in order.
LEMMA StepFrames ==
  ASSUME Shape, Awaits, [LoadNext \/ ServesOnly]_loadVars
  PROVE  Shape' /\ Awaits'
<1>2. ASSUME Loading, LoadFails PROVE Shape' /\ Awaits'
  BY <1>2, SameFrames DEF Loading, LoadFails
<1>3. ASSUME Loading, Proceeds, UNCHANGED stack PROVE Shape' /\ Awaits'
  BY <1>3, SameFrames DEF Loading, Proceeds
<1>4. ASSUME Loading, Proceeds, NextItem PROVE Shape' /\ Awaits'
  BY <1>4, NextItemStep
<1>5. CASE ProcessImport
  <2> DEFINE file == Resolved(Item, Frame.file)
  <2>1. CASE file \in DOMAIN program.files
    BY <1>5, <2>1, PushStep DEF ProcessImport, Loading
  <2>2. CASE file \notin DOMAIN program.files
    BY <1>2, <1>5, <2>2 DEF ProcessImport
  <2> QED BY <2>1, <2>2
<1>6. CASE SkipItem
  BY <1>4, <1>6 DEF SkipItem
<1>7. CASE LoadModuleInternals
  <2>1. PICK n \in Frame.left : stack' = [stack EXCEPT ![Len(stack)].left = @ \ {n}]
    BY <1>7 DEF LoadModuleInternals
  <2> QED BY <1>7, <2>1, RegisterStep DEF LoadModuleInternals
<1>8. CASE BindName
  <2>1. CASE LoadFails
    BY <1>2, <1>8, <2>1 DEF BindName
  <2>2. CASE Proceeds /\ stack' = [stack EXCEPT ![Len(stack)].named = @ + 1]
    BY <1>8, <2>2, NameStep DEF BindName, Registered
  <2> QED BY <1>8, <2>1, <2>2 DEF BindName
<1>9. CASE FinishImport
  BY <1>9, PopStep DEF FinishImport, Registered, Loading, Proceeds
<1>10. CASE Declare
  BY <1>2, <1>4, <1>10 DEF Declare
<1>11. CASE DefineMacro
  BY <1>4, <1>11 DEF DefineMacro
<1>12. CASE InvokeMacro
  BY <1>2, <1>4, <1>12 DEF InvokeMacro
<1>13. CASE Loaded
  BY <1>13, SameFrames DEF Loaded
<1>14. CASE ServesOnly \/ UNCHANGED loadVars
  BY <1>14, SameFrames DEF ServesOnly, loadVars, Shape
<1> QED BY <1>5, <1>6, <1>7, <1>8, <1>9, <1>10, <1>11, <1>12, <1>13, <1>14 DEF LoadNext

-----------------------------------------------------------------------------
\* A binding that is added to a function or replaces one.
LEMMA Overriding ==
  ASSUME NEW n, NEW v, NEW f
  PROVE  /\ DOMAIN Bind(f, n, v) = DOMAIN f \cup {n}
         /\ DOMAIN f \subseteq DOMAIN Bind(f, n, v)
         /\ Bind(f, n, v)[n] = v
         /\ \A k \in DOMAIN f : k # n => Bind(f, n, v)[k] = f[k]
  BY DEF Bind

\* What a step of the loader does to the names.
LEMMA Growth ==
  ASSUME [LoadNext \/ ServesOnly]_loadVars
  PROVE  /\ program' = program
         /\ DOMAIN functions \subseteq DOMAIN functions'
         /\ DOMAIN Environment \subseteq DOMAIN Environment'
         /\ DOMAIN functions \subseteq DOMAIN Environment => DOMAIN functions' \subseteq DOMAIN Environment'
         /\ ~ProcessImport => cache' = cache
<1>1. ASSUME NEW n, NEW item, DefineAs(n, item)
      PROVE  /\ DOMAIN functions \subseteq DOMAIN functions'
             /\ DOMAIN functions' \subseteq DOMAIN functions \cup {n}
             /\ DOMAIN globals' = DOMAIN globals \cup {n}
  <2>1. DOMAIN globals' = DOMAIN globals \cup {n}
    BY <1>1, Overriding DEF DefineAs
  <2>2. CASE IsFunction(item)
    <3>1. functions' = Bind(functions, n, item[3])
      BY <1>1, <2>2 DEF DefineAs
    <3> QED BY <2>1, <3>1, Overriding
  <2>3. CASE ~IsFunction(item)
    <3>1. functions' = functions
      BY <1>1, <2>3 DEF DefineAs
    <3> QED BY <2>1, <3>1
  <2> QED BY <2>2, <2>3
<1>2. ASSUME Loading, status' # "loaded"
      PROVE  program' = program /\ Environment = globals /\ Environment' = globals'
  BY <1>2 DEF Loading, Environment
<1>3. CASE ProcessImport
  <2>1. Loading /\ UNCHANGED <<functions, globals>> /\ status' # "loaded"
    BY <1>3 DEF ProcessImport, LoadFails, Loading
  <2> QED BY <1>2, <1>3, <2>1
<1>4. CASE SkipItem
  BY <1>2, <1>4 DEF SkipItem, Proceeds, Loading
<1>5. CASE LoadModuleInternals
  <2>1. PICK n : Register(n, Exported(Frame.file, n))
    BY <1>5 DEF LoadModuleInternals
  <2> QED BY <1>1, <1>2, <1>5, <2>1 DEF LoadModuleInternals, Register, Proceeds, Loading, ProcessImport
<1>6. CASE BindName
  <2>1. CASE LoadFails
    BY <1>2, <1>6, <2>1 DEF BindName, LoadFails
  <2>2. CASE Proceeds /\ \E n, item : DefineAs(n, item)
    BY <1>1, <1>2, <1>6, <2>2 DEF BindName, Proceeds, Loading
  <2> QED BY <1>6, <2>1, <2>2 DEF BindName
<1>7. CASE FinishImport
  <2>1. Loading /\ cache' = cache /\ functions' = functions /\ status' # "loaded"
    BY <1>7 DEF FinishImport, Proceeds, Loading
  <2>2. DOMAIN globals \subseteq DOMAIN globals'
    <3>1. globals' = globals \/ globals' = Bind(globals, Namespace(Importing), NamespaceOf(Frame.file))
      BY <1>7 DEF FinishImport
    <3>2. DOMAIN globals \subseteq DOMAIN Bind(globals, Namespace(Importing), NamespaceOf(Frame.file))
      BY Overriding
    <3> QED BY <3>1, <3>2
  <2> QED BY <1>2, <2>1, <2>2
<1>8. CASE Declare
  <2>1. CASE LoadFails
    BY <1>2, <1>8, <2>1 DEF Declare, LoadFails
  <2>2. CASE Proceeds /\ DefineAs(Item[2], Item)
    BY <1>1, <1>2, <1>8, <2>2 DEF Declare, Proceeds, Loading
  <2> QED BY <1>8, <2>1, <2>2 DEF Declare
<1>9. CASE DefineMacro
  BY <1>2, <1>9 DEF DefineMacro, Proceeds, Loading
<1>10. CASE InvokeMacro
  <2>1. CASE LoadFails
    BY <1>2, <1>10, <2>1 DEF InvokeMacro, LoadFails
  <2>2. CASE Proceeds /\ UNCHANGED functions /\ \E left : globals' = Overlaid(globals, left)
    <3>1. DOMAIN globals \subseteq DOMAIN globals'
      BY <2>2 DEF Overlaid
    <3> QED BY <1>2, <1>10, <2>2, <3>1 DEF InvokeMacro, Proceeds, Loading
  <2> QED BY <1>10, <2>1, <2>2 DEF InvokeMacro
<1>11. CASE Loaded
  BY <1>11 DEF Loaded, Environment
<1>12. CASE ServesOnly \/ UNCHANGED loadVars
  BY <1>12 DEF ServesOnly, loadVars, Environment
<1> QED BY <1>3, <1>4, <1>5, <1>6, <1>7, <1>8, <1>9, <1>10, <1>11, <1>12 DEF LoadNext

\* A function is bound in the globals too.
LEMMA StepFunctionsBound ==
  ASSUME FunctionsBound, [LoadNext \/ ServesOnly]_loadVars
  PROVE  FunctionsBound'
  BY Growth DEF FunctionsBound

\* A step that only moves within the items, or binds a name.
LEMMA PendingKept ==
  ASSUME Shape, Awaits, program' = program, NEW n, Pending(n), NEW top, TopIs(top),
         n \in Frame.left /\ IsFunction(Exported(Frame.file, n)) => n \in top.left
  PROVE  Pending(n)'
<1>1. Len(stack) \in Nat /\ Frame = stack[Len(stack)]
  BY InnermostFrame
<1>2. PICK i \in 2..Len(stack) : n \in stack[i].left /\ IsFunction(Exported(stack[i].file, n))
  BY DEF Pending
<1>3. i \in 1..Len(stack) /\ Len(stack') = Len(stack)
  BY <1>1, <1>2 DEF TopIs
<1>4. stack'[i].file = stack[i].file
  BY <1>3 DEF TopIs
<1>5. n \in stack'[i].left
  <2>1. CASE i = Len(stack)
    BY <1>1, <1>2, <2>1 DEF TopIs
  <2>2. CASE i # Len(stack)
    <3>1. i \in 1..(Len(stack) - 1)
      BY <1>1, <1>3, <2>2
    <3> QED BY <1>2, <3>1 DEF TopIs
  <2> QED BY <2>1, <2>2
<1>6. IsFunction(Exported(stack[i].file, n))'
  BY <1>2, <1>4, SameProgram
<1> QED BY <1>2, <1>3, <1>5, <1>6 DEF Pending

\* A step after which every function that was still to be registered is registered, or still to be.
LEMMA SiblingsKept ==
  ASSUME Siblings, program' = program, cache' = cache,
         \A n : Pending(n) => Pending(n)' \/ n \in DOMAIN functions',
         DOMAIN functions \subseteq DOMAIN functions'
  PROVE  Siblings'
<1>1. FunctionNames' = FunctionNames
  BY SameProgram DEF FunctionNames
<1> QED BY <1>1 DEF Siblings

\* No step forgets a function of a file that was loaded.
LEMMA StepSiblings ==
  ASSUME Shape, Awaits, Siblings, [LoadNext \/ ServesOnly]_loadVars
  PROVE  Siblings'
<1>1. program' = program /\ DOMAIN functions \subseteq DOMAIN functions' /\ (~ProcessImport => cache' = cache)
  BY Growth
<1>2. ASSUME UNCHANGED <<stack, cache>> PROVE Siblings'
  <2>1. \A n : Pending(n) => Pending(n)'
    BY <1>1, <1>2, SameProgram DEF Pending
  <2> QED BY <1>1, <1>2, <2>1, SiblingsKept
<1>3. ASSUME Loading, LoadFails PROVE Siblings'
  BY <1>2, <1>3 DEF LoadFails
<1>4. ASSUME Loading, Proceeds, NextItem PROVE Siblings'
  <2>1. TopIs([Frame EXCEPT !.at = @ + 1])
    BY <1>4, NextItemStep
  <2>2. Frame \in FrameType
    BY InnermostFrame
  <2>3. [Frame EXCEPT !.at = @ + 1].left = Frame.left
    BY <2>2 DEF FrameType
  <2>4. \A n : Pending(n) => Pending(n)'
    BY <1>1, <2>1, <2>3, PendingKept
  <2> QED BY <1>1, <1>4, <2>4, SiblingsKept DEF Proceeds
<1>5. CASE ProcessImport
  <2>0. PICK file : file = Resolved(Item, Frame.file)
    OBVIOUS
  <2>1. CASE file \in DOMAIN program.files
    <3>1. cache' = cache \cup {file} /\ functions' = functions
      BY <1>5, <2>0, <2>1 DEF ProcessImport
    <3>2. /\ Len(stack') = Len(stack) + 1
          /\ stack'[Len(stack) + 1] = [file |-> file, at |-> 1, left |-> Exports(file), named |-> 0]
          /\ \A i \in 1..Len(stack) : stack'[i] = stack[i]
      BY <1>5, <2>0, <2>1, PushStep DEF ProcessImport, Loading
    <3>3. Len(stack) \in Nat /\ Len(stack) > 0
      BY InnermostFrame DEF Shape
    <3>4. ASSUME NEW n, Pending(n) PROVE Pending(n)'
      <4>1. PICK i \in 2..Len(stack) : n \in stack[i].left /\ IsFunction(Exported(stack[i].file, n))
        BY <3>4 DEF Pending
      <4>2. i \in 2..Len(stack') /\ stack'[i] = stack[i]
        BY <3>2, <3>3
      <4> QED BY <1>1, <4>1, <4>2, SameProgram DEF Pending
    <3>5. ASSUME NEW n \in Exports(file), IsFunction(Exported(file, n)) PROVE Pending(n)'
      <4>1. Len(stack) + 1 \in 2..Len(stack')
        BY <3>2, <3>3
      <4>2. stack'[Len(stack) + 1].file = file /\ stack'[Len(stack) + 1].left = Exports(file)
        BY <3>2
      <4>3. IsFunction(Exported(file, n))'
        BY <1>1, <3>5, SameProgram
      <4> QED BY <3>5, <4>1, <4>2, <4>3 DEF Pending
    <3>6. ASSUME NEW n \in FunctionNames', n \notin FunctionNames
          PROVE  n \in Exports(file) /\ IsFunction(Exported(file, n))
      <4>1. PICK p \in cache' : (n \in Exports(p) /\ IsFunction(Exported(p, n)))'
        BY <3>6 DEF FunctionNames
      <4>2. n \in Exports(p) /\ IsFunction(Exported(p, n))
        BY <1>1, <4>1, SameProgram
      <4>3. p \notin cache
        BY <3>6, <4>2 DEF FunctionNames
      <4> QED BY <3>1, <4>1, <4>2, <4>3
    <3>7. ASSUME NEW n \in FunctionNames' PROVE n \in DOMAIN functions' \/ Pending(n)'
      <4>1. CASE n \in FunctionNames
        BY <3>1, <3>4, <4>1 DEF Siblings
      <4>2. CASE n \notin FunctionNames
        BY <3>5, <3>6, <4>2
      <4> QED BY <4>1, <4>2
    <3> QED BY <3>7 DEF Siblings
  <2>2. CASE file \notin DOMAIN program.files
    BY <1>3, <1>5, <2>0, <2>2 DEF ProcessImport
  <2> QED BY <2>1, <2>2
<1>6. CASE SkipItem
  BY <1>4, <1>6 DEF SkipItem
<1>7. CASE LoadModuleInternals
  <2>1. PICK n \in Frame.left : /\ Register(n, Exported(Frame.file, n))
                                /\ stack' = [stack EXCEPT ![Len(stack)].left = @ \ {n}]
    BY <1>7 DEF LoadModuleInternals
  <2> DEFINE top == [Frame EXCEPT !.left = @ \ {n}]
  <2>2. TopIs(top)
    BY <1>7, <2>1, RegisterStep DEF LoadModuleInternals
  <2>3. top.left = Frame.left \ {n}
    BY InnermostFrame DEF FrameType
  <2> HIDE DEF top
  <2>4. IsFunction(Exported(Frame.file, n)) => n \in DOMAIN functions'
    <3>1. CASE n \in DOMAIN functions
      BY <1>1, <3>1
    <3>2. CASE n \notin DOMAIN functions /\ IsFunction(Exported(Frame.file, n))
      <4>1. functions' = Bind(functions, n, Exported(Frame.file, n)[3])
        BY <2>1, <3>2 DEF Register, Kept, DefineAs
      <4> QED BY <4>1 DEF Bind
    <3> QED BY <3>1, <3>2
  <2>5. ASSUME NEW m, Pending(m) PROVE Pending(m)' \/ m \in DOMAIN functions'
    <3>1. CASE m = n /\ IsFunction(Exported(Frame.file, n))
      BY <2>4, <3>1
    <3>2. CASE ~(m = n /\ IsFunction(Exported(Frame.file, n)))
      BY <1>1, <2>2, <2>3, <2>5, <3>2, PendingKept
    <3> QED BY <3>1, <3>2
  <2> QED BY <1>1, <1>7, <2>5, SiblingsKept DEF LoadModuleInternals, Proceeds
<1>8. CASE BindName
  <2>1. CASE LoadFails
    BY <1>3, <1>8, <2>1 DEF BindName
  <2>2. CASE Proceeds /\ stack' = [stack EXCEPT ![Len(stack)].named = @ + 1]
    <3>1. TopIs([Frame EXCEPT !.named = @ + 1])
      BY <1>8, <2>2, NameStep DEF BindName, Registered
    <3>2. Frame \in FrameType
      BY InnermostFrame
    <3>3. [Frame EXCEPT !.named = @ + 1].left = Frame.left
      BY <3>2 DEF FrameType
    <3>4. \A n : Pending(n) => Pending(n)'
      BY <1>1, <3>1, <3>3, PendingKept
    <3> QED BY <1>1, <2>2, <3>4, SiblingsKept DEF Proceeds
  <2> QED BY <1>8, <2>1, <2>2 DEF BindName
<1>9. CASE FinishImport
  <2>1. /\ Len(stack) > 1 /\ Frame.left = {} /\ Len(stack') = Len(stack) - 1
        /\ \A i \in 1..(Len(stack) - 1) : stack'[i].file = stack[i].file /\ stack'[i].left = stack[i].left
    BY <1>9, PopStep DEF FinishImport, Registered, Loading, Proceeds
  <2>2. Len(stack) \in Nat /\ Frame = stack[Len(stack)]
    BY InnermostFrame
  <2>3. ASSUME NEW n, Pending(n) PROVE Pending(n)'
    <3>1. PICK i \in 2..Len(stack) : n \in stack[i].left /\ IsFunction(Exported(stack[i].file, n))
      BY <2>3 DEF Pending
    <3>2. i # Len(stack)
      BY <2>1, <2>2, <3>1
    <3>3. i \in 2..Len(stack') /\ i \in 1..(Len(stack) - 1)
      BY <2>1, <2>2, <3>2
    <3>4. stack'[i].file = stack[i].file /\ stack'[i].left = stack[i].left
      BY <2>1, <3>3
    <3>5. IsFunction(Exported(stack[i].file, n))'
      BY <1>1, <3>1, <3>4, SameProgram
    <3> QED BY <3>1, <3>3, <3>4, <3>5 DEF Pending
  <2> QED BY <1>1, <1>9, <2>3, SiblingsKept DEF FinishImport, Proceeds
<1>10. CASE Declare
  BY <1>3, <1>4, <1>10 DEF Declare
<1>11. CASE DefineMacro
  BY <1>4, <1>11 DEF DefineMacro
<1>12. CASE InvokeMacro
  BY <1>3, <1>4, <1>12 DEF InvokeMacro
<1>13. CASE Loaded
  BY <1>2, <1>13 DEF Loaded
<1>14. CASE ServesOnly \/ UNCHANGED loadVars
  BY <1>2, <1>14 DEF ServesOnly, loadVars
<1> QED BY <1>5, <1>6, <1>7, <1>8, <1>9, <1>10, <1>11, <1>12, <1>13, <1>14 DEF LoadNext

\* The invariant is kept.
LEMMA StepLoadInv ==
  ASSUME LoadInv, [LoadNext \/ ServesOnly]_loadVars
  PROVE  LoadInv'
  BY StepFrames, StepFunctionsBound, StepSiblings DEF LoadInv

\* The invariant holds in every state of every behaviour.
THEOREM LoadInvariance == LoadSpec => []LoadInv
  BY InitLoadInv, StepLoadInv, PTL DEF LoadSpec

\* Whatever the files import from each other, once, several times or in a cycle, and in whatever order a
\* Go map gives loadModuleInternals their exports: when LoadModuleWithPath has returned, every function of
\* every file that was loaded can be called by its name.
THEOREM SiblingsBoundHolds == LoadSpec => []SiblingsBound
<1>1. LoadInv => SiblingsBound
  <2> SUFFICES ASSUME LoadInv, status = "loaded", NEW n \in FunctionNames
               PROVE  n \in DOMAIN functions /\ n \in DOMAIN atLoad
    BY DEF SiblingsBound
  <2>1. Len(stack) = 1
    BY DEF LoadInv, Shape
  <2>2. ~Pending(n)
    BY <2>1 DEF Pending
  <2> QED BY <2>2 DEF LoadInv, Siblings, FunctionsBound, Environment
<1> QED BY <1>1, LoadInvariance, PTL

-----------------------------------------------------------------------------
(* What the main file binds: the inductive invariant of ExplicitKept.  At   *)
(* each moment it speaks of the names bound so far: what the main file      *)
(* bound last to a name, it still holds.                                    *)

\* The main file's item k has bound its i-th name.
Reached(k, i) == k < stack[1].at \/ (k = stack[1].at /\ Len(stack) > 1 /\ i <= stack[2].named)

\* The i-th name that the main file's item k binds.
NameOf(k, i) == BoundBy(Main[k])[i]

\* Nothing that was bound later has the name, and no macro was invoked since.
Latest(k, i) ==
  /\ Reached(k, i)
  /\ \A j \in DOMAIN Main :
       /\ j > k /\ j < stack[1].at => Main[j][1] # "invoke"
       /\ \A h \in DOMAIN BoundBy(Main[j]) : Behind(j, h, k, i) /\ Reached(j, h) => NameOf(j, h) # NameOf(k, i)

\* What ExplicitKept says of the name, at any moment; and its constant's value is in the history.
Holds(k, i) ==
  LET n == NameOf(k, i) IN
  /\ NamesFunction(k, i) => n \in DOMAIN functions /\ functions[n] = Definition(k, i)[3]
  /\ NamesFunction(k, i) \/ n \notin FunctionNames => n \in DOMAIN Environment /\ Environment[n] = Meaning(k, i)
  /\ NamesFunction(k, i) \/ IsNamespace(Main[k]) \/ n \in DOMAIN computed

\* A name that no imported file binds in an import statement of its own has the meaning bound last.
Stated ==
  \A k \in DOMAIN Main : \A i \in DOMAIN BoundBy(Main[k]) : Latest(k, i) /\ NameOf(k, i) \notin Rebound => Holds(k, i)

-----------------------------------------------------------------------------
\* The main file says the same throughout.
LEMMA SameMain ==
  ASSUME program' = program
  PROVE  \A k, i : /\ NameOf(k, i)' = NameOf(k, i)
                   /\ Definition(k, i)' = Definition(k, i)
                   /\ NamesFunction(k, i)' = NamesFunction(k, i)
<1>1. Main' = Main
  BY SameProgram
<1>2. ASSUME NEW k, NEW i PROVE Definition(k, i)' = Definition(k, i)
  BY <1>1, SameProgram DEF Definition
<1>3. ASSUME NEW k, NEW i PROVE NamesFunction(k, i)' = NamesFunction(k, i)
  BY <1>1, <1>2 DEF NamesFunction
<1> QED BY <1>1, <1>2, <1>3 DEF NameOf

\* A name that has a value keeps it.
Agrees(n) ==
  /\ n \in DOMAIN functions => n \in DOMAIN functions' /\ functions'[n] = functions[n]
  /\ n \in DOMAIN Environment => n \in DOMAIN Environment' /\ Environment'[n] = Environment[n]
  /\ n \in DOMAIN computed => n \in DOMAIN computed' /\ computed'[n] = computed[n]

\* A step that keeps the name's value, whatever else it loads, keeps what it means.
LEMMA HoldsKept ==
  ASSUME program' = program, cache \subseteq cache', NEW k, NEW i, Holds(k, i), Agrees(NameOf(k, i))
  PROVE  Holds(k, i)'
<1> DEFINE n == NameOf(k, i)
<1>1. Main' = Main /\ n' = n /\ Definition(k, i)' = Definition(k, i) /\ NamesFunction(k, i)' = NamesFunction(k, i)
  BY SameProgram, SameMain
<1>2. FunctionNames \subseteq FunctionNames'
  BY SameProgram DEF FunctionNames
<1>3. ASSUME NamesFunction(k, i) PROVE Meaning(k, i)' = Meaning(k, i)
  BY <1>1, <1>3 DEF Meaning, NamesFunction
<1>4. ASSUME IsNamespace(Main[k]) PROVE Meaning(k, i)' = Meaning(k, i)
  BY <1>1, <1>4, SameProgram DEF Meaning
<1>5. ASSUME ~NamesFunction(k, i), ~IsNamespace(Main[k]) PROVE Meaning(k, i) = computed[n] /\ Meaning(k, i)' = computed'[n]
  BY <1>1, <1>5 DEF Meaning, NameOf
<1>6. Agrees(n)
  OBVIOUS
<1>7. /\ NamesFunction(k, i) => n \in DOMAIN functions /\ functions[n] = Definition(k, i)[3]
      /\ NamesFunction(k, i) \/ n \notin FunctionNames => n \in DOMAIN Environment /\ Environment[n] = Meaning(k, i)
      /\ NamesFunction(k, i) \/ IsNamespace(Main[k]) \/ n \in DOMAIN computed
  BY DEF Holds
<1> HIDE DEF n
<1>8. CASE NamesFunction(k, i)
  BY <1>1, <1>3, <1>6, <1>7, <1>8 DEF Holds, Agrees, n
<1>9. CASE IsNamespace(Main[k]) /\ ~NamesFunction(k, i)
  BY <1>1, <1>2, <1>4, <1>6, <1>7, <1>9 DEF Holds, Agrees, n
<1>10. CASE ~IsNamespace(Main[k]) /\ ~NamesFunction(k, i)
  BY <1>1, <1>2, <1>5, <1>6, <1>7, <1>10 DEF Holds, Agrees, n
<1> QED BY <1>8, <1>9, <1>10

\* The binding of one name leaves the others alone.
LEMMA DefineAsAgrees ==
  ASSUME NEW n, NEW item, DefineAs(n, item), computed' = computed \/ Compute(n, item),
         Environment = globals, Environment' = globals', NEW m, m # n
  PROVE  Agrees(m)
<1>1. m \in DOMAIN functions => m \in DOMAIN functions' /\ functions'[m] = functions[m]
  BY DEF DefineAs, Bind
<1>2. m \in DOMAIN globals => m \in DOMAIN globals' /\ globals'[m] = globals[m]
  BY DEF DefineAs, Bind
<1>3. m \in DOMAIN computed => m \in DOMAIN computed' /\ computed'[m] = computed[m]
  BY DEF Compute, Bind
<1> QED BY <1>1, <1>2, <1>3 DEF Agrees

\* The names of an item are numbered from 1.
LEMMA BoundByDomain ==
  ASSUME Shape, Awaits, NEW k \in DOMAIN Main
  PROVE  /\ \A i \in DOMAIN BoundBy(Main[k]) : i \in Nat /\ i >= 1
         /\ IsImport(Main[k]) /\ Main[k][3] # << >> =>
              /\ DOMAIN BoundBy(Main[k]) = 1..Len(Main[k][3])
              /\ \A i \in DOMAIN BoundBy(Main[k]) : NameOf(k, i) = Main[k][3][i][2]
         /\ IsImport(Main[k]) /\ Main[k][3] = << >> => BoundBy(Main[k]) = <<Namespace(Main[k])>>
         /\ Declares(Main[k]) => BoundBy(Main[k]) = <<Main[k][2]>>
         /\ ~IsImport(Main[k]) /\ ~Declares(Main[k]) => BoundBy(Main[k]) = << >>
<1>1. CASE IsImport(Main[k]) /\ Main[k][3] # << >>
  <2>1. BoundBy(Main[k]) = [i \in DOMAIN Main[k][3] |-> Main[k][3][i][2]] /\ ~Declares(Main[k])
    BY <1>1 DEF BoundBy, IsImport, Declares
  <2>2. DOMAIN Main[k][3] = 1..Len(Main[k][3])
    BY <1>1, InnermostFrame, Zenon DEF IsSequence
  <2>3. Len(Main[k][3]) \in Nat
    BY <1>1, InnermostFrame, Zenon DEF IsSequence
  <2> QED BY <1>1, <2>1, <2>2, <2>3 DEF NameOf
<1>2. CASE IsImport(Main[k]) /\ Main[k][3] = << >>
  <2>1. BoundBy(Main[k]) = <<Namespace(Main[k])>> /\ ~Declares(Main[k])
    BY <1>2 DEF BoundBy, IsImport, Declares
  <2> QED BY <1>2, <2>1
<1>3. CASE Declares(Main[k])
  <2>1. BoundBy(Main[k]) = <<Main[k][2]>> /\ ~IsImport(Main[k])
    BY <1>3 DEF BoundBy, IsImport, Declares
  <2> QED BY <1>3, <2>1
<1>4. CASE ~IsImport(Main[k]) /\ ~Declares(Main[k])
  <2>1. BoundBy(Main[k]) = << >>
    BY <1>4 DEF BoundBy
  <2> QED BY <1>4, <2>1
<1> QED BY <1>1, <1>2, <1>3, <1>4

\* A step that binds nothing for the main file.
LEMMA LatestBack ==
  ASSUME program' = program,
         \A k \in DOMAIN Main : \A i \in DOMAIN BoundBy(Main[k]) : Reached(k, i)' <=> Reached(k, i),
         \A j \in DOMAIN Main : j < stack[1].at => j < stack'[1].at
  PROVE  \A k \in DOMAIN Main : \A i \in DOMAIN BoundBy(Main[k]) : Latest(k, i)' => Latest(k, i)
<1> SUFFICES ASSUME NEW k \in DOMAIN Main, NEW i \in DOMAIN BoundBy(Main[k]), Latest(k, i)'
             PROVE  Latest(k, i)
  OBVIOUS
<1>1. Main' = Main
  BY SameProgram
<1>2. Reached(k, i)
  BY DEF Latest
<1>3. ASSUME NEW j \in DOMAIN Main, j > k, j < stack[1].at PROVE Main[j][1] # "invoke"
  BY <1>1, <1>3 DEF Latest
<1>4. ASSUME NEW j \in DOMAIN Main, NEW h \in DOMAIN BoundBy(Main[j]), Behind(j, h, k, i), Reached(j, h)
      PROVE  NameOf(j, h) # NameOf(k, i)
  <2>1. Reached(j, h)'
    BY <1>4
  <2>2. NameOf(j, h)' # NameOf(k, i)'
    BY <1>1, <1>4, <2>1 DEF Latest
  <2> QED BY <2>2, SameMain
<1> QED BY <1>2, <1>3, <1>4 DEF Latest

\* A step that binds the i-th name of item k.
LEMMA LatestAfter ==
  ASSUME program' = program, NEW K \in DOMAIN Main, NEW I \in DOMAIN BoundBy(Main[K]),
         \A k \in DOMAIN Main : \A i \in DOMAIN BoundBy(Main[k]) : Reached(k, i)' <=> Reached(k, i) \/ (k = K /\ i = I),
         \A k \in DOMAIN Main : \A i \in DOMAIN BoundBy(Main[k]) : Reached(k, i) => Behind(K, I, k, i),
         \A j \in DOMAIN Main : j < stack[1].at => j < stack'[1].at
  PROVE  \A k \in DOMAIN Main : \A i \in DOMAIN BoundBy(Main[k]) :
            Latest(k, i)' => (k = K /\ i = I) \/ (Latest(k, i) /\ NameOf(k, i) # NameOf(K, I))
<1> SUFFICES ASSUME NEW k \in DOMAIN Main, NEW i \in DOMAIN BoundBy(Main[k]), Latest(k, i)', ~(k = K /\ i = I)
             PROVE  Latest(k, i) /\ NameOf(k, i) # NameOf(K, I)
  OBVIOUS
<1>1. Main' = Main
  BY SameProgram
<1>2. Reached(k, i)
  BY DEF Latest
<1>3. ASSUME NEW j \in DOMAIN Main, j > k, j < stack[1].at PROVE Main[j][1] # "invoke"
  BY <1>1, <1>3 DEF Latest
<1>4. ASSUME NEW j \in DOMAIN Main, NEW h \in DOMAIN BoundBy(Main[j]), Behind(j, h, k, i), Reached(j, h)'
      PROVE  NameOf(j, h) # NameOf(k, i)
  <2>1. NameOf(j, h)' # NameOf(k, i)'
    BY <1>1, <1>4 DEF Latest
  <2> QED BY <2>1, SameMain
<1>5. Latest(k, i)
  BY <1>2, <1>3, <1>4 DEF Latest
<1>6. Behind(K, I, k, i) /\ Reached(K, I)'
  BY <1>2
<1>7. NameOf(k, i) # NameOf(K, I)
  BY <1>4, <1>6
<1> QED BY <1>5, <1>7

\* What the main file bound last is what its names mean, if a step that binds the i-th name of item k
\* binds no other.
LEMMA StatedAfter ==
  ASSUME Shape, Awaits, Stated, program' = program, cache' = cache,
         NEW K \in DOMAIN Main, NEW I \in DOMAIN BoundBy(Main[K]),
         \A k \in DOMAIN Main : \A i \in DOMAIN BoundBy(Main[k]) : Reached(k, i)' <=> Reached(k, i) \/ (k = K /\ i = I),
         \A k \in DOMAIN Main : \A i \in DOMAIN BoundBy(Main[k]) : Reached(k, i) => Behind(K, I, k, i),
         \A j \in DOMAIN Main : j < stack[1].at => j < stack'[1].at,
         \A m : m # NameOf(K, I) => Agrees(m),
         Holds(K, I)'
  PROVE  Stated'
<1>1. Main' = Main /\ Rebound' = Rebound
  BY SameProgram DEF Rebound
<1> SUFFICES ASSUME NEW k \in DOMAIN Main, NEW i \in DOMAIN BoundBy(Main[k]), Latest(k, i)', NameOf(k, i) \notin Rebound
             PROVE  Holds(k, i)'
  BY <1>1, SameMain DEF Stated
<1>2. CASE k = K /\ i = I
  BY <1>2
<1>3. CASE Latest(k, i) /\ NameOf(k, i) # NameOf(K, I)
  <2>1. Holds(k, i) /\ Agrees(NameOf(k, i))
    BY <1>3 DEF Stated
  <2> QED BY <2>1, HoldsKept
<1> QED BY <1>2, <1>3, LatestAfter

\* A step that binds nothing for the main file, and replaces no name of its, or none that matters.
LEMMA StatedKept ==
  ASSUME Stated, program' = program, cache \subseteq cache',
         \A k \in DOMAIN Main : \A i \in DOMAIN BoundBy(Main[k]) : Reached(k, i)' <=> Reached(k, i),
         \A j \in DOMAIN Main : j < stack[1].at => j < stack'[1].at,
         \A k \in DOMAIN Main : \A i \in DOMAIN BoundBy(Main[k]) :
            Holds(k, i) /\ NameOf(k, i) \notin Rebound => Agrees(NameOf(k, i)) \/ Holds(k, i)'
  PROVE  Stated'
<1>1. Main' = Main /\ Rebound \subseteq Rebound'
  BY SameProgram DEF Rebound
<1> SUFFICES ASSUME NEW k \in DOMAIN Main, NEW i \in DOMAIN BoundBy(Main[k]), Latest(k, i)', NameOf(k, i) \notin Rebound
             PROVE  Holds(k, i)'
  BY <1>1, SameMain DEF Stated
<1>2. Latest(k, i)
  BY LatestBack
<1>3. Holds(k, i)
  BY <1>2 DEF Stated
<1> QED BY <1>3, HoldsKept

\* How far the main file has come.
LEMMA ReachedNow ==
  ASSUME Shape, Awaits
  PROVE  /\ stack[1].at \in Nat /\ stack[1].at >= 1 /\ stack[1].file = program.main
         /\ \A k \in DOMAIN Main : k \in Nat
         /\ Len(stack) = 1 => Frame = stack[1] /\ Item = Main[stack[1].at] /\ (AtItem => stack[1].at \in DOMAIN Main)
         /\ Len(stack) > 1 => stack[1].at \in DOMAIN Main /\ IsImport(Main[stack[1].at])
         /\ Len(stack) = 2 => Frame = stack[2] /\ Importing = Main[stack[1].at]
<1>1. Len(stack) \in Nat /\ Len(stack) > 0 /\ Frame = stack[Len(stack)] /\ stack[1] \in FrameType
  <2>1. Len(stack) \in Nat /\ Len(stack) > 0
    BY InnermostFrame DEF Shape
  <2>2. 1 \in 1..Len(stack)
    BY <2>1
  <2> QED BY <2>1, <2>2, InnermostFrame
<1>2. stack[1].at \in Nat /\ stack[1].at >= 1
  BY <1>1 DEF FrameType
<1>3. IsSequence(Main) /\ ItemsOf(1) = Main
  BY InnermostFrame
<1>4. DOMAIN Main = 1..Len(Main)
  BY <1>3, Zenon DEF IsSequence
<1>5. \A k \in DOMAIN Main : k \in Nat
  BY <1>4
<1>6. Len(stack) = 1 => Item = Main[stack[1].at] /\ (AtItem => stack[1].at \in DOMAIN Main)
  BY <1>1, <1>3 DEF Item, AtItem
<1>7. Len(stack) > 1 => 1 \in 1..(Len(stack) - 1)
  BY <1>1
<1>8. Len(stack) > 1 => stack[1].at \in DOMAIN Main /\ IsImport(Main[stack[1].at])
  BY <1>3, <1>7 DEF Awaits
<1> QED BY <1>1, <1>2, <1>5, <1>6, <1>8, InnermostFrame DEF Shape

\* While an import is processed, the main file comes on only where the import statement binds names.
LEMMA ReachedTop ==
  ASSUME Shape, Awaits, program' = program, NEW top, TopIs(top), Len(stack) > 1,
         Len(stack) = 2 => top.named = Frame.named
  PROVE  /\ \A k \in DOMAIN Main : \A i \in DOMAIN BoundBy(Main[k]) : Reached(k, i)' <=> Reached(k, i)
         /\ stack'[1].at = stack[1].at
<1>1. Len(stack) \in Nat /\ Frame = stack[Len(stack)] /\ Len(stack') = Len(stack)
  BY InnermostFrame DEF TopIs
<1>2. stack'[1] = stack[1]
  <2>1. 1 \in 1..(Len(stack) - 1)
    BY <1>1
  <2> QED BY <2>1 DEF TopIs
<1>3. stack'[2].named = stack[2].named
  <2>1. CASE Len(stack) = 2
    BY <1>1, <2>1 DEF TopIs
  <2>2. CASE Len(stack) > 2
    <3>1. 2 \in 1..(Len(stack) - 1)
      BY <1>1, <2>2
    <3> QED BY <3>1 DEF TopIs
  <2> QED BY <1>1, <2>1, <2>2, Numbers
<1> QED BY <1>1, <1>2, <1>3 DEF Reached

\* An import that is begun has bound no name.
LEMMA ReachedPush ==
  ASSUME Shape, Awaits, program' = program, Len(stack') = Len(stack) + 1,
         \A i \in 1..Len(stack) : stack'[i] = stack[i],
         stack'[Len(stack) + 1].named = 0
  PROVE  /\ \A k \in DOMAIN Main : \A i \in DOMAIN BoundBy(Main[k]) : Reached(k, i)' <=> Reached(k, i)
         /\ stack'[1].at = stack[1].at
<1>1. Len(stack) \in Nat /\ Len(stack) > 0
  BY InnermostFrame DEF Shape
<1>2. stack'[1] = stack[1]
  <2>1. 1 \in 1..Len(stack)
    BY <1>1
  <2> QED BY <2>1
<1>3. CASE Len(stack) = 1
  <2>1. \A k \in DOMAIN Main : \A i \in DOMAIN BoundBy(Main[k]) : i \in Nat /\ i >= 1
    BY BoundByDomain
  <2>2. stack'[2].named = 0 /\ Len(stack') = 2
    BY <1>3
  <2> QED BY <1>2, <1>3, <2>1, <2>2 DEF Reached
<1>4. CASE Len(stack) > 1
  <2>1. stack'[2] = stack[2] /\ Len(stack') > 1
    BY <1>1, <1>4
  <2> QED BY <1>2, <1>4, <2>1 DEF Reached
<1>5. Len(stack) = 1 \/ Len(stack) > 1
  BY <1>1, Numbers
<1> QED BY <1>2, <1>3, <1>4, <1>5

\* The main file goes on to its next item, of which nothing was bound before.
LEMMA ReachedNext ==
  ASSUME Shape, Awaits, program' = program, Len(stack') = 1, stack'[1].at = stack[1].at + 1
  PROVE  /\ \A k \in DOMAIN Main : \A i \in DOMAIN BoundBy(Main[k]) : Reached(k, i)' <=> k < stack[1].at \/ k = stack[1].at
         /\ \A j \in DOMAIN Main : j < stack[1].at => j < stack'[1].at
<1> DEFINE at == stack[1].at
<1>1. at \in Nat /\ \A k \in DOMAIN Main : k \in Nat
  BY ReachedNow
<1>2. stack'[1].at = at + 1
  OBVIOUS
<1>3. \A k \in DOMAIN Main : (k < at + 1 <=> k < at \/ k = at) /\ (k < at => k < at + 1)
  <2> HIDE DEF at
  <2> QED BY <1>1
<1>4. ASSUME NEW k, NEW i PROVE Reached(k, i)' <=> k < at + 1
  BY <1>2 DEF Reached
<1> HIDE DEF at
<1>5. \A k \in DOMAIN Main : \A i \in DOMAIN BoundBy(Main[k]) : Reached(k, i)' <=> k < at \/ k = at
  BY <1>3, <1>4
<1>6. \A j \in DOMAIN Main : j < at => j < stack'[1].at
  BY <1>2, <1>3
<1> QED BY <1>5, <1>6 DEF at

\* What DefineAs gives a name of the main file is what the name is to mean.
LEMMA HoldsDefined ==
  ASSUME program' = program, NEW k, NEW i, NEW item,
         item = Definition(k, i), ~IsNamespace(Main[k]),
         DefineAs(NameOf(k, i), item), Compute(NameOf(k, i), item),
         Environment' = globals'
  PROVE  Holds(k, i)'
<1> DEFINE n == NameOf(k, i)
<1>1. /\ Main' = Main /\ n' = n /\ Definition(k, i)' = item
      /\ NamesFunction(k, i)' <=> IsFunction(item)
  <2>1. NamesFunction(k, i) <=> IsFunction(item)
    BY DEF NamesFunction
  <2>2. n' = n /\ Definition(k, i)' = Definition(k, i) /\ NamesFunction(k, i)' = NamesFunction(k, i)
    BY SameMain
  <2>3. Main' = Main
    BY SameProgram
  <2> HIDE DEF n
  <2> QED BY <2>1, <2>2, <2>3
<1>2. n \in DOMAIN globals' /\ globals'[n] = Value(item)
  <2>1. PICK v : v = Value(item)
    OBVIOUS
  <2>2. globals' = Bind(globals, n, v)
    BY <2>1 DEF DefineAs
  <2> QED BY <2>1, <2>2 DEF Bind
<1>3. CASE IsFunction(item)
  <2>1. n \in DOMAIN functions' /\ functions'[n] = item[3] /\ Value(item) = <<"function", item[3]>>
    BY <1>3 DEF DefineAs, Bind, Value
  <2>2. Meaning(k, i)' = <<"function", item[3]>>
    BY <1>1, <1>3 DEF Meaning
  <2> HIDE DEF n
  <2> QED BY <1>1, <1>2, <1>3, <2>1, <2>2 DEF Holds, n
<1>4. CASE ~IsFunction(item)
  <2>1. n \in DOMAIN computed' /\ computed'[n] = Value(item)
    BY <1>4 DEF Compute, Bind
  <2>2. Meaning(k, i)' = computed'[n]
    BY <1>1, <1>4 DEF Meaning, NameOf
  <2> HIDE DEF n
  <2> QED BY <1>1, <1>2, <1>4, <2>1, <2>2 DEF Holds, n
<1> QED BY <1>3, <1>4

\* A definition of the main file, or an item of it without one.
LEMMA StatedNextItem ==
  ASSUME Shape, Awaits, Stated, Loading, Proceeds, NextItem, Len(stack) = 1, AtItem,
         \/ Declares(Item) /\ DefineAs(Item[2], Item) /\ Compute(Item[2], Item)
         \/ ~IsImport(Item) /\ ~Declares(Item) /\ UNCHANGED <<functions, globals, computed>>
         \/ Item[1] = "invoke"
  PROVE  Stated'
<1>1. program' = program /\ cache' = cache /\ Environment = globals /\ Environment' = globals'
  BY DEF Loading, Proceeds, Environment
<1>2. Frame = stack[1] /\ Item = Main[stack[1].at] /\ stack[1].at \in DOMAIN Main /\ stack[1].at \in Nat /\ \A k \in DOMAIN Main : k \in Nat
  BY ReachedNow
<1>3. Len(stack') = 1 /\ stack'[1].at = stack[1].at + 1
  <2>1. TopIs([Frame EXCEPT !.at = @ + 1]) /\ Frame \in FrameType
    BY NextItemStep, InnermostFrame
  <2> QED BY <1>2, <2>1 DEF TopIs, FrameType
<1>4. /\ \A k \in DOMAIN Main : \A i \in DOMAIN BoundBy(Main[k]) : Reached(k, i)' <=> k < stack[1].at \/ k = stack[1].at
      /\ \A j \in DOMAIN Main : j < stack[1].at => j < stack'[1].at
  BY <1>1, <1>3, ReachedNext
<1>5. \A k, i : Reached(k, i) <=> k < stack[1].at
  BY DEF Reached
<1>6. CASE Declares(Item) /\ DefineAs(Item[2], Item) /\ Compute(Item[2], Item)
  <2>0. PICK K : K = stack[1].at
    OBVIOUS
  <2>1. BoundBy(Main[K]) = <<Item[2]>> /\ ~IsImport(Main[K])
    BY <1>2, <1>6, <2>0, BoundByDomain DEF Declares, IsImport
  <2>2. 1 \in DOMAIN BoundBy(Main[K]) /\ NameOf(K, 1) = Item[2] /\ \A i \in DOMAIN BoundBy(Main[K]) : i = 1
    BY <2>1 DEF NameOf
  <2>3. Definition(K, 1) = Item /\ ~IsNamespace(Main[K])
    BY <1>2, <2>0, <2>1 DEF Definition, IsNamespace
  <2>4. K \in DOMAIN Main
    BY <1>2, <2>0
  <2>5. Holds(K, 1)'
    BY <1>1, <1>6, <2>2, <2>3, HoldsDefined
  <2>6. \A m : m # NameOf(K, 1) => Agrees(m)
    BY <1>1, <1>6, <2>2, DefineAsAgrees
  <2>7. \A k \in DOMAIN Main : \A i \in DOMAIN BoundBy(Main[k]) : Reached(k, i)' <=> Reached(k, i) \/ (k = K /\ i = 1)
    BY <1>4, <1>5, <2>0, <2>2
  <2>8. \A k \in DOMAIN Main : \A i \in DOMAIN BoundBy(Main[k]) : Reached(k, i) => Behind(K, 1, k, i)
    <3>1. \A k \in DOMAIN Main : k < K => K > k
      BY <1>2, <2>4
    <3> QED BY <1>5, <2>0, <3>1 DEF Behind
  <2> QED BY <1>1, <1>4, <2>2, <2>4, <2>5, <2>6, <2>7, <2>8, StatedAfter
<1>7. CASE ~IsImport(Item) /\ ~Declares(Item) /\ UNCHANGED <<functions, globals, computed>>
  <2>1. BoundBy(Main[stack[1].at]) = << >>
    BY <1>2, <1>7, BoundByDomain
  <2>2. \A k \in DOMAIN Main : \A i \in DOMAIN BoundBy(Main[k]) : Reached(k, i)' <=> Reached(k, i)
    BY <1>4, <1>5, <2>1
  <2>3. \A m : Agrees(m)
    BY <1>1, <1>7 DEF Agrees
  <2> QED BY <1>1, <1>4, <2>2, <2>3, StatedKept
<1>8. CASE Item[1] = "invoke"
  <2>1. BoundBy(Main[stack[1].at]) = << >>
    BY <1>2, <1>8, BoundByDomain DEF IsImport, Declares
  <2>2. ASSUME NEW k \in DOMAIN Main, NEW i \in DOMAIN BoundBy(Main[k]) PROVE ~Latest(k, i)'
    <3>1. CASE Reached(k, i)'
      <4>1. k < stack[1].at
        BY <1>4, <2>1, <3>1
      <4>2. stack[1].at > k /\ stack[1].at < stack'[1].at
        BY <1>2, <1>3, <4>1
      <4>3. Main' = Main
        BY <1>1, SameProgram
      <4> QED BY <1>2, <1>8, <4>2, <4>3 DEF Latest
    <3> QED BY <3>1 DEF Latest
  <2>3. Main' = Main
    BY <1>1, SameProgram
  <2> QED BY <2>2, <2>3 DEF Stated
<1> QED BY <1>6, <1>7, <1>8

\* A step of the main file or of the loader that changes no name.
LEMMA StatedSame ==
  ASSUME Stated, program' = program, cache' = cache, stack' = stack,
         functions' = functions, computed' = computed, Environment' = Environment
  PROVE  Stated'
<1>1. \A k, i : Reached(k, i)' <=> Reached(k, i)
  BY DEF Reached
<1>2. \A m : Agrees(m)
  BY DEF Agrees
<1> QED BY <1>1, <1>2, StatedKept

\* A file that is imported replaces a name of the main file only if the name is one of its functions'.
LEMMA StatedRegister ==
  ASSUME Shape, Awaits, FunctionsBound, Stated, LoadModuleInternals
  PROVE  Stated'
<1>1. program' = program /\ cache' = cache /\ computed' = computed /\ Environment = globals /\ Environment' = globals' /\ Len(stack) > 1
  BY DEF LoadModuleInternals, Loading, Proceeds, Environment
<1>2. PICK n \in Frame.left : /\ Register(n, Exported(Frame.file, n))
                              /\ stack' = [stack EXCEPT ![Len(stack)].left = @ \ {n}]
  BY DEF LoadModuleInternals
<1>3. TopIs([Frame EXCEPT !.left = @ \ {n}])
  BY <1>2, RegisterStep DEF LoadModuleInternals
<1>4. [Frame EXCEPT !.left = @ \ {n}].named = Frame.named
  BY InnermostFrame DEF FrameType
<1>5. /\ \A k \in DOMAIN Main : \A i \in DOMAIN BoundBy(Main[k]) : Reached(k, i)' <=> Reached(k, i)
      /\ stack'[1].at = stack[1].at
  BY <1>1, <1>3, <1>4, ReachedTop
<1>6. PICK item : item = Exported(Frame.file, n)
  OBVIOUS
<1>7. FunctionNames' = FunctionNames
  BY <1>1, SameProgram DEF FunctionNames
<1>8. IsFunction(item) => n \in FunctionNames
  <2>1. Len(stack) \in 2..Len(stack) /\ Frame = stack[Len(stack)]
    BY <1>1, InnermostFrame
  <2>2. Frame.file \in cache /\ n \in Exports(Frame.file)
    BY <2>1 DEF Awaits
  <2> QED BY <1>6, <2>2 DEF FunctionNames
<1>9. ASSUME NEW k \in DOMAIN Main, NEW i \in DOMAIN BoundBy(Main[k]), Holds(k, i)
      PROVE  Agrees(NameOf(k, i)) \/ Holds(k, i)'
  <2>1. CASE UNCHANGED <<globals, functions>>
    BY <1>1, <2>1 DEF Agrees
  <2>2. CASE DefineAs(n, item) /\ NameOf(k, i) # n
    BY <1>1, <2>2, DefineAsAgrees
  <2>3. CASE ~Kept(n, item) /\ NameOf(k, i) = n
    <3>1. ~NamesFunction(k, i) /\ n \in FunctionNames
      <4>1. CASE IsFunction(item)
        BY <1>8, <1>9, <2>3, <4>1 DEF Kept, Holds
      <4>2. CASE ~IsFunction(item)
        BY <1>1, <1>9, <2>3, <4>2 DEF Kept, Holds, FunctionsBound
      <4> QED BY <4>1, <4>2
    <3>2. IsNamespace(Main[k]) \/ n \in DOMAIN computed
      BY <1>9, <2>3, <3>1 DEF Holds
    <3>3. ~NamesFunction(k, i)' /\ NameOf(k, i)' = n /\ Main' = Main
      BY <1>1, <2>3, <3>1, SameMain, SameProgram
    <3> QED BY <1>1, <1>7, <3>1, <3>2, <3>3 DEF Holds
  <2> QED BY <1>2, <1>6, <2>1, <2>2, <2>3 DEF Register
<1> QED BY <1>1, <1>5, <1>9, StatedKept

\* What the import statements of the imported files bind.
LEMMA ImportingRebound ==
  ASSUME Shape, Awaits, Len(stack) > 2
  PROVE  NamesOf(Importing) \subseteq Rebound
<1>1. Len(stack) \in Nat /\ Importing \in ImportsOf(stack[Len(stack) - 1].file)
  BY InnermostFrame
<1>2. Len(stack) - 1 \in 2..Len(stack)
  BY <1>1
<1>3. stack[Len(stack) - 1].file \in cache
  BY <1>2 DEF Awaits
<1> QED BY <1>1, <1>3 DEF Rebound

\* The names of the import statement that is being processed.
LEMMA ImportingNames ==
  ASSUME Shape, Awaits, Len(stack) > 1
  PROVE  /\ IsImport(Importing) /\ Len(Importing[3]) \in Nat /\ Frame.named \in Nat
         /\ Importing[3] = << >> => BoundBy(Importing) = <<Namespace(Importing)>>
         /\ Frame.named < Len(Importing[3]) =>
              /\ Importing[3] # << >>
              /\ Frame.named + 1 \in DOMAIN BoundBy(Importing)
              /\ BoundBy(Importing)[Frame.named + 1] = Importing[3][Frame.named + 1][2]
<1>1. Frame.named \in Nat
  BY InnermostFrame DEF FrameType
<1>2. IsImport(Importing)
  BY InnermostFrame DEF ImportsOf
<1>0. Importing \in ImportsOf(stack[Len(stack) - 1].file) /\ IsSequence(Importing[3])
  BY InnermostFrame
<1>3. Len(Importing[3]) \in Nat /\ DOMAIN Importing[3] = 1..Len(Importing[3])
  BY <1>0, Zenon DEF IsSequence
<1>4. Importing[3] = << >> => BoundBy(Importing) = <<Namespace(Importing)>>
  BY <1>2 DEF BoundBy, IsImport, Declares
<1>5. ASSUME Frame.named < Len(Importing[3])
      PROVE  /\ Importing[3] # << >>
             /\ Frame.named + 1 \in DOMAIN BoundBy(Importing)
             /\ BoundBy(Importing)[Frame.named + 1] = Importing[3][Frame.named + 1][2]
  <2>1. Importing[3] # << >>
    <3>1. SUFFICES ASSUME Importing[3] = << >> PROVE FALSE
      OBVIOUS
    <3>2. Len(Importing[3]) = 0
      BY <3>1
    <3>3. Frame.named < 0
      BY <1>5, <3>2, Zenon
    <3> QED BY <1>1, <3>3
  <2>2. BoundBy(Importing) = [i \in DOMAIN Importing[3] |-> Importing[3][i][2]]
    BY <1>2, <2>1 DEF BoundBy, IsImport, Declares
  <2>3. Frame.named + 1 \in 1..Len(Importing[3])
    <3>1. PICK a, b : a = Frame.named /\ b = Len(Importing[3])
      OBVIOUS
    <3>2. a \in Nat /\ b \in Nat /\ a < b
      BY <1>1, <1>3, <1>5, <3>1
    <3> QED BY <3>1, <3>2
  <2>4. Frame.named + 1 \in DOMAIN Importing[3]
    BY <1>3, <2>3, Zenon
  <2> QED BY <2>1, <2>2, <2>4, Zenon
<1> QED BY <1>1, <1>2, <1>3, <1>4, <1>5, Zenon

\* A name that the main file imports from a file gets the meaning it has there; a name that an imported
\* file imports is none of the main file's that this speaks of.
LEMMA StatedBindName ==
  ASSUME Shape, Awaits, Stated, BindName
  PROVE  Stated'
<1>1. program' = program /\ Environment = globals /\ Len(stack) > 1 /\ Frame.named < Len(Importing[3])
  BY DEF BindName, Loading, Environment, Registered
<1>2. PICK name, item : name = Importing[3][Frame.named + 1] /\ item = Exported(Frame.file, name[1])
  OBVIOUS
<1>3. CASE LoadFails
  BY <1>1, <1>3, StatedSame DEF LoadFails, Environment, BindName, Loading
<1>4. CASE /\ DefineAs(name[2], item)
           /\ IF Len(stack) = 2 THEN Compute(name[2], item) ELSE UNCHANGED computed
           /\ stack' = [stack EXCEPT ![Len(stack)].named = @ + 1]
           /\ Proceeds
  <2>1. cache' = cache /\ Environment' = globals'
    BY <1>4 DEF Proceeds, BindName, Loading, Environment
  <2>2. TopIs([Frame EXCEPT !.named = @ + 1])
    BY <1>1, <1>4, NameStep DEF BindName
  <2>3. [Frame EXCEPT !.named = @ + 1].named = Frame.named + 1 /\ Frame.named \in Nat
    BY InnermostFrame DEF FrameType
  <2>4. \A m : m # name[2] => Agrees(m)
    BY <1>1, <1>4, <2>1, DefineAsAgrees
  <2>5. CASE Len(stack) = 2
    <3>1. PICK K, I : K = stack[1].at /\ I = Frame.named + 1
      OBVIOUS
    <3>2. K \in DOMAIN Main /\ K \in Nat /\ Importing = Main[K] /\ Frame = stack[2] /\ \A k \in DOMAIN Main : k \in Nat
      BY <2>5, <3>1, ReachedNow
    <3>3. IsImport(Main[K]) /\ Main[K][3] # << >> /\ I \in DOMAIN BoundBy(Main[K]) /\ NameOf(K, I) = name[2]
      <4>1. /\ IsImport(Importing) /\ Importing[3] # << >> /\ I \in DOMAIN BoundBy(Importing)
            /\ BoundBy(Importing)[I] = name[2]
        BY <1>1, <1>2, <3>1, ImportingNames
      <4> QED BY <3>2, <4>1, Zenon DEF NameOf
    <3>4. Definition(K, I) = item /\ ~IsNamespace(Main[K])
      <4>1. Frame.file = Resolved(Main[K], program.main)
        BY <2>5, <3>1, <3>2 DEF Awaits
      <4> QED BY <1>2, <3>1, <3>2, <3>3, <4>1 DEF Definition, IsNamespace
    <3>5. Holds(K, I)'
      BY <1>1, <1>4, <2>1, <2>5, <3>3, <3>4, HoldsDefined
    <3>6. stack'[1] = stack[1] /\ stack'[2].named = stack[2].named + 1 /\ Len(stack') = 2
      <4>1. 1 \in 1..(Len(stack) - 1)
        BY <2>5
      <4> QED BY <2>2, <2>3, <2>5, <3>2, <4>1 DEF TopIs
    <3>7. \A k \in DOMAIN Main : \A i \in DOMAIN BoundBy(Main[k]) : i \in Nat
      BY BoundByDomain
    <3>8. \A i \in Nat : /\ i <= Frame.named + 1 <=> i <= Frame.named \/ i = Frame.named + 1
                         /\ i <= Frame.named => Frame.named + 1 > i
      BY <2>3
    <3>9. \A k \in DOMAIN Main : \A i \in DOMAIN BoundBy(Main[k]) : Reached(k, i)' <=> Reached(k, i) \/ (k = K /\ i = I)
      <4> SUFFICES ASSUME NEW k \in DOMAIN Main, NEW i \in DOMAIN BoundBy(Main[k])
                   PROVE  Reached(k, i)' <=> Reached(k, i) \/ (k = K /\ i = I)
        OBVIOUS
      <4>1. Reached(k, i) <=> k < K \/ (k = K /\ i <= Frame.named)
        BY <2>5, <3>1, <3>2 DEF Reached
      <4>2. Reached(k, i)' <=> k < K \/ (k = K /\ i <= Frame.named + 1)
        BY <3>1, <3>2, <3>6 DEF Reached
      <4>3. i \in Nat
        BY <3>7
      <4> QED BY <3>1, <3>8, <4>1, <4>2, <4>3
    <3>10. \A k \in DOMAIN Main : \A i \in DOMAIN BoundBy(Main[k]) : Reached(k, i) => Behind(K, I, k, i)
      <4> SUFFICES ASSUME NEW k \in DOMAIN Main, NEW i \in DOMAIN BoundBy(Main[k]), Reached(k, i)
                   PROVE  K > k \/ (K = k /\ I > i)
        BY DEF Behind
      <4>1. k < K \/ (k = K /\ i <= Frame.named)
        BY <2>5, <3>1, <3>2 DEF Reached
      <4>2. k < K => K > k
        BY <3>2
      <4>3. i <= Frame.named => I > i
        BY <3>1, <3>7, <3>8
      <4> QED BY <4>1, <4>2, <4>3
    <3>11. \A j \in DOMAIN Main : j < stack[1].at => j < stack'[1].at
      BY <3>6
    <3> QED BY <1>1, <2>1, <2>4, <3>2, <3>3, <3>5, <3>9, <3>10, <3>11, StatedAfter
  <2>6. CASE Len(stack) > 2
    <3>1. name[2] \in Rebound
      <4>1. /\ Frame.named + 1 \in DOMAIN BoundBy(Importing)
            /\ BoundBy(Importing)[Frame.named + 1] = name[2]
        BY <1>1, <1>2, ImportingNames
      <4>2. name[2] \in NamesOf(Importing)
        BY <4>1 DEF NamesOf
      <4> QED BY <2>6, <4>2, ImportingRebound
    <3>2. Len(stack) # 2
      <4>1. Len(stack) \in Nat
        BY InnermostFrame
      <4> QED BY <2>6, <4>1, BeyondTwo
    <3>3. /\ \A k \in DOMAIN Main : \A i \in DOMAIN BoundBy(Main[k]) : Reached(k, i)' <=> Reached(k, i)
          /\ stack'[1].at = stack[1].at
      BY <1>1, <2>2, <3>2, ReachedTop
    <3> QED BY <1>1, <2>1, <2>4, <3>1, <3>3, StatedKept
  <2>7. Len(stack) = 2 \/ Len(stack) > 2
    <3>1. Len(stack) \in Nat
      BY InnermostFrame
    <3> QED BY <1>1, <3>1, Numbers
  <2> QED BY <2>5, <2>6, <2>7
<1> QED BY <1>2, <1>3, <1>4 DEF BindName

\* A namespace gets the name that the import statement gives it.
LEMMA StatedFinishImport ==
  ASSUME Shape, Awaits, Stated, FinishImport
  PROVE  Stated'
<1>1. /\ program' = program /\ cache' = cache /\ functions' = functions /\ computed' = computed
      /\ Environment = globals /\ Environment' = globals'
      /\ Len(stack) > 1 /\ Frame.named >= Len(Importing[3]) /\ Return /\ status' = "loading"
  BY DEF FinishImport, Loading, Proceeds, Environment, Registered
<1>2. /\ Len(stack') = Len(stack) - 1
      /\ \A i \in 1..(Len(stack) - 2) : stack'[i] = stack[i]
      /\ stack'[Len(stack) - 1] = [stack[Len(stack) - 1] EXCEPT !.at = @ + 1]
  BY <1>1, PopStep
<1>3. PICK space, value : space = Namespace(Importing) /\ value = NamespaceOf(Frame.file)
  OBVIOUS
<1>4. globals' = IF Importing[3] = << >> THEN Bind(globals, space, value) ELSE globals
  BY <1>3 DEF FinishImport
<1>5. \A m : Importing[3] # << >> \/ m # space => Agrees(m)
  BY <1>1, <1>4 DEF Agrees, Bind
<1>6. Len(stack) \in Nat /\ \A i \in 1..Len(stack) : stack[i] \in FrameType
  BY InnermostFrame
<1>7. CASE Len(stack) = 2
  <2>1. PICK K : K = stack[1].at
    OBVIOUS
  <2>2. /\ K \in DOMAIN Main /\ K \in Nat /\ Importing = Main[K] /\ Frame = stack[2] /\ IsImport(Main[K])
        /\ \A k \in DOMAIN Main : k \in Nat
    BY <1>7, <2>1, ReachedNow
  <2>3. Len(stack') = 1 /\ stack'[1].at = stack[1].at + 1
    <3>1. 1 \in 1..Len(stack)
      BY <1>7
    <3>2. stack[1] \in FrameType /\ stack'[1] = [stack[1] EXCEPT !.at = @ + 1]
      BY <1>2, <1>6, <1>7, <3>1
    <3> QED BY <1>2, <1>7, <3>2 DEF FrameType
  <2>4. /\ \A k \in DOMAIN Main : \A i \in DOMAIN BoundBy(Main[k]) : Reached(k, i)' <=> k < K \/ k = K
        /\ \A j \in DOMAIN Main : j < stack[1].at => j < stack'[1].at
    BY <1>1, <2>1, <2>3, ReachedNext
  <2>5. \A k, i : Reached(k, i) <=> k < K \/ (k = K /\ i <= Frame.named)
    BY <1>7, <2>1, <2>2 DEF Reached
  <2>6. CASE Importing[3] = << >>
    <3>1. BoundBy(Main[K]) = <<space>> /\ IsNamespace(Main[K])
      BY <1>3, <2>2, <2>6, BoundByDomain DEF IsNamespace
    <3>2. 1 \in DOMAIN BoundBy(Main[K]) /\ NameOf(K, 1) = space /\ \A i \in DOMAIN BoundBy(Main[K]) : i = 1
      BY <3>1 DEF NameOf
    <3>3. ~(1 <= Frame.named)
      <4>1. stack[2].named <= Len(Main[stack[1].at][3])
        BY <1>1 DEF Awaits
      <4>2. Len(Main[K][3]) = 0
        BY <2>2, <2>6
      <4>3. Frame.named \in Nat /\ Frame.named <= 0
        BY <1>1, <2>1, <2>2, <4>1, <4>2, ImportingNames
      <4> QED BY <4>3
    <3>4. Holds(K, 1)'
      <4>1. Main' = Main /\ NameOf(K, 1)' = space /\ ~NamesFunction(K, 1)' /\ IsNamespace(Main[K])
        BY <1>1, <3>1, <3>2, SameMain, SameProgram DEF NamesFunction
      <4>2. value = NamespaceOf(Resolved(Main[K], program.main))
        BY <1>1, <1>3, <2>1, <2>2 DEF Awaits
      <4>3. Meaning(K, 1)' = value
        BY <1>1, <4>1, <4>2, SameProgram DEF Meaning
      <4>4. space \in DOMAIN globals' /\ globals'[space] = value
        BY <1>4, <2>6 DEF Bind
      <4> QED BY <1>1, <4>1, <4>3, <4>4 DEF Holds
    <3>5. \A k \in DOMAIN Main : \A i \in DOMAIN BoundBy(Main[k]) : Reached(k, i)' <=> Reached(k, i) \/ (k = K /\ i = 1)
      BY <2>4, <2>5, <3>2
    <3>6. \A k \in DOMAIN Main : \A i \in DOMAIN BoundBy(Main[k]) : Reached(k, i) => Behind(K, 1, k, i)
      <4> SUFFICES ASSUME NEW k \in DOMAIN Main, NEW i \in DOMAIN BoundBy(Main[k]), Reached(k, i)
                   PROVE  K > k
        BY DEF Behind
      <4>1. k < K
        BY <2>5, <3>2, <3>3
      <4> QED BY <2>2, <4>1
    <3>7. \A m : m # NameOf(K, 1) => Agrees(m)
      BY <1>5, <3>2
    <3> QED BY <1>1, <2>2, <2>4, <3>2, <3>4, <3>5, <3>6, <3>7, StatedAfter
  <2>7. CASE Importing[3] # << >>
    <3>1. ASSUME NEW i \in DOMAIN BoundBy(Main[K]) PROVE i <= Frame.named
      <4>1. DOMAIN BoundBy(Main[K]) = 1..Len(Main[K][3])
        BY <2>2, <2>7, BoundByDomain
      <4>2. PICK l, d : l = Len(Main[K][3]) /\ d = Frame.named
        OBVIOUS
      <4>3. l \in Nat /\ d \in Nat /\ d >= l
        BY <1>1, <2>2, <4>2, ImportingNames
      <4>4. i \in 1..l
        BY <3>1, <4>1, <4>2
      <4>5. i <= d
        BY <4>3, <4>4
      <4> QED BY <4>2, <4>5
    <3>2. \A k \in DOMAIN Main : \A i \in DOMAIN BoundBy(Main[k]) : Reached(k, i)' <=> Reached(k, i)
      BY <2>4, <2>5, <3>1
    <3>3. \A m : Agrees(m)
      BY <1>5, <2>7
    <3> QED BY <1>1, <2>4, <3>2, <3>3, StatedKept
  <2> QED BY <2>6, <2>7
<1>8. CASE Len(stack) > 2
  <2>1. stack'[1] = stack[1] /\ stack'[2].named = stack[2].named /\ Len(stack') > 1
    <3>1. 1 \in 1..(Len(stack) - 2) /\ Len(stack') > 1
      BY <1>2, <1>6, <1>8
    <3>2. CASE Len(stack) = 3
      <4>1. 2 \in 1..Len(stack) /\ Len(stack) - 1 = 2
        BY <3>2
      <4>2. stack[2] \in FrameType /\ stack'[2] = [stack[2] EXCEPT !.at = @ + 1]
        BY <1>2, <1>6, <4>1
      <4> QED BY <1>2, <3>1, <4>2 DEF FrameType
    <3>3. CASE Len(stack) # 3
      <4>1. 2 \in 1..(Len(stack) - 2)
        BY <1>6, <1>8, <3>3, BeyondTwo
      <4> QED BY <1>2, <3>1, <4>1
    <3> QED BY <3>2, <3>3
  <2>2. \A k, i : Reached(k, i)' <=> Reached(k, i)
    BY <1>1, <2>1 DEF Reached
  <2>3. Importing[3] = << >> => space \in Rebound
    <3>1. Importing[3] = << >> => BoundBy(Importing) = <<space>>
      BY <1>1, <1>3, ImportingNames
    <3>2. Importing[3] = << >> => space \in NamesOf(Importing)
      BY <3>1 DEF NamesOf
    <3> QED BY <1>8, <3>2, ImportingRebound
  <2> QED BY <1>1, <1>5, <2>1, <2>2, <2>3, StatedKept
<1> QED BY <1>1, <1>6, <1>7, <1>8, Numbers

\* Every step keeps what the main file bound.
LEMMA StepStated ==
  ASSUME LoadInv, Stated, [LoadNext \/ ServesOnly]_loadVars
  PROVE  Stated'
<1>1. Shape /\ Awaits /\ FunctionsBound /\ program' = program
  BY Growth DEF LoadInv
<1>2. ASSUME Loading, LoadFails PROVE Stated'
  BY <1>2, StatedSame DEF Loading, LoadFails, Environment
<1>3. CASE ProcessImport
  <2>0. PICK file : file = Resolved(Item, Frame.file)
    OBVIOUS
  <2>1. CASE file \in DOMAIN program.files
    <3>1. /\ cache' = cache \cup {file} /\ functions' = functions /\ computed' = computed
          /\ Environment' = Environment
      BY <1>3, <2>0, <2>1 DEF ProcessImport, Loading, Environment
    <3>2. /\ Len(stack') = Len(stack) + 1
          /\ stack'[Len(stack) + 1].named = 0
          /\ \A i \in 1..Len(stack) : stack'[i] = stack[i]
      BY <1>1, <1>3, <2>0, <2>1, PushStep DEF ProcessImport, Loading
    <3>3. /\ \A k \in DOMAIN Main : \A i \in DOMAIN BoundBy(Main[k]) : Reached(k, i)' <=> Reached(k, i)
          /\ stack'[1].at = stack[1].at
      BY <1>1, <3>2, ReachedPush
    <3>4. \A m : Agrees(m)
      BY <3>1 DEF Agrees
    <3>5. cache \subseteq cache' /\ \A j \in DOMAIN Main : j < stack[1].at => j < stack'[1].at
      BY <3>1, <3>3
    <3> QED BY <1>1, <3>3, <3>4, <3>5, StatedKept
  <2>2. CASE file \notin DOMAIN program.files
    BY <1>2, <1>3, <2>0, <2>2 DEF ProcessImport
  <2> QED BY <2>1, <2>2
<1>4. CASE SkipItem
  <2>1. TopIs([Frame EXCEPT !.at = @ + 1]) /\ Frame \in FrameType
    BY <1>1, <1>4, NextItemStep, InnermostFrame DEF SkipItem
  <2>2. [Frame EXCEPT !.at = @ + 1].named = Frame.named
    BY <2>1 DEF FrameType
  <2>3. /\ \A k \in DOMAIN Main : \A i \in DOMAIN BoundBy(Main[k]) : Reached(k, i)' <=> Reached(k, i)
        /\ stack'[1].at = stack[1].at
    BY <1>1, <1>4, <2>1, <2>2, ReachedTop DEF SkipItem
  <2>4. cache' = cache /\ \A m : Agrees(m)
    BY <1>4 DEF SkipItem, Proceeds, Loading, Agrees, Environment
  <2> QED BY <1>1, <2>3, <2>4, StatedKept
<1>5. CASE LoadModuleInternals
  BY <1>1, <1>5, StatedRegister
<1>6. CASE BindName
  BY <1>1, <1>6, StatedBindName
<1>7. CASE FinishImport
  BY <1>1, <1>7, StatedFinishImport
<1>8. CASE Declare
  <2>1. CASE LoadFails
    BY <1>2, <1>8, <2>1 DEF Declare
  <2>2. CASE DefineAs(Item[2], Item) /\ Compute(Item[2], Item) /\ NextItem /\ Proceeds
    BY <1>1, <1>8, <2>2, StatedNextItem DEF Declare, InMain
  <2> QED BY <1>8, <2>1, <2>2 DEF Declare
<1>9. CASE DefineMacro
  <2>1. ~IsImport(Item) /\ ~Declares(Item)
    BY <1>9 DEF DefineMacro, IsImport, Declares
  <2> QED BY <1>1, <1>9, <2>1, StatedNextItem DEF DefineMacro, InMain
<1>10. CASE InvokeMacro
  <2>1. CASE LoadFails
    BY <1>2, <1>10, <2>1 DEF InvokeMacro
  <2>2. CASE NextItem /\ Proceeds
    BY <1>1, <1>10, <2>2, StatedNextItem DEF InvokeMacro, InMain
  <2> QED BY <1>10, <2>1, <2>2 DEF InvokeMacro
<1>11. CASE Loaded
  BY <1>1, <1>11, StatedSame DEF Loaded, Environment
<1>12. CASE ServesOnly \/ UNCHANGED loadVars
  BY <1>1, <1>12, StatedSame DEF ServesOnly, loadVars, Environment
<1> QED BY <1>3, <1>4, <1>5, <1>6, <1>7, <1>8, <1>9, <1>10, <1>11, <1>12 DEF LoadNext

\* The main file has bound nothing at first.
LEMMA InitStated == LoadInit => Stated
<1> SUFFICES ASSUME LoadInit PROVE Stated
  OBVIOUS
<1>1. Shape /\ Awaits
  BY InitLoadInv DEF LoadInv
<1>2. Len(stack) = 1 /\ stack[1].at = 1
  BY DEF LoadInit
<1>3. IsSequence(Main)
  BY <1>1, InnermostFrame
<1>4. DOMAIN Main = 1..Len(Main)
  BY <1>3, Zenon DEF IsSequence
<1>5. \A k \in DOMAIN Main : ~(k < 1)
  BY <1>4
<1>6. \A k \in DOMAIN Main : \A i : ~Reached(k, i)
  BY <1>2, <1>5 DEF Reached
<1> QED BY <1>6 DEF Stated, Latest

\* The promise of loadModuleInternals' comment, "avoid overwriting explicit imports or previously loaded
\* definitions", for all files: when the program is loaded, a name has the meaning that the main file's last
\* import or definition of it gave it.  It takes the two exceptions that ExplicitKept makes: a name that
\* an imported file's own import statement binds, and a constant or namespace with a function's name.
THEOREM ExplicitKeptHolds == LoadSpec => []ExplicitKept
<1>1. LoadInv /\ Stated => ExplicitKept
  <2> SUFFICES ASSUME LoadInv, Stated, status = "loaded",
                      NEW k \in DOMAIN Main, NEW i \in DOMAIN BoundBy(Main[k]),
                      BoundLast(k, i), NameOf(k, i) \notin Rebound
               PROVE  /\ NamesFunction(k, i) => NameOf(k, i) \in DOMAIN functions /\ functions[NameOf(k, i)] = Definition(k, i)[3]
                      /\ NamesFunction(k, i) \/ NameOf(k, i) \notin FunctionNames =>
                            NameOf(k, i) \in DOMAIN atLoad /\ atLoad[NameOf(k, i)] = Meaning(k, i)
    BY DEF ExplicitKept, NameOf
  <2>1. Shape /\ Awaits /\ Len(stack) = 1 /\ ~AtItem
    BY DEF LoadInv, Shape
  <2>2. Frame = stack[1] /\ ItemsOf(1) = Main /\ IsSequence(Main)
    BY <2>1, ReachedNow, InnermostFrame
  <2>3. stack[1].at \in Nat /\ stack[1].at >= 1 /\ stack[1].at \notin DOMAIN Main
    BY <2>1, <2>2, ReachedNow DEF AtItem
  <2>4. Reached(k, i)
    <3>1. DOMAIN Main = 1..Len(Main) /\ Len(Main) \in Nat
      BY <2>2, Zenon DEF IsSequence
    <3>2. PICK l, at : l = Len(Main) /\ at = stack[1].at
      OBVIOUS
    <3>3. l \in Nat /\ at \in Nat /\ at >= 1 /\ at \notin 1..l /\ k \in 1..l
      BY <2>3, <3>1, <3>2
    <3>4. k < at
      BY <3>3
    <3> QED BY <3>2, <3>4 DEF Reached
  <2>5. Latest(k, i)
    BY <2>4 DEF Latest, BoundLast, NameOf
  <2>6. Holds(k, i)
    BY <2>5 DEF Stated
  <2> QED BY <2>6 DEF Holds, Environment
<1>2. LoadInit => LoadInv /\ Stated
  BY InitLoadInv, InitStated
<1>3. LoadInv /\ Stated /\ [LoadNext \/ ServesOnly]_loadVars => LoadInv' /\ Stated'
  BY StepLoadInv, StepStated
<1> QED BY <1>1, <1>2, <1>3, PTL DEF LoadSpec

-----------------------------------------------------------------------------
(* Tier-ups: the inductive invariant.  What a request in the middle of a    *)
(* tier-up has in its hands is never baseline bytecode, whatever the others *)
(* did to the unit since it looked.                                         *)

\* A recompilation is for a tier the SSA compiler serves.
StoresHigher == \A r \in Request : pc[r] = "store" => next[r] >= Optimized

\* A unit that was recompiled is never compiled by the baseline again.
FetchesSsa == \A r \in Request : pc[r] = "fetch" => unit.code = "ssa"

\* RecordExecution returns nothing or optimized bytecode.
UpgradesSsa == \A r \in Request : upgraded[r] # "base"

JITInv == TypeOK /\ StoresHigher /\ FetchesSsa /\ UpgradesSsa

-----------------------------------------------------------------------------
\* The tiers of getNextTier are tiers above the baseline.
LEMMA NextTierType ==
  ASSUME NEW tier \in Tier
  PROVE  NextTier(tier) \in Tier /\ NextTier(tier) >= Optimized
  BY DEF NextTier, Tier, Baseline, Optimized, HighlyOptimized

LEMMA InitJITInv == Init => JITInv
<1> SUFFICES ASSUME Init PROVE JITInv
  OBVIOUS
<1>1. Baseline \in Tier
  BY DEF Tier, Baseline, HighlyOptimized
<1>2. unit \in [tier : Tier, code : {"base", "ssa"}]
  BY <1>1 DEF Init
<1>3. TypeOK
  BY <1>1, <1>2 DEF Init, TypeOK
<1>4. StoresHigher /\ FetchesSsa /\ UpgradesSsa
  BY DEF Init, StoresHigher, FetchesSsa, UpgradesSsa
<1> QED BY <1>3, <1>4 DEF JITInv

\* Leaving a request resets its locals only.
LEMMA LeaveStep ==
  ASSUME JITInv, NEW r \in Request, Leave(r)
  PROVE  /\ pc' \in [Request -> {"idle", "run", "record", "offload", "check", "compile", "store", "fetch", "done"}]
         /\ active' \in [Request -> {"base", "ssa"}]
         /\ onGPU' \in [Request -> BOOLEAN]
         /\ next' \in [Request -> Tier]
         /\ upgraded' \in [Request -> {"none", "base", "ssa"}]
         /\ StoresHigher'
         /\ UpgradesSsa'
         /\ \A q \in Request : pc'[q] = "fetch" => pc[q] = "fetch"
  BY DEF JITInv, TypeOK, Leave, Goto, StoresHigher, UpgradesSsa, Tier, Baseline, HighlyOptimized

LEMMA StepJITInv ==
  ASSUME JITInv, [Next]_vars
  PROVE  JITInv'
<1> USE DEF JITInv
<1>1. ASSUME NEW r \in Request, Arrive(r) PROVE JITInv'
  BY <1>1 DEF Arrive, Goto, TypeOK, StoresHigher, FetchesSsa, UpgradesSsa
<1>2. ASSUME NEW r \in Request, Execute(r) PROVE JITInv'
  BY <1>2 DEF Execute, Goto, TypeOK, StoresHigher, FetchesSsa, UpgradesSsa
<1>3. ASSUME NEW r \in Request, ExecuteFails(r) PROVE JITInv'
  BY <1>3, LeaveStep DEF ExecuteFails, TypeOK, FetchesSsa
<1>4. ASSUME NEW r \in Request, Record(r) PROVE JITInv'
  BY <1>4 DEF Record, Goto, TypeOK, StoresHigher, FetchesSsa, UpgradesSsa
<1>5. ASSUME NEW r \in Request, ConsiderGPU(r) PROVE JITInv'
  BY <1>5 DEF ConsiderGPU, Goto, TypeOK, StoresHigher, FetchesSsa, UpgradesSsa
<1>6. ASSUME NEW r \in Request, CheckAdaptiveRecompilation(r) PROVE JITInv'
  BY <1>6 DEF CheckAdaptiveRecompilation, Goto, TypeOK, StoresHigher, FetchesSsa, UpgradesSsa
<1>7. ASSUME NEW r \in Request, Compile(r) PROVE JITInv'
  <2>1. NextTier(unit.tier) \in Tier /\ NextTier(unit.tier) >= Optimized
    BY NextTierType DEF TypeOK
  <2> QED BY <1>7, <2>1 DEF Compile, Goto, TypeOK, StoresHigher, FetchesSsa, UpgradesSsa
<1>8. ASSUME NEW r \in Request, Store(r) PROVE JITInv'
  <2>1. next[r] \in Tier /\ CodeOf(next[r]) = "ssa"
    BY <1>8 DEF Store, StoresHigher, CodeOf, TypeOK
  <2>2. unit' = [tier |-> next[r], code |-> "ssa"]
    BY <1>8, <2>1 DEF Store
  <2> QED BY <1>8, <2>1, <2>2 DEF Store, Goto, TypeOK, StoresHigher, FetchesSsa, UpgradesSsa
<1>9. ASSUME NEW r \in Request, Fetch(r) PROVE JITInv'
  BY <1>9 DEF Fetch, Goto, TypeOK, StoresHigher, FetchesSsa, UpgradesSsa
<1>10. ASSUME NEW r \in Request, Finish(r) PROVE JITInv'
  <2>1. current' \in {"base", "ssa"}
    BY <1>10 DEF Finish, TypeOK, UpgradesSsa
  <2> QED BY <1>10, <2>1, LeaveStep DEF Finish, TypeOK, FetchesSsa
<1>11. CASE UNCHANGED vars
  BY <1>11 DEF vars, locals, TypeOK, StoresHigher, FetchesSsa, UpgradesSsa
<1> QED BY <1>1, <1>2, <1>3, <1>4, <1>5, <1>6, <1>7, <1>8, <1>9, <1>10, <1>11 DEF Next, Step

\* The invariant holds in every state of every behaviour.
THEOREM JITInvariance == Spec => []JITInv
  BY InitJITInv, StepJITInv, PTL DEF Spec

\* No order of checks, recompilations and installations of concurrent requests puts the baseline bytecode
\* back: only Finish writes current, and what it writes is optimized.
THEOREM ServedForwardHolds == Spec => ServedForward
<1>1. JITInv /\ [Next]_vars => (current = "ssa" => current' = "ssa")
  <2> SUFFICES ASSUME JITInv, [Next]_vars, current = "ssa"
               PROVE  current' = "ssa"
    OBVIOUS
  <2>1. ASSUME NEW r \in Request, Finish(r) PROVE current' = "ssa"
    <3>1. upgraded[r] \in {"none", "ssa"}
      BY DEF JITInv, TypeOK, UpgradesSsa
    <3> QED BY <2>1, <3>1 DEF Finish
  <2>2. ASSUME NEW r \in Request,
               Arrive(r) \/ Execute(r) \/ ExecuteFails(r) \/ Record(r) \/ ConsiderGPU(r)
                 \/ CheckAdaptiveRecompilation(r) \/ Compile(r) \/ Store(r) \/ Fetch(r)
        PROVE  current' = "ssa"
    BY <2>2 DEF Arrive, Execute, ExecuteFails, Record, ConsiderGPU, CheckAdaptiveRecompilation, Compile, Store, Fetch
  <2>3. CASE UNCHANGED vars
    BY <2>3 DEF vars
  <2> QED BY <2>1, <2>2, <2>3 DEF Next, Step
<1> QED BY <1>1, JITInvariance, PTL DEF Spec, ServedForward
=============================================================================
