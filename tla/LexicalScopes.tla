---------------------------- MODULE LexicalScopes ----------------------------
(***************************************************************************)
(* What lexical scoping promises a program, whatever the compiler keeps to *)
(* provide it: `views' is the sequence of open scopes, each with all that  *)
(* a name written there stands for.  A scope starts with a copy of the     *)
(* view around it; a declaration changes the innermost view only; when a   *)
(* scope ends the view around it is back as it was.  Codegen implements    *)
(* this with symbol tables that are searched outwards (CodegenScopes).     *)
(***************************************************************************)
EXTENDS Naturals, Sequences

CONSTANTS Names, MaxEntered    \* bound: scopes one step enters or leaves

VARIABLES views, result

Unbound == [value |-> 0, isRef |-> FALSE]
Nothing == [n \in Names |-> Unbound]

Around(s) == IF s = <<>> THEN Nothing ELSE s[Len(s)]

\* A scope's symbol is storage that no visible name stands for.
IsFresh(symbol) ==
  /\ symbol.value # 0
  /\ \A i \in DOMAIN views, n \in Names : views[i][n].value # symbol.value

\* Leave some scopes, then enter some.
Move(left, entered) ==
  /\ left <= Len(views)
  /\ LET kept == SubSeq(views, 1, Len(views) - left)
     IN  views' = kept \o [i \in 1 .. entered |-> Around(kept)]
  /\ UNCHANGED result

\* Reading a name finds what the innermost view has for it.
Read(n) ==
  /\ views # <<>>
  /\ Around(views)[n] # Unbound
  /\ result' = Around(views)[n]

Use(n) == Read(n) /\ UNCHANGED views

\* The initializer of a declaration reads the names visible before it.
Declare(n, symbol) ==
  /\ views # <<>>
  /\ IsFresh(symbol)
  /\ views' = [views EXCEPT ![Len(views)][n] = symbol]
  /\ UNCHANGED result \/ \E m \in Names : Read(m)

Init == views = <<>> /\ result = Unbound

Next ==
  \/ \E left, entered \in 0 .. MaxEntered : Move(left, entered)
  \/ \E n \in Names : Use(n)
  \/ \E n \in Names : Declare(n, views'[Len(views)][n])

Spec == Init /\ [][Next]_<<views, result>>
=============================================================================
