---------------------------- MODULE CodegenScopes ----------------------------
(***************************************************************************)
(* The scope stack's symbol tables implement lexical scoping: a refinement *)
(* of LexicalScopes by Codegen.                                            *)
(***************************************************************************)
EXTENDS Codegen

\* All that the names stand for in each open scope, as the lookups find it.
Views ==
  [i \in DOMAIN frames |->
     [n \in Names |-> LET s == SubSeq(frames, 1, i)
                      IN  IF Visible(s, n) THEN SymbolOf(s, n) ELSE NoSymbol]]

\* A handler enters or leaves at most three scopes at once.
Scopes == INSTANCE LexicalScopes WITH views <- Views, MaxEntered <- 3

\* What a program reads under a name is what lexical scoping says: looking up
\* the parent chain (frame.cpp:36) after declarations, nested scopes and
\* functions gives the storage and the reference flag of the declaration that
\* is visible there, and the end of a scope brings back the names around it.
RefinesScopes == Scopes!Spec
=============================================================================
