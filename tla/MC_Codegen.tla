------------------------------ MODULE MC_Codegen ------------------------------
(***************************************************************************)
(* Instances of CodegenProps and CodegenScopes for TLC.                    *)
(***************************************************************************)
EXTENDS CodegenProps, CodegenScopes

\* Control flow: every kind of statement, variables left out.
AllStatements == Kinds
ControlFlow == Kinds \ {"var"}

\* Handlers that may be handed a jump as their whole body.
AnyHandler == Nests
CarefulHandlers == Nests \ {"while", "for"}

\* Scoping: the statements that open scopes, in all the ways they do.
ScopeStatements == {"var", "expr", "scope", "fun", "for", "if"}
=============================================================================
