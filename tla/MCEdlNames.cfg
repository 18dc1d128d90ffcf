\* NamesMeanDeclarations
SPECIFICATION Spec
CONSTANTS
  Programs <- FewPrograms
  FrontEnd <- Compile
  Judgements <- AllDerived
  Local <- DeclaredIn
  MaxInt = 4
  MaxCalls = 2
  MaxOut = 3
  MaxBindings = 4
\* Programs end.
CHECK_DEADLOCK FALSE
INVARIANT NamesMeanDeclarations
