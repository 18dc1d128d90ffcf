\* All small programs the front end accepts.
SPECIFICATION Spec
CONSTANTS
  Programs <- AllPrograms
  FrontEnd <- Compile
  Judgements <- AllDerived
  Local <- DeclaredIn
  MaxInt = 4
  MaxCalls = 2
  MaxOut = 3
  MaxBindings = 4
\* Programs end.
CHECK_DEADLOCK FALSE
INVARIANTS RulesKept TypeOK FramesMatch StaysInCall FlowCaught ValueReturned PlainNames
