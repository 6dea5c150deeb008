\* The request-context lifecycle: context.c driven by the resolver driver.
CONSTANT MaxQueries = 24
SPECIFICATION Spec
\* After kr_context_deinit the process has shut the resolver down.
CHECK_DEADLOCK FALSE
INVARIANT TypeOK AnswerNotLeaked 
