\* kr_result_init failing at the cache transaction leaves result->ans set.
CONSTANT MaxQueries = 24
SPECIFICATION Spec
CHECK_DEADLOCK FALSE
INVARIANT NoDanglingAnswer
