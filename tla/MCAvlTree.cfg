SPECIFICATION Spec
CONSTANT N = 12
INVARIANT FindsExactly
