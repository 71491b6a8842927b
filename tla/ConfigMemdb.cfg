SPECIFICATION Spec
INVARIANT ValidatedMemdbCreated
