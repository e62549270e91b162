SPECIFICATION Spec
INVARIANTS TablesAgree
