SPECIFICATION Spec
INVARIANTS
    ScalingsExact
