SPECIFICATION FairSpec
CONSTANT
  Core = {c0, c1, c2}
INVARIANTS TypeOK LockWordTruthful
PROPERTIES ImplementsExclusion SomeCoreObtains
