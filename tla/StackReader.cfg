SPECIFICATION Spec
CONSTANT MaxStack = 2
INVARIANT CheckedCanBeRead
PROPERTIES EveryValueReads RoundTrip
