\* Every sequence of insertions and deletions of seven keys.
CONSTANT
  Keys = {1, 2, 3, 4, 5, 6, 7}
SPECIFICATION Spec
INVARIANT
  RedBlack
PROPERTY
  ImplementsSet
