SPECIFICATION Spec
CONSTANTS
  Names <- NamesByClass
  Listed <- ListedByClass
  Mangled <- MangledName
  Exports <- SomeExports
  MaxRows = 2
INVARIANTS
  TypeOK
  EveryFamilyShown
  FieldsApart
  DiesOnlyKnown
  OneStateOn
PROPERTY ImplementsCollection
