SPECIFICATION Spec
CONSTANTS
  MaxSent = 5
INVARIANT TypeOK
INVARIANT ShownRequested
INVARIANT ServiceKnows
PROPERTY OnlyUserCloses
PROPERTY OpenerAnswered
