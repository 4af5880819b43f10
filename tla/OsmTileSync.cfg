SPECIFICATION FairSpec
CONSTANTS
  Tiles <- MCTiles
  GroupOf <- MCGroupOf
  MaxVersion = 2
  Rebuilt = {1}
INVARIANTS
  TypeOK
  AuthenticTiles

  
  
