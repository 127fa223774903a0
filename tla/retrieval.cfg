SPECIFICATION RetrievalSpec
CONSTANTS
  Products = {p1, p2, p3, p4}
  K = 2
  TopK = 3
  TopN = 2
INVARIANTS
  RetrievalTypeOK
  AgreementWins
  OrderIsKept
  ContextIsBest
  PickedIsShown
