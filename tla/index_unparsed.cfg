SPECIFICATION IndexSpec
CONSTANTS
  Nodes = {x}
  Edges = {}
  Facts = {name, renamed}
  PassLimit = 1
  NoCard = NoCard
INVARIANTS BrokenPassIsTriedAgain
