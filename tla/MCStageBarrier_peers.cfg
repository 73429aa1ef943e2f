SPECIFICATION Spec
CONSTANTS
  Nodes = {1, 2, 3, 4}
  Prompts <- Peers
PROPERTIES
  Rendezvous
CHECK_DEADLOCK FALSE
