SPECIFICATION Spec
CONSTANTS
  WriteLength = 23
  ReadLength = 20
  Programs = {client, command}
  Together = FALSE
  Garbled = garbled
  Nothing = nothing
  MaxSent = 5
  MaxStops = 2
INVARIANT MessagesIntact
