CONSTANTS
  Events = {1, 2, 3}
  Causes <- Lifecycle
  Workers = {w1, w2}
  Null = Null
  MaxCount = 1
SPECIFICATION OutboxSpec
PROPERTIES OldestFirst
