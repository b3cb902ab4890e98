SPECIFICATION AlgorithmsSpec
CONSTANTS
  Nodes <- MCNodes
  Ids <- MCIds
  Graphs <- MCGraphs
  Patterns <- MCPatterns
  Subjects <- MCSubjects
  StoreKeys = {"k", "l"}
  Values = {"v", "w"}
  Publishers = {"p", "q"}
  Subs <- MCSubs
  Topics <- MCTopics
  Pattern <- MCPattern
  BufferSize = 1
  MaxEvents = 3
INVARIANTS VerdictCorrect DecidesMatch PromisesKept DeliveredDurable JournalOrder DropsAccounted NoSendOnClosed
PROPERTY PublishReturns
