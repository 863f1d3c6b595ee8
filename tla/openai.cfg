SPECIFICATION Spec
CONSTANTS
  MAX_NESTING = 5
  Precision = 2
  Symbols <- Characters
  Files <- Prompts
  Turns <- QuestionsAndAnswers
  Temperature <- Zero
  MaxTokens <- Ten
  Answers <- Replies
  Leftovers <- Freed
  Calls <- TripleLists
  BufferSize = 12
  PieceSizes = {30, 100}
  MaxDepth = 1
  Samples <- Neighbours
INVARIANTS TypeOK PostsThisConversation HearsTheAnswer SerializesLastValues ReadsWhatIsWritten
