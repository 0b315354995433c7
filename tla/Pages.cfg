SPECIFICATION PagesSpec
INVARIANTS PagesTypeOK TypedIsKept QuestionsReach ScreenIsTrue MarksAreMeant
CHECK_DEADLOCK FALSE
