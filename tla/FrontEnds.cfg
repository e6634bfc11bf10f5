SPECIFICATION FrontSpec
CONSTANT Lens = {0, 1, 2}
INVARIANTS ReadsThenAnswersOnce SuccessIsEarned NothingLeftOver
