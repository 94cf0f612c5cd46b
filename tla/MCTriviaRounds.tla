----------------------------- MODULE MCTriviaRounds -----------------------------
EXTENDS TriviaRounds

\* No count, below one, a half, one and a half, and one to three and a half.
MCCounts == {NaN, -4, -1, 0, 1, 2, 3, 4, 6, 7}

\* Not a number, one and a half, and the numbers one to three.
MCParts == {NaN, 3, 2, 4, 6}
===============================================================================
