------------------------------ MODULE MCTetris ------------------------------
EXTENDS Tetris

\* 0xaa: every second column, from column 1
MCCanary == {c \in Cols : c % 2 = 1}
=============================================================================
