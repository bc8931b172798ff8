-------------------------------- MODULE MCDesk --------------------------------
(* Desk on small instances: two tokens, and one view, mark and context for    *)
(* each case the decider distinguishes; and three rivals for two places.       *)
EXTENDS Desk, TLC

\* A liquid continuation with an ordinary confirmation.
Steady == [seen |-> TRUE, score |-> 390, quality |-> 300, r6 |-> 30, r24 |-> 50,
           c1 |-> 10, c24 |-> 60, c7 |-> 100, volChange |-> 100, distHigh |-> -50,
           x402 |-> 300, cmc |-> 500, route |-> 10, risk |-> 20, volume |-> 20,
           validated |-> TRUE]

MCViews ==
    {Steady,
     [Steady EXCEPT !.score = 430, !.quality = 600, !.cmc = 850, !.risk = 40],  \* high conviction
     [Steady EXCEPT !.score = 290, !.quality = 700, !.r6 = -10, !.cmc = 300],   \* scout
     [Steady EXCEPT !.score = 272, !.quality = 250, !.r6 = 0],                  \* healthy, no entry
     [Steady EXCEPT !.score = 330, !.c1 = -40, !.c24 = 200, !.cmc = 850],       \* pullback
     [Steady EXCEPT !.validated = FALSE],                                       \* route lost
     [Steady EXCEPT !.score = 150, !.quality = -50]}                            \* decayed

\* A small winner, and a larger loser.
MCMarks == {[value |-> 100, pnl |-> 20], [value |-> 450, pnl |-> -20]}

Behind == [regime |-> "down", rank |-> 30, execRet |-> 10, boardRet |-> 10, top5Ret |-> 150,
           dd |-> 50, judge |-> 100, open |-> TRUE]

MCContexts ==
    {Behind,
     [Behind EXCEPT !.rank = 3],                     \* in the top five
     [Behind EXCEPT !.dd = 190, !.judge = 230],      \* stressed, little budget left
     [Behind EXCEPT !.judge = 265, !.dd = 20],       \* close to the judge's line
     [Behind EXCEPT !.regime = "up", !.judge = -1, !.rank = 0]}

\* Three candidates that all may enter at once and differ by less than the hurdle.
MCRivals == {[Steady EXCEPT !.score = 430, !.quality = q, !.cmc = 850] : q \in {600, 610, 620}}

MCOneMark == {[value |-> 100, pnl |-> 10]}

MCBehind == {Behind}

\* With two tokens the hysteresis never chooses between equally weak targets.
MCTokens == Permutations(Tokens)
===============================================================================
