------------------------------- MODULE MCKana -------------------------------
EXTENDS KanaProperties

Ends(n) == {0, n - 1}
OneKana == {{"hn1"}}
Vowels == {{"hsingle"}}
=============================================================================
